------------------------------- MODULE Session -------------------------------
(***************************************************************************)
(* One VM session: Vm::guest_rpc and Vm::reap on the host (vm.rs, rpc.rs)  *)
(* against run_session in the guest (guest-runtime: session.rs, rpc.rs,    *)
(* guest_api.rs, main.rs).                                                 *)
(*                                                                         *)
(* The guest connects two vsock streams, greets the host over "host", and  *)
(* then serves "api", where the host is the client.  The host accepts      *)
(* both, issues the calls of the closure f while it also answers the       *)
(* greeting, asks for the shutdown, drops the streams and waits for the    *)
(* machine.  "again" is the stream of a guest whose "api" stream ended     *)
(* before any shutdown was asked.                                          *)
(*                                                                         *)
(* Streams are reliable and ordered here (VsockPipe and VsockDevice show   *)
(* it).  tarpc is external: a client future and a dispatch future that     *)
(* ends with its stream, and a server that for_each drives one request at  *)
(* a time.  faults is what may go wrong: the timers "accept" (120 s),      *)
(* "deadline" (6 h on a call, 10 s on the greeting), "ask" (15 s) and      *)
(* "reap" (60-120 s), "reply" (the guest cannot send a reply) and "crash"  *)
(* (the machine stops).                                                    *)
(***************************************************************************)
EXTENDS Naturals, Sequences, SequencesExt

CONSTANTS MaxCalls,  \* the most RPCs f issues (a bound)
          Faults     \* the faults a behaviour may be given

ASSUME SessionAssumption ==
    /\ MaxCalls \in Nat \ {0}
    /\ Faults \subseteq {"accept", "deadline", "ask", "reap", "reply", "crash"}

Streams == {"api", "host", "again"}
Ports == {"guest_api", "host_api"}

Port(s) == IF s = "host" THEN "host_api" ELSE "guest_api"

VARIABLES
    host,       \* where guest_rpc, or the reap after it, is
    result,     \* what the closure f came to
    asked,      \* whether the shutdown request was sent
    calls,      \* how many RPCs f has issued
    waiting,    \* whether f waits for a reply
    guest,      \* where run_session is
    flag,       \* GuestApiServer::shutdown_requested
    running,    \* the request the guest is executing
    reqs,       \* requests in "api", towards the guest
    replies,    \* replies in "api", towards the host
    greet,      \* the greeting in "host"
    listener,   \* PortState::listener of each port
    hostEnd,    \* the host end of each stream
    guestEnd,   \* the guest end of each stream
    faults      \* the faults of this behaviour

hostVars == <<host, result, asked, calls, waiting>>
guestVars == <<guest, flag, running>>
vars == <<hostVars, guestVars, reqs, replies, greet, listener, hostEnd, guestEnd>>
allVars == <<vars, faults>>

Requests == {"call", "shutdown"}

TypeOK ==
    /\ host \in {"accept_api", "accept_host", "drive", "ask", "reap",
                 "reaped", "gave_up", "failed"}
    /\ result \in {"none", "ok", "err"}
    /\ asked \in BOOLEAN /\ calls \in 0..MaxCalls /\ waiting \in BOOLEAN
    /\ guest \in {"connect_api", "connect_host", "greet", "greeting", "serve",
                  "reconnect", "again", "off"}
    /\ flag \in BOOLEAN
    /\ running \in Requests \cup {"none"}
    /\ reqs \in BoundedSeq(Requests, 2)
    /\ replies \in BoundedSeq(Requests, 2)
    /\ greet \in {"none", "sent", "answered"}
    /\ listener \in [Ports -> {"none", "waiting", "stale"}]
    /\ hostEnd \in [Streams -> {"none", "queued", "sent", "held", "dropped"}]
    /\ guestEnd \in [Streams -> {"none", "open", "closed"}]
    /\ faults \subseteq Faults

\* Vm::boot returned: the device runs and the guest starts.
Init ==
    /\ host = "accept_api" /\ result = "none"
    /\ asked = FALSE /\ calls = 0 /\ waiting = FALSE
    /\ guest = "connect_api" /\ flag = FALSE /\ running = "none"
    /\ reqs = <<>> /\ replies = <<>> /\ greet = "none"
    /\ listener = [p \in Ports |-> "none"]
    /\ hostEnd = [s \in Streams |-> "none"]
    /\ guestEnd = [s \in Streams |-> "none"]
    /\ faults \in SUBSET Faults

-----------------------------------------------------------------------------
(* VsockHost::accept, under its timeout.                                   *)

Accepting(p) == host = (IF p = "guest_api" THEN "accept_api" ELSE "accept_host")

\* guest_rpc has both arguments of its select once "host" is accepted.
Accepted(s) ==
    /\ hostEnd' = [hostEnd EXCEPT ![s] = "held"]
    /\ host' = IF s = "host" THEN "drive" ELSE "accept_host"
    /\ UNCHANGED <<result, asked, calls, waiting>>

Queued(p) == {s \in Streams : Port(s) = p /\ hostEnd[s] = "queued"}
Sent(p) == {s \in Streams : Port(s) = p /\ hostEnd[s] = "sent"}

\* The first poll: a queued stream, or else a listener is left behind.
Accept(p) ==
    /\ Accepting(p) /\ listener[p] = "none" /\ Sent(p) = {}
    /\ \/ \E s \in Queued(p) : Accepted(s) /\ UNCHANGED listener
       \/ /\ Queued(p) = {}
          /\ listener' = [listener EXCEPT ![p] = "waiting"]
          /\ UNCHANGED <<hostVars, hostEnd>>
    /\ UNCHANGED <<guestVars, reqs, replies, greet, guestEnd>>

AcceptResolves(p) ==
    /\ Accepting(p)
    /\ \E s \in Sent(p) : Accepted(s)
    /\ UNCHANGED <<guestVars, reqs, replies, greet, listener, guestEnd>>

\* The end of guest_rpc: conn and host_api are dropped.  Every caller reaps
\* after Ok; after Err the flake evaluation does, the others give up.
Return(r) ==
    /\ result' = r
    /\ host' \in IF r = "ok" THEN {"reap"} ELSE {"reap", "failed"}
    /\ hostEnd' = [s \in Streams |->
                     IF hostEnd[s] \in {"sent", "held"} THEN "dropped" ELSE hostEnd[s]]

\* The `??`: the receiver is dropped, its sender stays in the port's state.
AcceptTimesOut(p) ==
    /\ "accept" \in faults
    /\ Accepting(p)
    /\ listener[p] = "waiting" \/ Sent(p) # {}
    /\ listener' = [listener EXCEPT ![p] = IF @ = "waiting" THEN "stale" ELSE @]
    /\ Return("err")
    /\ UNCHANGED <<asked, calls, waiting, guestVars, reqs, replies, greet, guestEnd>>

-----------------------------------------------------------------------------
(* The select of guest_rpc: conn.drive(f) against the host API.            *)

\* Call with the shutdown sent behind it, for a mutant.
CallAndAsk ==
    /\ host = "drive" /\ ~waiting /\ calls < MaxCalls
    /\ calls' = calls + 1
    /\ waiting' = TRUE
    /\ reqs' = reqs \o <<"call", "shutdown">>
    /\ UNCHANGED <<host, result, asked, guestVars, replies, greet, listener, hostEnd, guestEnd>>

\* f issues its next RPC.
Call ==
    /\ host = "drive" /\ ~waiting /\ calls < MaxCalls
    /\ calls' = calls + 1
    /\ waiting' = TRUE
    /\ reqs' = Append(reqs, "call")
    /\ UNCHANGED <<host, result, asked, guestVars, replies, greet, listener, hostEnd, guestEnd>>

GotReply ==
    /\ host = "drive" /\ waiting
    /\ replies # <<>>
    /\ replies' = Tail(replies)
    /\ waiting' = FALSE
    /\ UNCHANGED <<host, result, asked, calls, guestVars, reqs, greet, listener, hostEnd, guestEnd>>

\* drive(f) is over with r: on to the shutdown request.
Driven(r) ==
    /\ host = "drive"
    /\ result' = r
    /\ host' = "ask"
    /\ waiting' = FALSE
    /\ UNCHANGED <<asked, calls, guestVars, reqs, replies, greet, listener, hostEnd, guestEnd>>

\* f returns; a reply that carries an error, or one it cannot parse, is Err.
FReturns == /\ ~waiting /\ calls > 0
            /\ \E r \in {"ok", "err"} : Driven(r)

Hangup == guestEnd["api"] = "closed" /\ replies = <<>>
DispatchEnds == Hangup /\ Driven("err")
\* The deadline of rpc_context: without it (a mutant) a call can wait for ever.
NoCallDeadline == waiting /\ FALSE /\ Driven("err")
CallDeadline == "deadline" \in faults /\ waiting /\ Driven("err")

\* The host API served after the drive instead of beside it, for a mutant.
PollsHostApiLater == host = "ask"

\* The host API answers only while the select polls it.
PollsHostApi == host = "drive"

Greeted ==
    /\ PollsHostApi
    /\ greet = "sent"
    /\ greet' = "answered"
    /\ UNCHANGED <<hostVars, guestVars, reqs, replies, listener, hostEnd, guestEnd>>

\* "host api server terminated": bail! past the shutdown request.
HostApiEnds ==
    /\ PollsHostApi
    /\ guestEnd["host"] = "closed"
    /\ Return("err")
    /\ UNCHANGED <<asked, calls, waiting, guestVars, reqs, replies, greet, listener, guestEnd>>

-----------------------------------------------------------------------------
(* The shutdown request and Vm::reap.                                      *)

Ask ==
    /\ host = "ask" /\ ~asked
    /\ asked' = TRUE
    /\ reqs' = IF guestEnd["api"] = "open" THEN Append(reqs, "shutdown") ELSE reqs
    /\ UNCHANGED <<host, result, calls, waiting, guestVars, replies, greet, listener,
                   hostEnd, guestEnd>>

\* A reply to a call that was given up is none of the shutdown's.
LateReply ==
    /\ host = "ask"
    /\ replies # <<>> /\ Head(replies) = "call"
    /\ replies' = Tail(replies)
    /\ UNCHANGED <<hostVars, guestVars, reqs, greet, listener, hostEnd, guestEnd>>

Answered ==
    /\ host = "ask" /\ asked
    /\ \/ replies # <<>> /\ Head(replies) = "shutdown"
       \/ Hangup
       \/ "ask" \in faults
    /\ replies' = <<>>
    /\ Return(result)
    /\ UNCHANGED <<asked, calls, waiting, guestVars, reqs, greet, listener, guestEnd>>

Reap ==
    /\ host = "reap"
    /\ \/ guest = "off" /\ host' = "reaped"
       \/ "reap" \in faults /\ host' = "gave_up"
    /\ UNCHANGED <<result, asked, calls, waiting, guestVars, reqs, replies, greet, listener,
                   hostEnd, guestEnd>>

-----------------------------------------------------------------------------
(* The guest.                                                              *)

\* VsockStream::connect, and the device's hand-over of the host end to the
\* port's listener (gone if it is stale) or queue.
Connect(s) ==
    /\ guestEnd' = [guestEnd EXCEPT ![s] = "open"]
    /\ hostEnd' = [hostEnd EXCEPT ![s] =
                     CASE listener[Port(s)] = "waiting" -> "sent"
                       [] listener[Port(s)] = "stale" -> "dropped"
                       [] OTHER -> "queued"]
    /\ listener' = [listener EXCEPT ![Port(s)] = "none"]
    /\ UNCHANGED <<hostVars, flag, running, reqs, replies, greet>>

ConnectApi == guest = "connect_api" /\ guest' = "connect_host" /\ Connect("api")
ConnectHost == guest = "connect_host" /\ guest' = "greet" /\ Connect("host")
Reconnect == guest = "reconnect" /\ guest' = "again" /\ Connect("again")

Greet ==
    /\ guest = "greet"
    /\ guest' = "greeting"
    /\ greet' = "sent"
    /\ UNCHANGED <<hostVars, flag, running, reqs, replies, listener, hostEnd, guestEnd>>

GotGreeting ==
    /\ guest = "greeting" /\ greet = "answered"
    /\ guest' = "serve"
    /\ UNCHANGED <<hostVars, flag, running, reqs, replies, greet, listener, hostEnd, guestEnd>>

\* run_session returns Err: its streams close, and main powers off.
GreetFails ==
    /\ guest = "greeting" /\ greet # "answered"
    /\ hostEnd["host"] = "dropped" \/ "deadline" \in faults
    /\ guest' = "off"
    /\ guestEnd' = [s \in Streams |-> IF guestEnd[s] = "open" THEN "closed" ELSE guestEnd[s]]
    /\ UNCHANGED <<hostVars, flag, running, reqs, replies, greet, listener, hostEnd>>

\* Take without removing the request, for a mutant.
TakeAndKeep ==
    /\ guest = "serve" /\ running = "none"
    /\ reqs # <<>>
    /\ running' = Head(reqs)
    /\ UNCHANGED <<hostVars, guest, flag, reqs, replies, greet, listener, hostEnd, guestEnd>>

Take ==
    /\ guest = "serve" /\ running = "none"
    /\ reqs # <<>>
    /\ running' = Head(reqs)
    /\ reqs' = Tail(reqs)
    /\ UNCHANGED <<hostVars, guest, flag, replies, greet, listener, hostEnd, guestEnd>>

\* serve_guest_api returned: poweroff() if f says so, else another round.
Served(f) ==
    /\ guest' = IF f THEN "off" ELSE "reconnect"
    /\ guestEnd' = [guestEnd EXCEPT !["api"] = "closed"]
    /\ reqs' = <<>>

\* GuestApiServer::shutdown stores the flag; nothing takes it back.
Flagged == flag \/ running = "shutdown"

\* The handler returns; the reply may be lost with its stream.
Finish ==
    /\ running # "none"
    /\ running' = "none"
    /\ flag' = Flagged
    /\ \/ /\ hostEnd["api"] = "held"
          /\ replies' = Append(replies, running)
          /\ UNCHANGED <<guest, guestEnd, reqs>>
       \/ /\ hostEnd["api"] = "dropped"
          /\ UNCHANGED <<guest, guestEnd, reqs, replies>>
       \/ /\ hostEnd["api"] = "dropped" \/ "reply" \in faults
          /\ Served(flag')
          /\ UNCHANGED replies
    /\ UNCHANGED <<hostVars, greet, listener, hostEnd>>

ServeEnds ==
    /\ guest = "serve" /\ running = "none"
    /\ reqs = <<>> /\ hostEnd["api"] = "dropped"
    /\ Served(flag)
    /\ UNCHANGED <<hostVars, flag, running, replies, greet, listener, hostEnd>>

\* The machine stops under the guest: nothing tells the host's streams.
Crash ==
    /\ "crash" \in faults
    /\ guest # "off"
    /\ guest' = "off"
    /\ running' = "none"
    /\ UNCHANGED <<hostVars, flag, reqs, replies, greet, listener, hostEnd, guestEnd>>

-----------------------------------------------------------------------------
HostStep ==
    \/ \E p \in Ports : Accept(p) \/ AcceptResolves(p) \/ AcceptTimesOut(p)
    \/ Call \/ GotReply \/ FReturns \/ DispatchEnds \/ CallDeadline
    \/ Greeted \/ HostApiEnds
    \/ Ask \/ LateReply \/ Answered \/ Reap

GuestStep ==
    \/ ConnectApi \/ ConnectHost \/ Greet \/ GotGreeting \/ GreetFails
    \/ Take \/ Finish \/ ServeEnds \/ Reconnect

Step == HostStep \/ GuestStep \/ Crash

Next == Step /\ UNCHANGED faults

SafeSpec == Init /\ [][Next]_allVars

\* The host's executor and the guest's poll a task that is ready, and the
\* handlers of the guest return (a build that hangs is a call's deadline).
\* A timer that is allowed to expire is one of the host's steps: it does.
Spec == SafeSpec /\ WF_vars(HostStep) /\ WF_vars(GuestStep)

-----------------------------------------------------------------------------
Timers == {"accept", "deadline", "ask", "reap"}

Ended == host \in {"reaped", "gave_up", "failed"}

(* The guest never powers off, or promises to, while f may still need it:  *)
(* a shutdown is only taken once drive(f) has its result, whatever call it *)
(* gave up is still running in the guest (vm.rs:175-189).                  *)
NoEarlyShutdown ==
    running = "shutdown" \/ flag => result # "none"

(* f's Ok means every call was executed, once: the guest has nothing left  *)
(* to run for it when the host asks for the shutdown (rpc.rs:43-54).       *)
OkLeavesNothingRunning ==
    result = "ok" => /\ running # "call"
                     /\ \A r \in ToSet(reqs) : r # "call"

(* Whatever closes or crashes, guest_rpc and reap come to an end as long   *)
(* as their timers run: no await can last for ever (vm.rs:160-215).        *)
SessionEnds == Timers \subseteq faults => <>Ended

(* Without a fault, a session gets through the two connections, the        *)
(* greeting and the calls, and the guest powers off after any result of f, *)
(* Ok or Err, so that vm.wait() completes (vm.rs:180): no timer is needed. *)
PowersOff == faults = {} => <>(Ended /\ guest = "off")

-----------------------------------------------------------------------------
(* Why they hold, as an inductive invariant (SessionProofs).               *)

\* guest_rpc has not come to the shutdown request.
Driving == host \in {"accept_api", "accept_host", "drive"}

\* What "api" and the guest hold of the host's requests.
Load == Len(reqs) + (IF running = "none" THEN 0 ELSE 1) + Len(replies)

\* f has one call in flight and only while it waits for it; the shutdown is one
\* more, asked once f has its result; and f's Ok finds nothing in flight.
OneRequestAtATime ==
    /\ Driving <=> result = "none"
    /\ asked => ~Driving
    /\ running = "shutdown" \/ flag => asked
    /\ \A i \in 1..Len(reqs) : reqs[i] = "shutdown" => asked
    /\ Load <= (IF asked THEN 2 ELSE 1)
    /\ Driving => Load <= (IF waiting THEN 1 ELSE 0)
    /\ host \in {"accept_api", "accept_host"} => ~waiting
    /\ result = "ok" =>
         running # "call" /\ \A i \in 1..Len(reqs) : reqs[i] # "call"

=============================================================================
