---------------------------- MODULE SessionProofs ---------------------------
(***************************************************************************)
(* Theorems about Session, for any number of calls and any set of faults:  *)
(* the guest is never told to power off while the closure f may still need *)
(* it, and nothing of a successful f is left running in the guest.         *)
(***************************************************************************)
EXTENDS Session, SequenceTheorems, TLAPS

-----------------------------------------------------------------------------
(* Requests and replies, as sequences.                                     *)

LEMMA EmptyQueue == << >> \in Seq(Requests) /\ Len(<< >>) = 0
OBVIOUS

LEMMA Joined ==
  ASSUME NEW s \in Seq(Requests), NEW r \in Requests
  PROVE  /\ Append(s, r) \in Seq(Requests) /\ Len(s) \in Nat /\ Len(Append(s, r)) = Len(s) + 1
         /\ \A i \in 1..Len(Append(s, r)) :
              (i \in 1..Len(s) /\ Append(s, r)[i] = s[i]) \/ Append(s, r)[i] = r
<1> DEFINE t == Append(s, r)
<1>1. /\ t \in Seq(Requests) /\ Len(s) \in Nat /\ Len(t) = Len(s) + 1
      /\ \A i \in 1..Len(s) : t[i] = s[i]
      /\ t[Len(s) + 1] = r
  BY AppendProperties, LenProperties
<1> HIDE DEF t
<1>2. \A i \in 1..Len(t) : (i \in 1..Len(s) /\ t[i] = s[i]) \/ t[i] = r
  <2>1. \A i \in 1..Len(t) : i \in 1..Len(s) \/ i = Len(s) + 1
    BY <1>1
  <2> QED
    BY <1>1, <2>1
<1> QED
  BY <1>1, <1>2 DEF t

LEMMA Taken ==
  ASSUME NEW s \in Seq(Requests), s # << >>
  PROVE  /\ Head(s) \in Requests /\ Head(s) = s[1] /\ 1 \in 1..Len(s)
         /\ Tail(s) \in Seq(Requests) /\ Len(s) \in Nat \ {0} /\ Len(Tail(s)) = Len(s) - 1
         /\ \A i \in 1..Len(Tail(s)) : i + 1 \in 1..Len(s) /\ Tail(s)[i] = s[i + 1]
<1> DEFINE t == Tail(s)
<1>1. /\ Head(s) \in Requests /\ t \in Seq(Requests) /\ Len(t) = Len(s) - 1
      /\ \A i \in 1..Len(t) : t[i] = s[i + 1]
  BY HeadTailProperties
<1>2. Len(s) \in Nat /\ Len(s) # 0
  BY LenProperties, EmptySeq
<1> HIDE DEF t
<1>3. 1 \in 1..Len(s) /\ \A i \in 1..Len(t) : i + 1 \in 1..Len(s)
  BY <1>1, <1>2
<1>4. Head(s) = s[1]
  OBVIOUS
<1> QED
  BY <1>1, <1>2, <1>3, <1>4 DEF t

-----------------------------------------------------------------------------
(* The inductive invariant.                                                *)

SessionTyped ==
  /\ host \in {"accept_api", "accept_host", "drive", "ask", "reap",
               "reaped", "gave_up", "failed"}
  /\ result \in {"none", "ok", "err"}
  /\ asked \in BOOLEAN /\ calls \in 0..MaxCalls /\ waiting \in BOOLEAN
  /\ guest \in {"connect_api", "connect_host", "greet", "greeting", "serve",
                "reconnect", "again", "off"}
  /\ flag \in BOOLEAN
  /\ running \in Requests \cup {"none"}
  /\ reqs \in Seq(Requests) /\ replies \in Seq(Requests)
  /\ greet \in {"none", "sent", "answered"}
  /\ listener \in [Ports -> {"none", "waiting", "stale"}]
  /\ hostEnd \in [Streams -> {"none", "queued", "sent", "held", "dropped"}]
  /\ guestEnd \in [Streams -> {"none", "open", "closed"}]
  /\ faults \subseteq Faults

SInv == SessionTyped /\ OneRequestAtATime

LEMMA Lengths ==
  ASSUME SessionTyped PROVE Len(reqs) \in Nat /\ Len(replies) \in Nat
BY LenProperties DEF SessionTyped

LEMMA InitSession == Init => SInv
<1> SUFFICES ASSUME Init PROVE SInv
  OBVIOUS
<1>1. SessionTyped
  <2>1. 0 \in 0..MaxCalls /\ "none" \in Requests \cup {"none"}
    BY SessionAssumption
  <2>2. /\ [q \in Ports |-> "none"] \in [Ports -> {"none", "waiting", "stale"}]
        /\ [s \in Streams |-> "none"] \in [Streams -> {"none", "queued", "sent", "held", "dropped"}]
        /\ [s \in Streams |-> "none"] \in [Streams -> {"none", "open", "closed"}]
    OBVIOUS
  <2> QED
    BY <2>1, <2>2, EmptyQueue DEF Init, SessionTyped
<1>2. Len(reqs) = 0 /\ Len(replies) = 0
  BY EmptyQueue DEF Init
<1>3. OneRequestAtATime
  BY <1>2 DEF Init, OneRequestAtATime, Driving, Load
<1> QED
  BY <1>1, <1>3 DEF SInv

\* Steps that touch neither requests nor replies, and keep the host on its side
\* of the shutdown request.
LEMMA OtherSteps ==
  ASSUME SInv, SessionTyped',
         UNCHANGED <<reqs, replies, running, flag, asked>>,
         result' = result /\ Driving' = Driving /\ waiting' = waiting,
         host' \in {"accept_api", "accept_host"} => host \in {"accept_api", "accept_host"}
  PROVE  SInv'
<1>1. Load' = Load
  BY DEF Load
<1> QED
  BY <1>1 DEF SInv, OneRequestAtATime

LEMMA AcceptSteps ==
  ASSUME SInv, NEW p \in Ports, Accept(p) \/ AcceptResolves(p), faults' = faults
  PROVE  SInv'
<1>1. /\ UNCHANGED <<reqs, replies, greet, guest, flag, running, result, asked, calls, waiting, guestEnd>>
      /\ host \in {"accept_api", "accept_host"} /\ host' \in {"accept_api", "accept_host", "drive"}
  BY DEF Accept, AcceptResolves, Accepted, Accepting, hostVars, guestVars
<1>2. hostEnd' \in [Streams -> {"none", "queued", "sent", "held", "dropped"}]
  BY DEF Accept, AcceptResolves, Accepted, Queued, Sent, SInv, SessionTyped
<1>3. listener' \in [Ports -> {"none", "waiting", "stale"}]
  BY DEF Accept, AcceptResolves, SInv, SessionTyped
<1>4. SessionTyped'
  BY <1>1, <1>2, <1>3 DEF SInv, SessionTyped
<1>5. Driving' = Driving
  BY <1>1 DEF Driving
<1> QED
  BY <1>1, <1>4, <1>5, OtherSteps

\* The end of guest_rpc, with an error or with what f came to.
LEMMA ReturnSteps ==
  ASSUME SInv, NEW r \in {"ok", "err"}, Return(r), r = "ok" => result = "ok",
         replies' \in {replies, << >>},
         listener' \in [Ports -> {"none", "waiting", "stale"}],
         UNCHANGED <<asked, calls, waiting, guestVars, reqs, greet, guestEnd, faults>>
  PROVE  SInv'
<1>1. /\ host' \in {"reap", "failed"} /\ result' = r
      /\ UNCHANGED <<asked, calls, waiting, guest, flag, running, reqs, greet, guestEnd, faults>>
  BY DEF Return, guestVars
<1>2. hostEnd' \in [Streams -> {"none", "queued", "sent", "held", "dropped"}]
  BY DEF Return, SInv, SessionTyped
<1>3. SessionTyped'
  BY <1>1, <1>2, EmptyQueue, ZenonT(60) DEF SInv, SessionTyped
<1>4. Len(replies') <= Len(replies) /\ Len(replies) \in Nat /\ Len(replies') \in Nat
  BY Lengths, EmptyQueue DEF SInv
<1>5. Load \in Nat /\ Load' \in Nat /\ Load' <= Load
  BY <1>1, <1>4, Lengths DEF Load, SInv
<1>6. ~Driving' /\ Load <= (IF asked THEN 2 ELSE 1)
  BY <1>1 DEF Driving, SInv, OneRequestAtATime
<1>7. Load' <= (IF asked THEN 2 ELSE 1)
  BY <1>5, <1>6
<1> QED
  BY <1>1, <1>3, <1>6, <1>7 DEF SInv, OneRequestAtATime

LEMMA CallRuns ==
  ASSUME SInv, Call, faults' = faults PROVE SInv'
<1>1. /\ host = "drive" /\ ~waiting /\ waiting' = TRUE /\ calls < MaxCalls /\ calls' = calls + 1
      /\ reqs' = Append(reqs, "call")
      /\ UNCHANGED <<host, result, asked, guest, flag, running, replies, greet, listener, hostEnd, guestEnd>>
  BY DEF Call, guestVars
<1>2. /\ Len(reqs) \in Nat /\ reqs' \in Seq(Requests) /\ Len(reqs') = Len(reqs) + 1
      /\ \A i \in 1..Len(reqs') : (i \in 1..Len(reqs) /\ reqs'[i] = reqs[i]) \/ reqs'[i] = "call"
  BY <1>1, Joined DEF Requests, SInv, SessionTyped
<1>3. calls' \in 0..MaxCalls
  BY <1>1, SessionAssumption DEF SInv, SessionTyped
<1>4. SessionTyped'
  BY <1>1, <1>2, <1>3 DEF SInv, SessionTyped
<1>5. /\ Driving /\ Driving' /\ ~asked /\ result = "none"
      /\ Load <= 0
  BY <1>1 DEF Driving, SInv, OneRequestAtATime
<1>6. Load' <= 1
  BY <1>1, <1>2, <1>5, Lengths DEF Load, SInv
<1> QED
  BY <1>1, <1>2, <1>4, <1>5, <1>6 DEF SInv, OneRequestAtATime

LEMMA GotReplyRuns ==
  ASSUME SInv, GotReply, faults' = faults PROVE SInv'
<1>1. /\ host = "drive" /\ waiting /\ waiting' = FALSE /\ replies # << >>
      /\ replies' = Tail(replies)
      /\ UNCHANGED <<host, result, asked, calls, guest, flag, running, reqs, greet, listener, hostEnd, guestEnd>>
  BY DEF GotReply, guestVars
<1>2. /\ replies' \in Seq(Requests) /\ Len(replies) \in Nat \ {0} /\ Len(replies') = Len(replies) - 1
  BY <1>1, Taken DEF SInv, SessionTyped
<1>3. SessionTyped'
  BY <1>1, <1>2 DEF SInv, SessionTyped
<1>4. /\ Driving /\ Driving' /\ ~asked /\ result = "none" /\ Load <= 1
  BY <1>1 DEF Driving, SInv, OneRequestAtATime
<1>5. Load' <= 0
  BY <1>1, <1>2, <1>4, Lengths DEF Load, SInv
<1>6. Load' <= 1
  BY <1>1, <1>2, <1>4, Lengths DEF Load, SInv
<1> QED
  BY <1>1, <1>3, <1>4, <1>5, <1>6 DEF SInv, OneRequestAtATime

\* drive(f) ends: if it is with Ok, nothing of f is under way.
LEMMA DrivenRuns ==
  ASSUME SInv, NEW r \in {"ok", "err"}, Driven(r), r = "ok" => ~waiting, faults' = faults
  PROVE  SInv'
<1>1. /\ host = "drive" /\ host' = "ask" /\ result' = r /\ waiting' = FALSE
      /\ UNCHANGED <<asked, calls, guest, flag, running, reqs, replies, greet, listener, hostEnd, guestEnd>>
  BY DEF Driven, guestVars
<1>2. SessionTyped'
  BY <1>1 DEF SInv, SessionTyped
<1>3. Driving /\ ~Driving' /\ ~asked /\ Load <= (IF waiting THEN 1 ELSE 0) /\ Load' = Load /\ Load <= 1
  BY <1>1 DEF Driving, Load, SInv, OneRequestAtATime
<1>4. r = "ok" => Len(reqs) = 0 /\ running = "none"
  BY <1>3, Lengths DEF Load, SInv
<1>5. r = "ok" => running # "call" /\ \A i \in 1..Len(reqs) : reqs[i] # "call"
  BY <1>4
<1> QED
  BY <1>1, <1>2, <1>3, <1>5 DEF SInv, OneRequestAtATime

LEMMA AskRuns ==
  ASSUME SInv, Ask, faults' = faults PROVE SInv'
<1>1. /\ host = "ask" /\ ~asked /\ asked' = TRUE
      /\ reqs' \in {reqs, Append(reqs, "shutdown")}
      /\ UNCHANGED <<host, result, calls, waiting, guest, flag, running, replies, greet, listener, hostEnd, guestEnd>>
  BY DEF Ask, guestVars
<1>2. /\ Len(reqs) \in Nat /\ reqs' \in Seq(Requests) /\ Len(reqs') \in {Len(reqs), Len(reqs) + 1}
      /\ \A i \in 1..Len(reqs') : (i \in 1..Len(reqs) /\ reqs'[i] = reqs[i]) \/ reqs'[i] = "shutdown"
  <2>1. reqs \in Seq(Requests) /\ Len(reqs) \in Nat /\ "shutdown" \in Requests
    BY Lengths DEF Requests, SInv, SessionTyped
  <2>2. CASE reqs' = reqs
    BY <2>1, <2>2
  <2>3. CASE reqs' = Append(reqs, "shutdown")
    BY <2>1, <2>3, Joined
  <2> QED
    BY <1>1, <2>2, <2>3
<1>3. SessionTyped'
  BY <1>1, <1>2 DEF SInv, SessionTyped
<1>4. ~Driving /\ ~Driving' /\ Load <= 1
  BY <1>1 DEF Driving, SInv, OneRequestAtATime
<1>5. Load' <= 2
  BY <1>1, <1>2, <1>4, Lengths DEF Load, SInv
<1>6. result = "ok" => \A i \in 1..Len(reqs') : reqs'[i] # "call"
  BY <1>2 DEF SInv, OneRequestAtATime
<1> QED
  BY <1>1, <1>3, <1>4, <1>5, <1>6 DEF SInv, OneRequestAtATime

LEMMA LateReplyRuns ==
  ASSUME SInv, LateReply, faults' = faults PROVE SInv'
<1>1. /\ host = "ask" /\ replies # << >> /\ replies' = Tail(replies)
      /\ UNCHANGED <<host, result, asked, calls, waiting, guest, flag, running, reqs, greet,
                     listener, hostEnd, guestEnd>>
  BY DEF LateReply, hostVars, guestVars
<1>2. /\ replies' \in Seq(Requests) /\ Len(replies) \in Nat \ {0} /\ Len(replies') = Len(replies) - 1
  BY <1>1, Taken DEF SInv, SessionTyped
<1>3. SessionTyped'
  BY <1>1, <1>2 DEF SInv, SessionTyped
<1>4. ~Driving /\ ~Driving' /\ Load <= (IF asked THEN 2 ELSE 1)
  BY <1>1 DEF Driving, SInv, OneRequestAtATime
<1>5. Load' <= (IF asked THEN 2 ELSE 1)
  BY <1>1, <1>2, <1>4, Lengths DEF Load, SInv
<1> QED
  BY <1>1, <1>3, <1>4, <1>5 DEF SInv, OneRequestAtATime

LEMMA HostStepRuns ==
  ASSUME SInv, HostStep, faults' = faults PROVE SInv'
<1>1. ASSUME NEW p \in Ports, Accept(p) \/ AcceptResolves(p) PROVE SInv'
  BY <1>1, AcceptSteps
<1>2. ASSUME NEW p \in Ports, AcceptTimesOut(p) PROVE SInv'
  <2>1. listener' \in [Ports -> {"none", "waiting", "stale"}]
    BY <1>2 DEF AcceptTimesOut, SInv, SessionTyped
  <2> QED
    BY <1>2, <2>1, ReturnSteps DEF AcceptTimesOut
<1>3. CASE HostApiEnds
  BY <1>3, ReturnSteps DEF HostApiEnds, SInv, SessionTyped
<1>4. CASE Answered
  <2>1. result \in {"ok", "err"}
    BY <1>4 DEF Answered, SInv, SessionTyped, OneRequestAtATime, Driving
  <2> QED
    BY <1>4, <2>1, ReturnSteps DEF Answered, SInv, SessionTyped
<1>5. CASE FReturns \/ DispatchEnds \/ CallDeadline
  BY <1>5, DrivenRuns DEF FReturns, DispatchEnds, CallDeadline
<1>6. CASE Greeted
  <2>1. /\ UNCHANGED <<host, result, asked, calls, waiting, guest, flag, running, reqs, replies,
                       listener, hostEnd, guestEnd>>
        /\ greet' = "answered"
    BY <1>6 DEF Greeted, hostVars, guestVars
  <2>2. SessionTyped' /\ Driving' = Driving
    BY <2>1 DEF SInv, SessionTyped, Driving
  <2> QED
    BY <2>1, <2>2, OtherSteps
<1>7. CASE Reap
  <2>1. /\ UNCHANGED <<result, asked, calls, waiting, guest, flag, running, reqs, replies, greet,
                       listener, hostEnd, guestEnd>>
        /\ host = "reap" /\ host' \in {"reaped", "gave_up"}
    BY <1>7 DEF Reap, guestVars
  <2>2. SessionTyped' /\ Driving' = Driving
    BY <2>1 DEF SInv, SessionTyped, Driving
  <2> QED
    BY <2>1, <2>2, OtherSteps
<1> QED
  BY <1>1, <1>2, <1>3, <1>4, <1>5, <1>6, <1>7, CallRuns, GotReplyRuns, AskRuns, LateReplyRuns
  DEF HostStep

-----------------------------------------------------------------------------
(* The guest.                                                              *)

LEMMA TakeRuns ==
  ASSUME SInv, Take, faults' = faults PROVE SInv'
<1>1. /\ running = "none" /\ reqs # << >> /\ running' = Head(reqs) /\ reqs' = Tail(reqs)
      /\ UNCHANGED <<host, result, asked, calls, waiting, guest, flag, replies, greet, listener,
                     hostEnd, guestEnd>>
  BY DEF Take, hostVars
<1>2. /\ Head(reqs) \in Requests /\ Head(reqs) = reqs[1] /\ 1 \in 1..Len(reqs)
      /\ Tail(reqs) \in Seq(Requests) /\ Len(reqs) \in Nat \ {0} /\ Len(Tail(reqs)) = Len(reqs) - 1
      /\ \A i \in 1..Len(Tail(reqs)) : i + 1 \in 1..Len(reqs) /\ Tail(reqs)[i] = reqs[i + 1]
  BY <1>1, Taken DEF SInv, SessionTyped
<1>3. SessionTyped'
  BY <1>1, <1>2 DEF SInv, SessionTyped
<1>4. running' # "none"
  BY <1>1, <1>2 DEF Requests
<1>5. Load' = Load
  BY <1>1, <1>2, <1>4, Lengths DEF Load, SInv
<1>6. Driving' = Driving
  BY <1>1 DEF Driving
<1>7. \A i \in 1..Len(reqs') : \E j \in 1..Len(reqs) : reqs'[i] = reqs[j]
  BY <1>1, <1>2
<1>8. running' = "shutdown" => asked
  BY <1>1, <1>2 DEF SInv, OneRequestAtATime
<1>9. result = "ok" => running' # "call" /\ \A i \in 1..Len(reqs') : reqs'[i] # "call"
  BY <1>1, <1>2, <1>7 DEF SInv, OneRequestAtATime
<1>10. \A i \in 1..Len(reqs') : reqs'[i] = "shutdown" => asked
  BY <1>7 DEF SInv, OneRequestAtATime
<1> QED
  BY <1>1, <1>3, <1>5, <1>6, <1>8, <1>9, <1>10 DEF SInv, OneRequestAtATime

\* Steps of the guest that end a request or a stream: nothing is added to what
\* is under way.
LEMMA GuestEndsSomething ==
  ASSUME SInv, SessionTyped', UNCHANGED hostVars,
         reqs' \in {reqs, << >>}, running' \in {running, "none"},
         flag' => flag \/ running = "shutdown",
         \/ replies' = replies
         \/ running # "none" /\ running' = "none" /\ replies' = Append(replies, running)
  PROVE  SInv'
<1>1. UNCHANGED <<host, result, asked, calls, waiting>>
  BY DEF hostVars
<1>2. Len(reqs') <= Len(reqs) /\ Len(reqs) \in Nat /\ Len(reqs') \in Nat
  BY Lengths, EmptyQueue DEF SInv
<1>3. \/ Len(replies') = Len(replies)
      \/ running # "none" /\ running' = "none" /\ Len(replies') = Len(replies) + 1
  BY Joined DEF SInv, SessionTyped
<1>4. Load \in Nat /\ Load' \in Nat /\ Load' <= Load
  BY <1>2, <1>3, Lengths DEF Load, SInv
<1>5. \A i \in 1..Len(reqs') : i \in 1..Len(reqs) /\ reqs'[i] = reqs[i]
  BY <1>2, EmptyQueue
<1>6. Driving' = Driving
  BY <1>1 DEF Driving
<1>7. \A n \in Nat : Load <= n => Load' <= n
  BY <1>4
<1>8. /\ Load' <= (IF asked THEN 2 ELSE 1)
      /\ Driving => Load' <= (IF waiting THEN 1 ELSE 0)
  BY <1>7 DEF SInv, OneRequestAtATime
<1> QED
  BY <1>1, <1>5, <1>6, <1>8 DEF SInv, OneRequestAtATime

LEMMA FinishRuns ==
  ASSUME SInv, Finish, faults' = faults PROVE SInv'
<1>1. /\ running # "none" /\ running' = "none" /\ flag' = (flag \/ running = "shutdown")
      /\ UNCHANGED <<hostVars, greet, listener, hostEnd>>
      /\ reqs' \in {reqs, << >>}
      /\ replies' = replies \/ replies' = Append(replies, running)
      /\ guest' \in {guest, "off", "reconnect"}
      /\ guestEnd' = guestEnd \/ guestEnd' = [guestEnd EXCEPT !["api"] = "closed"]
  BY DEF Finish, Flagged, Served
<1>2. UNCHANGED <<host, result, asked, calls, waiting>>
  BY <1>1 DEF hostVars
<1>3. replies' \in Seq(Requests)
  <2>1. replies \in Seq(Requests) /\ running \in Requests
    BY <1>1 DEF SInv, SessionTyped
  <2>2. Append(replies, running) \in Seq(Requests)
    BY <2>1, Joined
  <2> QED
    BY <1>1, <2>1, <2>2
<1>4. reqs' \in Seq(Requests)
  BY <1>1, EmptyQueue DEF SInv, SessionTyped
<1>5. guestEnd' \in [Streams -> {"none", "open", "closed"}]
  BY <1>1 DEF SInv, SessionTyped
<1>6. flag' \in BOOLEAN
  BY <1>1
<1>7. SessionTyped'
  BY <1>1, <1>2, <1>3, <1>4, <1>5, <1>6 DEF SInv, SessionTyped
<1> QED
  BY <1>1, <1>7, GuestEndsSomething

LEMMA ConnectRuns ==
  ASSUME SInv, ConnectApi \/ ConnectHost \/ Reconnect, faults' = faults PROVE SInv'
<1>1. /\ UNCHANGED <<hostVars, flag, running, reqs, replies, greet>>
      /\ guest' \in {"connect_host", "greet", "again"}
  BY DEF ConnectApi, ConnectHost, Reconnect, Connect
<1>2. PICK s \in Streams : Connect(s)
  BY DEF ConnectApi, ConnectHost, Reconnect, Streams
<1>3. /\ hostEnd' \in [Streams -> {"none", "queued", "sent", "held", "dropped"}]
      /\ guestEnd' \in [Streams -> {"none", "open", "closed"}]
      /\ listener' \in [Ports -> {"none", "waiting", "stale"}]
  BY <1>2 DEF Connect, SInv, SessionTyped
<1>4. UNCHANGED <<host, result, asked, calls, waiting>>
  BY <1>1 DEF hostVars
<1>5. SessionTyped'
  BY <1>1, <1>3, <1>4 DEF SInv, SessionTyped
<1> QED
  BY <1>1, <1>5, GuestEndsSomething

LEMMA OtherGuestRuns ==
  ASSUME SInv, Greet \/ GotGreeting \/ GreetFails \/ ServeEnds \/ Crash, faults' = faults
  PROVE  SInv'
<1>1. /\ UNCHANGED <<hostVars, flag, replies, listener, hostEnd>>
      /\ reqs' \in {reqs, << >>} /\ running' \in {running, "none"}
      /\ greet' \in {greet, "sent"}
      /\ guest' \in {"greeting", "serve", "off", "reconnect"}
  BY DEF Greet, GotGreeting, GreetFails, ServeEnds, Served, Crash
<1>2. guestEnd' \in [Streams -> {"none", "open", "closed"}]
  BY DEF Greet, GotGreeting, GreetFails, ServeEnds, Served, Crash, SInv, SessionTyped
<1>3. UNCHANGED <<host, result, asked, calls, waiting>>
  BY <1>1 DEF hostVars
<1>4. reqs' \in Seq(Requests)
  BY <1>1, EmptyQueue DEF SInv, SessionTyped
<1>5. SessionTyped'
  BY <1>1, <1>2, <1>3, <1>4 DEF SInv, SessionTyped
<1> QED
  BY <1>1, <1>5, GuestEndsSomething

LEMMA NextSession == SInv /\ [Next]_allVars => SInv'
<1> SUFFICES ASSUME SInv, [Next]_allVars PROVE SInv'
  OBVIOUS
<1>1. CASE Next
  BY <1>1, HostStepRuns, TakeRuns, FinishRuns, ConnectRuns, OtherGuestRuns DEF Next, Step, GuestStep
<1>2. CASE UNCHANGED allVars
  <2>1. UNCHANGED <<host, result, asked, calls, waiting, guest, flag, running, reqs, replies, greet,
                    listener, hostEnd, guestEnd, faults>>
    BY <1>2 DEF allVars, vars, hostVars, guestVars
  <2>2. SessionTyped' /\ Driving' = Driving
    BY <2>1 DEF SInv, SessionTyped, Driving
  <2> QED
    BY <2>1, <2>2, OtherSteps
<1> QED
  BY <1>1, <1>2

LEMMA SessionInvariant == SafeSpec => []SInv
BY InitSession, NextSession, PTL DEF SafeSpec

-----------------------------------------------------------------------------

LEMMA ShortQueue ==
  ASSUME NEW s \in Seq(Requests), Len(s) <= 2
  PROVE  s \in BoundedSeq(Requests, 2)
<1>1. Len(s) \in 0..2
  <2> DEFINE n == Len(s)
  <2>1. n \in Nat /\ n <= 2
    BY LenProperties
  <2> HIDE DEF n
  <2>2. n \in 0..2
    BY <2>1
  <2> QED
    BY <2>2 DEF n
<1>2. s \in [1..Len(s) -> Requests]
  BY LenProperties
<1> QED
  BY <1>1, <1>2 DEF BoundedSeq, SeqOf

\* Type correctness: a stream never holds more than two messages of a kind.
THEOREM SessionTypeCorrect == SafeSpec => []TypeOK
<1>1. SInv => TypeOK
  <2> SUFFICES ASSUME SInv PROVE TypeOK
    OBVIOUS
  <2>1. Len(reqs) <= 2 /\ Len(replies) <= 2
    BY Lengths DEF SInv, OneRequestAtATime, Load
  <2> QED
    BY <2>1, ShortQueue DEF SInv, SessionTyped, TypeOK
<1> QED
  BY <1>1, SessionInvariant, PTL

\* Whatever fails or times out, the guest is not told to power off before the
\* closure f has its result (vm.rs:175-189).
THEOREM NoEarlyShutdownCorrect == SafeSpec => []NoEarlyShutdown
<1>1. SInv => NoEarlyShutdown
  BY DEF SInv, OneRequestAtATime, NoEarlyShutdown
<1> QED
  BY <1>1, SessionInvariant, PTL

\* f's Ok means that all it asked was executed: no call of its own is under way
\* or runs later (rpc.rs:43-54).
THEOREM OkLeavesNothingRunningCorrect == SafeSpec => []OkLeavesNothingRunning
<1>1. SInv => OkLeavesNothingRunning
  <2> SUFFICES ASSUME SInv, result = "ok"
               PROVE  running # "call" /\ \A r \in ToSet(reqs) : r # "call"
    BY DEF OkLeavesNothingRunning
  <2>1. DOMAIN reqs = 1..Len(reqs)
    BY LenProperties DEF SInv, SessionTyped
  <2> QED
    BY <2>1 DEF SInv, OneRequestAtATime, ToSet
<1> QED
  BY <1>1, SessionInvariant, PTL

=============================================================================
