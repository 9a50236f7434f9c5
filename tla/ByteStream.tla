----------------------------- MODULE ByteStream -----------------------------
(***************************************************************************)
(* What one direction of a vsock stream promises its two users, whatever   *)
(* buffers and wakeups implement it: "Two independent directions (like a   *)
(* socketpair)" (host/src/vsock_pipe.rs:9).                                *)
(*                                                                         *)
(* The writer's accepted bytes form a sequence that only grows; the reader *)
(* receives ever longer prefixes of it; it is told of the end of the       *)
(* stream only after the writer closed and every accepted byte was         *)
(* received.                                                               *)
(***************************************************************************)
EXTENDS Naturals, Sequences

VARIABLES
  sent,     \* every byte the writer had accepted, in order
  got,      \* every byte the reader was handed, in order
  wclosed,  \* the writing end is closed
  rclosed,  \* the reading end is closed
  ended     \* the reader was told of the end of the stream

vars == <<sent, got, wclosed, rclosed, ended>>

Extends(longer, shorter) ==
  /\ Len(longer) > Len(shorter)
  /\ SubSeq(longer, 1, Len(shorter)) = shorter

Init ==
  /\ sent = <<>>
  /\ got = <<>>
  /\ wclosed = FALSE
  /\ rclosed = FALSE
  /\ ended = FALSE

\* The writer hands over bytes: only while both ends are open.
Write ==
  /\ ~wclosed
  /\ ~rclosed
  /\ Extends(sent', sent)
  /\ UNCHANGED <<got, wclosed, rclosed, ended>>

\* The reader is handed bytes that were accepted and that it has not seen,
\* the oldest first.
Read ==
  /\ ~rclosed
  /\ ~ended
  /\ Extends(got', got)
  /\ Len(got') <= Len(sent)
  /\ got' = SubSeq(sent, 1, Len(got'))
  /\ UNCHANGED <<sent, wclosed, rclosed, ended>>

\* The reader is told of the end of the stream.
End ==
  /\ wclosed
  /\ got = sent
  /\ ended' = TRUE
  /\ UNCHANGED <<sent, got, wclosed, rclosed>>

\* Either end, or both of them, close: for good, and nothing moves.
Close ==
  /\ wclosed => wclosed'
  /\ rclosed => rclosed'
  /\ UNCHANGED <<sent, got, ended>>

Next == Write \/ Read \/ End \/ Close

Spec == Init /\ [][Next]_vars

=============================================================================
