---------------------------- MODULE MCVsockDevice ---------------------------
(***************************************************************************)
(* Loads for the runs of VsockDevice. Connections are interchangeable,     *)
(* which the safety run uses as a symmetry: its loads are closed under it. *)
(***************************************************************************)
EXTENDS VsockDevice, TLC

ConnSymmetry == Permutations(Conns)

\* One connection with more to send than the credit and the pipe can hold, or
\* with a byte both ways, or two, one of which has a byte for the guest.
SafetyLoads ==
  {c :> [tx |-> 3, rx |-> 0] : c \in Conns} \cup {c :> [tx |-> 1, rx |-> 1] : c \in Conns}
    \cup {[c \in Conns |-> [tx |-> 0, rx |-> IF c = d THEN 1 ELSE 0]] : d \in Conns}

\* One direction at a time, for the liveness properties.
LiveLoads == UNION {{c :> [tx |-> 2, rx |-> 0], c :> [tx |-> 0, rx |-> 2]} : c \in Conns}

\* Four bytes for the host, and room for every packet there can be.
CreditLoads == {c :> [tx |-> 4, rx |-> 0] : c \in Conns}

=============================================================================
