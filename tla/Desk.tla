--------------------------------- MODULE Desk ---------------------------------
(***************************************************************************)
(* What the smaller parts of the system share: a clock in ticks of each    *)
(* part's own length, and the value that stands for null.                  *)
(***************************************************************************)
EXTENDS Integers, FiniteSets

CONSTANTS
  None,
  LastTick      \* bound on the clock

Null(S) == S \cup {None}

VARIABLE now

Later == now < LastTick /\ now' = now + 1
=============================================================================
