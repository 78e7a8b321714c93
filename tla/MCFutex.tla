------------------------------- MODULE MCFutex -------------------------------
(***************************************************************************)
(* An instance of module Futex for TLC.                                    *)
(***************************************************************************)
EXTENDS Futex

CONSTANTS r1, r2, w1, f1, f2

MCThread == {r1, r2, w1}
Objects == {f1, f2}

\* Every wait that has a timeout ends, and every wait that a waker keeps waking
\* (sys/futex.c).
WaitsEnd == TimedWaitEnds /\ WokenInTheEnd
=============================================================================
