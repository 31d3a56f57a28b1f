------------------------------ MODULE MCRunner ------------------------------
(***************************************************************************)
(* Small instances of Runner: two readiness conditions and a guard.        *)
(***************************************************************************)
EXTENDS Runner, TLC

CONSTANTS r1, r2, g1,   \* conditions
          x, y, z       \* gates

\* Every condition has a gate of its own.
OwnGates == r1 :> x @@ r2 :> y @@ g1 :> z

\* A readiness condition and the guard wrap the same pointer.
SharedGates == r1 :> x @@ r2 :> y @@ g1 :> x
=============================================================================
