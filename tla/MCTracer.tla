------------------------------ MODULE MCTracer ------------------------------
(***************************************************************************)
(* Tracer on small instances: the model values of the pids, the kinds of   *)
(* call each configuration allows, and the symmetry of the other pids.     *)
(***************************************************************************)
EXTENDS TracerInv, TLC

CONSTANTS r, c1, c2

TwoPids == {r, c1}
ThreePids == {r, c1, c2}

\* The pids of the children are interchangeable; used for safety only.
Children == Permutations(ThreePids \ {r})

CallsAndWait == {"plain", "fork", "execve", "wait"}
CallsForkExec == {"plain", "fork", "execve"}
CallsFork == {"fork"}
CallsForkPause == {"fork", "pause"}

StopOnly == {"SIGSTOP"}
NoSignals == {}

=============================================================================
