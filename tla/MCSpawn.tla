------------------------------ MODULE MCSpawn ------------------------------
(***************************************************************************)
(* Spawn with every signal that its waits tell apart.                      *)
(***************************************************************************)
EXTENDS SpawnInv

EverySignal == AllSignals
TermOnly == {"SIGTERM"}

=============================================================================
