-------------------------- MODULE MCFleetBarrier ----------------------------
(* Two passes of one RUN_ID over a small fleet.                            *)
EXTENDS FleetBarrier, TLC

Symmetry == Permutations(Pods)
=============================================================================
