---------------------------- MODULE MC_TmlAxis ----------------------------
(* Instances of TmlAxis for TLC. *)
EXTENDS TmlAxis

\* .SET writes one value that is not the home position.
MCPositions == {1}
=============================================================================
