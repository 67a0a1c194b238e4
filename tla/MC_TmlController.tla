------------------------- MODULE MC_TmlController -------------------------
(* Instances of TmlController for TLC. *)
EXTENDS TmlController

\* Two descriptors: one more than the controller should ever hold.
MCFds == {3, 4}
=============================================================================
