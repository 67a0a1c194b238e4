--------------------------- MODULE MC_TmlChannel ---------------------------
(* Instances of TmlChannel for TLC. *)
EXTENDS TmlChannel

\* Two drives with one register each are as different as two registers of one
\* drive: a frame is told from another by either.
MCDrives == {1, 2}
=============================================================================
