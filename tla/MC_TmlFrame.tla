----------------------------- MODULE MC_TmlFrame -----------------------------
(* Instances of TmlFrame for TLC: a TakeData16 of register 0x0228 from axis 1 *)
(* with the value 0x4F0A (an ACK and a length in the data), a TakeData32, and *)
(* the shortest and the longest message.                                      *)
EXTENDS TmlFrame

MCMessages ==
  {[addr |-> 255, opCode |-> 46084, data |-> <<16, 552, 20234>>],
   [addr |-> 255, opCode |-> 0, data |-> <<>>],
   [addr |-> 65535, opCode |-> 2570, data |-> <<65535, 2570, 0, 20303>>]}

\* 0x00 and 0x0D; with 0x0A.
Nulls == {0, 13}
WithLineFeed == {0, 10, 13}
=============================================================================
