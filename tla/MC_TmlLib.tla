----------------------------- MODULE MC_TmlLib -----------------------------
(* Instances of TmlLib for TLC.  Addresses as in tmlSerial.h and in the setup *)
(* files of tml_lib/config.                                                   *)
EXTENDS TmlLib

CONSTANTS c1, d1, d2

OneController == [d \in {d1, d2} |-> c1]
OwnIds == [d \in {d1, d2} |-> IF d = d1 THEN 1 ELSE 2]

Manual == [CACC |-> "0232", CSPD |-> "0230", CPOS |-> "022E"]

\* nanotec-st5709s1208.t.zip, and IM233-MA-ID2.t.zip, which has no ENABLE_OFF.
Nanotec == [CACC |-> "02A2", CSPD |-> "02A0", CPOS |-> "029E", ENABLE_OFF |-> "0926"]
IM233 == [CACC |-> "02A2", CSPD |-> "02A0", CPOS |-> "029E"]

SameSetup == [d \in {d1, d2} |-> Nanotec]
OwnSetups == [d \in {d1, d2} |-> IF d = d1 THEN Nanotec ELSE IM233]
=============================================================================
