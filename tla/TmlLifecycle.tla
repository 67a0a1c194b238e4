---------------------------- MODULE TmlLifecycle ----------------------------
(***************************************************************************)
(* What a TmlController promises of its connection and of the axes on it:  *)
(* the connection is opened once and never given up, CONN_STATUS tells     *)
(* whether it was opened (and not whether its peer is still there), and an *)
(* axis becomes ready once, when it acknowledges an ENDINIT over a         *)
(* connection whose peer is there; how many it executes is not told here.  *)
(*                                                                         *)
(* A connection that has dropped stays so: no axis becomes ready after it, *)
(* and those that were ready stay ready in the driver's eyes.              *)
(***************************************************************************)

CONSTANT Axes

VARIABLES
  connection,  \* closed, open, or open with its peer gone
  status,      \* CONN_STATUS
  stage        \* per axis: unconfigured, pending, ready

vars == <<connection, status, stage>>

Init ==
  /\ \/ connection = "closed" /\ status = "BAD"
     \/ connection = "open" /\ status = "OK"
  /\ stage = [a \in Axes |-> "unconfigured"]

Open ==
  /\ connection = "closed"
  /\ connection' = "open" /\ status' = "OK"
  /\ UNCHANGED stage

Drop ==
  /\ connection = "open"
  /\ connection' = "dropped"
  /\ UNCHANGED <<status, stage>>

Configure(a) ==
  /\ stage[a] = "unconfigured"
  /\ stage' = [stage EXCEPT ![a] = "pending"]
  /\ UNCHANGED <<connection, status>>

Initialise(a) ==
  /\ connection = "open" /\ stage[a] = "pending"
  /\ stage' = [stage EXCEPT ![a] = "ready"]
  /\ UNCHANGED <<connection, status>>

Next ==
  \/ Open \/ Drop
  \/ \E a \in Axes : Configure(a) \/ Initialise(a)

\* The open is retried, and so is the initialisation.
Spec ==
  /\ Init /\ [][Next]_vars
  /\ WF_vars(Open)
  /\ \A a \in Axes : WF_vars(Initialise(a))

=============================================================================
