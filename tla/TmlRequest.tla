----------------------------- MODULE TmlRequest -----------------------------
(***************************************************************************)
(* What the TS_* functions promise of one request to a drive: one request  *)
(* at a time, which ends; one that is reported as successful has been      *)
(* executed, at least once and, because of the retry, at most twice, and a *)
(* successful read returns the answer to that very request.  A request     *)
(* reported as failed may have been executed all the same, even after the  *)
(* report.                                                                 *)
(*                                                                         *)
(* TmlChannel implements this specification on a line that is quiet        *)
(* whenever a new request is written.                                      *)
(***************************************************************************)
EXTENDS Naturals

CONSTANTS
  Requests,     \* messages the host may send
  Reads,        \* those that ask for a register
  MaxRequests   \* bound: requests

VARIABLES
  pending,   \* a request is in progress
  request,   \* the last one
  number,    \* its number
  executed,  \* how often a drive has executed it
  outcome,   \* how the last request that ended did end
  answer     \* the request whose answer the last successful read returned

vars == <<pending, request, number, executed, outcome, answer>>

Answer(r, n) == [axis |-> r.axis, register |-> r.register, number |-> n]

Init ==
  /\ pending = FALSE
  /\ request \in Requests /\ number = 0
  /\ executed = 0
  /\ outcome = "none"
  /\ answer = Answer(request, 0)

Invoke(r) ==
  /\ ~pending /\ number < MaxRequests
  /\ pending' = TRUE
  /\ request' = r /\ number' = number + 1
  /\ executed' = 0
  /\ UNCHANGED <<outcome, answer>>

\* The request reaches the drive, once more if the host has repeated it.
Execute ==
  /\ number > 0 /\ executed < 2
  /\ executed' = executed + 1
  /\ UNCHANGED <<pending, request, number, outcome, answer>>

Succeed ==
  /\ pending /\ executed > 0
  /\ pending' = FALSE /\ outcome' = "ok"
  /\ answer' = IF request \in Reads THEN Answer(request, number) ELSE answer
  /\ UNCHANGED <<request, number, executed>>

Fail ==
  /\ pending
  /\ pending' = FALSE /\ outcome' = "failed"
  /\ UNCHANGED <<request, number, executed, answer>>

Next ==
  \/ \E r \in Requests : Invoke(r)
  \/ Execute
  \/ Succeed
  \/ Fail

\* Every request ends.
Spec == Init /\ [][Next]_vars /\ WF_vars(Succeed \/ Fail)

=============================================================================
