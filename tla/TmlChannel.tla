----------------------------- MODULE TmlChannel -----------------------------
(***************************************************************************)
(* The request and answer protocol of TmlChannel (technosoftSup/src/       *)
(* tmlSerial.cpp): sendMessage(), waitAck(), receiveMessage() and the      *)
(* operations built from them, on one serial or TCP line shared by several *)
(* drives.                                                                 *)
(*                                                                         *)
(* tmlLock_ is held around every operation, so the host has one request at *)
(* a time.  A frame is modelled by what it is and whom it comes from, an   *)
(* acknowledgement (one byte, 0x4F) by itself; serialisation and checksums *)
(* are not.  What is left of a frame after waitAck() has found a 0x4F in   *)
(* it is a fragment.                                                       *)
(***************************************************************************)
EXTENDS Integers, Sequences

CONSTANTS
  Drives,       \* axis ids of the drives on the line
  Registers,    \* data memory addresses
  Overlap,      \* TRUE: a late answer may still be under way when the next
                \* message is written
  MaxRequests,  \* bound: requests
  MaxLosses,    \* bound: frames and acknowledgements lost by the line
  MaxBuffered   \* bound: items under way to the host or in its buffer

MaxMsgBytes == 16  \* TML_MAX_MSG_BYTES
DrainBytes == 64   \* what the drain before a write takes, at most

\* No more piles up than one drain takes: a line on which the drives' own notices
\* pile up further is outside this model.
ASSUME ChannelAssumption ==
  /\ Overlap \in BOOLEAN
  /\ MaxRequests \in Nat /\ MaxLosses \in Nat
  /\ MaxBuffered \in Nat /\ MaxBuffered * MaxMsgBytes <= DrainBytes

Kinds == {"command", "read16", "read32"}
Requests == [kind : Kinds, axis : Drives, register : Registers]
Numbers == 0 .. MaxRequests

VARIABLES
  pc,        \* the operation in progress
  request,   \* its message
  number,    \* its number (history: the frames do not carry it)
  tries,     \* how often its message has been written
  outcome,   \* what the last operation returned
  value,     \* the answer the last successful read took
  rx,        \* the receive buffer
  toDrive,   \* per drive: messages under way to it
  toHost,    \* what the drives have sent and has not arrived yet
  executed,  \* per request: how often a drive has executed it (history)
  losses

vars == <<pc, request, number, tries, outcome, value, rx, toDrive, toHost, executed, losses>>

Message(r, n) == [request |-> r, number |-> n, acked |-> FALSE]
Messages == [request : Requests, number : Numbers, acked : BOOLEAN]

\* What travels to the host: acknowledgements, TakeData frames, frames a drive
\* sends by itself, fragments of frames.
Item(type, r, n) == [type |-> type, axis |-> r.axis, register |-> r.register, number |-> n]
Items == [type : {"ack", "read16", "read32", "notice", "fragment"},
          axis : Drives, register : Registers, number : Numbers]

TypeOK ==
  /\ pc \in {"idle", "write", "ack", "response"}
  /\ request \in Requests
  /\ number \in Numbers
  /\ tries \in 1..2
  /\ outcome \in {"none", "ok", "failed"}
  /\ value \in Items
  /\ rx \in Seq(Items) /\ toHost \in Seq(Items)
  /\ toDrive \in [Drives -> Seq(Messages)]
  /\ executed \in [Numbers -> Nat]
  /\ losses \in 0..MaxLosses

Init ==
  /\ pc = "idle" /\ outcome = "none"
  /\ request \in Requests /\ number = 0 /\ tries = 1
  /\ value = Item("notice", request, 0)
  /\ rx = <<>> /\ toHost = <<>>
  /\ toDrive = [d \in Drives |-> <<>>]
  /\ executed = [n \in Numbers |-> 0]
  /\ losses = 0

-----------------------------------------------------------------------------
(* The host *)

\* Mutant: nothing is drained.
Drained_Nothing == rx

\* What the receive buffer holds after the drain before a write, which takes all
\* of it (ChannelAssumption).
Drained == <<>>

\* Nothing is under way.
LineQuiet == toHost = <<>> /\ \A d \in Drives : toDrive[d] = <<>>

\* sendMessage(): what the previous operation left behind is drained.
Send(r) ==
  /\ pc = "idle" /\ number < MaxRequests
  /\ Overlap \/ LineQuiet
  /\ pc' = "write" /\ request' = r /\ number' = number + 1 /\ tries' = 1
  /\ rx' = Drained
  /\ UNCHANGED <<outcome, value, toDrive, toHost, executed, losses>>

\* The message goes out, and the acknowledgement is waited for.
Write ==
  /\ pc = "write"
  /\ pc' = "ack"
  /\ toDrive' = [toDrive EXCEPT ![request.axis] = Append(@, Message(request, number))]
  /\ UNCHANGED <<request, number, tries, outcome, value, rx, toHost, executed, losses>>

\* The operation returns.
Return(result) == pc' = "idle" /\ outcome' = result

\* writeBytes() reports an error, on the first write or on the retry.
WriteFails ==
  /\ pc = "write"
  /\ Return("failed")
  /\ UNCHANGED <<request, number, tries, value, rx, toDrive, toHost, executed, losses>>

\* sendMessage() returns true; a read goes on with receiveMessage().
Acknowledged ==
  IF request.kind = "command"
    THEN Return("ok")
    ELSE pc' = "response" /\ UNCHANGED outcome

\* waitAck(): the next byte is an acknowledgement.
TakeAck ==
  /\ pc = "ack" /\ rx # <<>> /\ Head(rx).type = "ack"
  /\ rx' = Tail(rx)
  /\ Acknowledged
  /\ UNCHANGED <<request, number, tries, value, toDrive, toHost, executed, losses>>

\* waitAck(): the bytes of anything else are skipped.
SkipJunk ==
  /\ pc = "ack" /\ rx # <<>> /\ Head(rx).type # "ack"
  /\ rx' = Tail(rx)
  /\ UNCHANGED <<pc, request, number, tries, outcome, value, toDrive, toHost, executed, losses>>

\* A TakeData frame may contain the byte 0x4F, which waitAck() takes for the
\* acknowledgement; the rest of the frame stays in the buffer.
TakeAckInFrame ==
  /\ pc = "ack" /\ rx # <<>> /\ Head(rx).type \in {"read16", "read32", "fragment"}
  /\ rx' = <<[Head(rx) EXCEPT !.type = "fragment"]>> \o Tail(rx)
  /\ Acknowledged
  /\ UNCHANGED <<request, number, tries, value, toDrive, toHost, executed, losses>>

\* Mutant: the timeout counts the reads that brought nothing, and not the time.
AckTimeoutDue_NoBytes == rx = <<>>

\* waitAck() goes by the wall clock: 500 ms pass whatever arrives.
AckTimeoutDue == TRUE

\* Mutant: one write too many.
TriesLeft_Three == tries < 3

\* One retry.
TriesLeft == tries < 2

\* No acknowledgement in time: sendMessage() drains and writes once more.
Retry ==
  /\ pc = "ack" /\ AckTimeoutDue /\ TriesLeft
  /\ pc' = "write" /\ tries' = tries + 1
  /\ rx' = Drained
  /\ UNCHANGED <<request, number, outcome, value, toDrive, toHost, executed, losses>>

\* Mutant: the result of the second waitAck() is not looked at.
SendResult_Ignored == Return("ok")

SendResult == Return("failed")

\* No acknowledgement to the second write either: sendMessage() fails.
GiveUp ==
  /\ pc = "ack" /\ AckTimeoutDue /\ ~TriesLeft
  /\ SendResult
  /\ UNCHANGED <<request, number, tries, value, rx, toDrive, toHost, executed, losses>>

\* receiveMessage(): 0x4F is no length byte, nor need any byte of a fragment be one.
SkipPadding ==
  /\ pc = "response" /\ rx # <<>> /\ Head(rx).type \in {"ack", "fragment"}
  /\ rx' = Tail(rx)
  /\ UNCHANGED <<pc, request, number, tries, outcome, value, toDrive, toHost, executed, losses>>

\* A byte of a fragment is taken for a length byte: what follows fails the
\* checksum, and some of it is gone.
Misframe ==
  /\ pc = "response" /\ rx # <<>> /\ Head(rx).type = "fragment"
  /\ \E k \in 1..Len(rx) : rx' = SubSeq(rx, k + 1, Len(rx))
  /\ Return("failed")
  /\ UNCHANGED <<request, number, tries, value, toDrive, toHost, executed, losses>>

\* Mutant: any complete frame is taken for the answer.
AnswerTaken_AnyOpcode(item, expected) == TRUE

\* readData16() and readData32() check the opcode, not the sender and not the
\* address it echoes.
AnswerTaken(item, expected) == item.type = expected

\* A frame is complete: the operation ends with it.
TakeFrame ==
  /\ pc = "response" /\ rx # <<>> /\ Head(rx).type \in {"read16", "read32", "notice"}
  /\ rx' = Tail(rx)
  /\ Return(IF AnswerTaken(Head(rx), request.kind) THEN "ok" ELSE "failed")
  /\ value' = IF AnswerTaken(Head(rx), request.kind) THEN Head(rx) ELSE value
  /\ UNCHANGED <<request, number, tries, toDrive, toHost, executed, losses>>

\* No answer in time.
ResponseTimeout ==
  /\ pc = "response"
  /\ Return("failed")
  /\ UNCHANGED <<request, number, tries, value, rx, toDrive, toHost, executed, losses>>

-----------------------------------------------------------------------------
(* The line and the drives *)

Room == Len(toHost) + Len(rx) < MaxBuffered

hostVars == <<pc, request, number, tries, outcome, value>>

\* A drive executes the next message and acknowledges it.
Execute(d) ==
  /\ toDrive[d] # <<>> /\ ~Head(toDrive[d]).acked /\ Room
  /\ LET m == Head(toDrive[d])
         rest == IF m.request.kind = "command" THEN <<>> ELSE <<[m EXCEPT !.acked = TRUE]>>
     IN  /\ executed' = [executed EXCEPT ![m.number] = @ + 1]
         /\ toHost' = Append(toHost, Item("ack", m.request, m.number))
         /\ toDrive' = [toDrive EXCEPT ![d] = rest \o Tail(@)]
  /\ UNCHANGED <<hostVars, rx, losses>>

\* It then answers a GiveMeData with a TakeData.
Answer(d) ==
  /\ toDrive[d] # <<>> /\ Head(toDrive[d]).acked /\ Room
  /\ LET m == Head(toDrive[d])
     IN  toHost' = Append(toHost, Item(m.request.kind, m.request, m.number))
  /\ toDrive' = [toDrive EXCEPT ![d] = Tail(@)]
  /\ UNCHANGED <<hostVars, rx, executed, losses>>

\* A drive, or the bridge, sends something by itself.
Notify ==
  /\ toHost = <<>> /\ Room
  /\ toHost' = <<Item("notice", request, 0)>>
  /\ UNCHANGED <<hostVars, rx, toDrive, executed, losses>>

Arrive ==
  /\ toHost # <<>>
  /\ rx' = Append(rx, Head(toHost)) /\ toHost' = Tail(toHost)
  /\ UNCHANGED <<hostVars, toDrive, executed, losses>>

LoseToDrive(d) ==
  /\ toDrive[d] # <<>> /\ ~Head(toDrive[d]).acked /\ losses < MaxLosses
  /\ toDrive' = [toDrive EXCEPT ![d] = Tail(@)] /\ losses' = losses + 1
  /\ UNCHANGED <<hostVars, rx, toHost, executed>>

LoseToHost ==
  /\ toHost # <<>> /\ losses < MaxLosses
  /\ toHost' = Tail(toHost) /\ losses' = losses + 1
  /\ UNCHANGED <<hostVars, rx, toDrive, executed>>

-----------------------------------------------------------------------------
\* The host takes something from its buffer.
ReadStep ==
  \/ TakeAck \/ SkipJunk \/ TakeAckInFrame
  \/ SkipPadding \/ Misframe \/ TakeFrame

HostStep ==
  \/ \E r \in Requests : Send(r)
  \/ Write \/ WriteFails
  \/ ReadStep
  \/ Retry \/ GiveUp \/ ResponseTimeout

LineStep ==
  \/ \E d \in Drives : Execute(d) \/ Answer(d) \/ LoseToDrive(d)
  \/ Notify \/ Arrive \/ LoseToHost

Next == HostStep \/ LineStep

\* The host reads what has arrived, and its timeouts pass.  Nothing is assumed of
\* the line and the drives.
Fairness ==
  /\ WF_vars(Write \/ WriteFails)
  /\ WF_vars(ReadStep)
  /\ WF_vars(Retry) /\ WF_vars(GiveUp) /\ WF_vars(ResponseTimeout)

Spec == Init /\ [][Next]_vars /\ Fairness

-----------------------------------------------------------------------------
(* Properties *)

\* A read that succeeds returns the register it asked for, from the drive it
\* asked: the drain keeps every answer that came too late away from the next
\* request ("prevents stale data from being misinterpreted").
ReadIsOfRequest ==
  outcome = "ok" /\ pc = "idle" /\ request.kind # "command" =>
    value.axis = request.axis /\ value.register = request.register /\ value.number = number

\* What sendMessage() reports as sent, a drive has executed.
SentIsExecuted == outcome = "ok" /\ pc = "idle" => executed[number] > 0

\* However late the answers on the line, a read that succeeds returns what some drive
\* has answered to a read of that width: at worst it is an earlier answer, never a
\* notice or a part of a frame (readData16() and readData32()).
AnswerIsADrives ==
  outcome = "ok" /\ pc = "idle" /\ request.kind # "command" =>
    value.type = request.kind /\ executed[value.number] > 0

\* The retry makes a drive execute a message at most twice.
AtMostTwice == \A n \in Numbers : executed[n] <= 2

\* Every operation returns, even when the line never falls silent ("a call-count
\* approach would never reach the timeout and loop forever").
Returns == pc # "idle" ~> pc = "idle"

\* With a quiet line at each write the functions of TmlChannel keep what
\* TmlRequest promises: a request that succeeds was executed once or twice and
\* returns its own answer, one that fails leaves the last answer alone, and every
\* request ends (sendMessage(), readData16(), readData32()).
Abstract == INSTANCE TmlRequest WITH
  Reads <- {r \in Requests : r.kind # "command"},
  pending <- pc # "idle",
  executed <- executed[number],
  answer <- [axis |-> value.axis, register |-> value.register, number |-> value.number]
ImplementsRequest == Abstract!Spec

=============================================================================
