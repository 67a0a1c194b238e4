------------------------------ MODULE TmlFrame ------------------------------
(***************************************************************************)
(* Frames on the wire (technosoftSup/src/tmlSerial.cpp): how a TML message *)
(* is put into bytes, and how the host finds the answer of a read in the   *)
(* bytes that arrive after its request: waitAck(), then receiveMessage().  *)
(* TmlChannel has whole messages in their place, and the losses.           *)
(*                                                                         *)
(* A serial bridge puts padding bytes between frames, and the line may     *)
(* damage an answer: change one byte of its payload or checksum, or lose   *)
(* the end of it.  What arrives does so before the timeouts expire, and    *)
(* the read times out when nothing more comes.                             *)
(***************************************************************************)
EXTENDS Integers, Sequences

CONSTANTS
  Messages,   \* the answers a drive may send
  Padding,    \* the bytes a bridge may put between frames
  Noise,      \* what a changed byte may read
  MaxPadding  \* bound: padding bytes in one place

Byte == 0..255
Word == {w \in Nat : w \div 256 \in Byte}  \* 16 bits
Ack == 79  \* TML_ACK_BYTE

MaxData == 4

\* TmlMsg; nData, the length of data, is at most MaxData.
TmlMsg == [addr : Word, opCode : Word, data : Seq(Word)]
IsMessage(msg) == msg \in TmlMsg /\ Len(msg.data) <= MaxData

ASSUME FrameAssumption ==
  /\ Messages # {} /\ \A msg \in Messages : IsMessage(msg)
  /\ Padding \subseteq Byte /\ Noise \subseteq Byte
  /\ MaxPadding \in Nat

-----------------------------------------------------------------------------
(* Encoding *)

\* Mutant: the high byte is not masked off.
Low_Unmasked(w) == w

Low(w) == w % 256

High(w) == w \div 256
Join(high, low) == 256 * high + low

Checksum(buf) ==
  LET sum[i \in 0..Len(buf)] == IF i = 0 THEN 0 ELSE sum[i - 1] + buf[i]
  IN sum[Len(buf)] % 256

\* Length byte, address, operation code and data, high bytes first.
Body(msg) ==
  LET words == <<msg.addr, msg.opCode>> \o msg.data
  IN [i \in 1..(1 + 2 * Len(words)) |->
        IF i = 1 THEN 2 * Len(words)
        ELSE IF i % 2 = 0 THEN High(words[i \div 2]) ELSE Low(words[i \div 2])]

Serialise(msg) == Body(msg) \o <<Checksum(Body(msg))>>

-----------------------------------------------------------------------------
(* Decoding *)

\* What a read gets: a set with the message, or none.
Refused == {}

\* Mutant: the checksum is not compared.
Intact_Always(buf) == TRUE

\* The frame is complete and its checksum is that of the bytes before it.
Intact(buf) ==
  /\ Len(buf) >= 6 /\ Len(buf) >= buf[1] + 2
  /\ buf[buf[1] + 2] = Checksum(SubSeq(buf, 1, buf[1] + 1))

Deserialise(buf) ==
  LET nData == (buf[1] - 4) \div 2
  IN IF Intact(buf) /\ nData \in 0..MaxData
     THEN {[addr |-> Join(buf[2], buf[3]), opCode |-> Join(buf[4], buf[5]),
            data |-> [i \in 1..nData |-> Join(buf[4 + 2 * i], buf[5 + 2 * i])]]}
     ELSE Refused

\* Mutant: only nulls are skipped.
IsLength_NotNull(byte) == byte # 0

\* receiveMessage() takes the first byte that may be a length for one.
IsLength(byte) == byte \in 4..12

-----------------------------------------------------------------------------
VARIABLES
  wire,     \* the bytes still to be read
  answer,   \* what the drive answers to the request
  damaged,  \* not all of its bytes arrive as they were sent
  pc,       \* idle, or waiting for the ACK, the length byte, the rest
  length,   \* lenByte
  result    \* what the read gets

vars == <<wire, answer, damaged, pc, length, result>>

Init ==
  /\ wire = <<>> /\ damaged = FALSE /\ pc = "idle" /\ length = 0
  /\ answer \in Messages /\ result = {answer}

Pads == UNION {[1..n -> Padding] : n \in 0..MaxPadding}

\* What may become of a frame on the line; its length byte is lost or right.
Spoilt(frame) ==
  {[frame EXCEPT ![i] = noise] : i \in 2..Len(frame), noise \in Noise}
    \cup {SubSeq(frame, 1, n) : n \in 0..(Len(frame) - 1)}

\* A request drains what is left, and is acknowledged and answered.
Request ==
  /\ pc = "idle" /\ pc' = "ack"
  /\ \E msg \in Messages, before \in Pads, between \in Pads :
       \E frame \in {Serialise(msg)} \cup Spoilt(Serialise(msg)) :
         /\ answer' = msg /\ damaged' = (frame # Serialise(msg))
         /\ wire' = before \o <<Ack>> \o between \o frame
  /\ UNCHANGED <<length, result>>

\* waitAck(): every other byte is discarded.
AwaitAck ==
  /\ pc = "ack" /\ wire # <<>>
  /\ wire' = Tail(wire)
  /\ pc' = IF Head(wire) = Ack THEN "length" ELSE "ack"
  /\ UNCHANGED <<answer, damaged, length, result>>

\* receiveMessage() up to the length byte.
AwaitLength ==
  /\ pc = "length" /\ wire # <<>>
  /\ wire' = Tail(wire)
  /\ IF IsLength(Head(wire)) THEN pc' = "rest" /\ length' = Head(wire)
     ELSE UNCHANGED <<pc, length>>
  /\ UNCHANGED <<answer, damaged, result>>

\* "Timeout waiting for response length byte".
LengthTimeout ==
  /\ pc = "length" /\ wire = <<>>
  /\ result' = Refused /\ pc' = "idle"
  /\ UNCHANGED <<wire, answer, damaged, length>>

\* Its payload and checksum in one read.
TakeRest ==
  /\ pc = "rest" /\ Len(wire) > length
  /\ result' = Deserialise(<<length>> \o SubSeq(wire, 1, length + 1))
  /\ wire' = SubSeq(wire, length + 2, Len(wire)) /\ pc' = "idle"
  /\ UNCHANGED <<answer, damaged, length>>

\* "Incomplete response": the bytes read are lost.
Incomplete ==
  /\ pc = "rest" /\ Len(wire) <= length
  /\ result' = Refused /\ wire' = <<>> /\ pc' = "idle"
  /\ UNCHANGED <<answer, damaged, length>>

Next == Request \/ AwaitAck \/ AwaitLength \/ LengthTimeout \/ TakeRest \/ Incomplete

Spec == Init /\ [][Next]_vars

-----------------------------------------------------------------------------
(* Properties *)

TypeOK ==
  /\ wire \in Seq(Byte) /\ answer \in Messages /\ damaged \in BOOLEAN
  /\ pc \in {"idle", "ack", "length", "rest"} /\ length \in 0..12
  /\ \A msg \in result : IsMessage(msg)

\* "null bytes (0x00), CR (0x0D) and LF (0x0A) can appear between frames.  Valid TML
\* payload lengths are 4..12, so any byte outside that range is junk": a read whose
\* answer arrives undamaged gets that answer, whatever padding precedes it.
PaddingIsSkipped == pc = "idle" /\ ~damaged => result = {answer}

\* A read of a damaged answer fails: it never returns another message.
DamagedIsRefused == pc = "idle" /\ damaged => result = Refused

=============================================================================
