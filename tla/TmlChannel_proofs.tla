------------------------- MODULE TmlChannel_proofs -------------------------
(***************************************************************************)
(* Safety of TmlChannel for any drives, registers, number of requests,     *)
(* losses and buffer size.  On any line, with answers that come late:      *)
(*   TypeCorrect, TwiceAtMost, AnswersAreADrives                           *)
(* On a line that is quiet whenever a request is written (~Overlap):       *)
(*   AnswersAreOwn, SuccessIsExecuted, and                                 *)
(*   Refinement   the safety part of TmlRequest is implemented             *)
(***************************************************************************)
EXTENDS TmlChannel, FiniteSetTheorems, SequenceTheorems, TLAPS

\* A message that waits for its answer asked for one.
GoodMessages == {m \in Messages : m.acked => m.request.kind # "command"}

TypeInv ==
  /\ TypeOK
  /\ toDrive \in [Drives -> Seq(GoodMessages)]

-----------------------------------------------------------------------------
(* Types *)

LEMMA MessageType ==
  ASSUME NEW r \in Requests, NEW n \in Numbers
  PROVE  Message(r, n) \in GoodMessages
  BY DEF Message, GoodMessages, Messages

LEMMA ItemType ==
  ASSUME NEW r \in Requests, NEW n \in Numbers,
         NEW type \in {"ack", "read16", "read32", "notice", "fragment"}
  PROVE  Item(type, r, n) \in Items
  BY DEF Item, Items, Requests

LEMMA TypeInit == Init => TypeInv
<1> SUFFICES ASSUME Init PROVE TypeInv
  OBVIOUS
<1>1. 0 \in Numbers
  BY ChannelAssumption DEF Numbers
<1>2. value \in Items
  BY <1>1, ItemType DEF Init
<1>3. <<>> \in Seq(Items) /\ <<>> \in Seq(Messages) /\ <<>> \in Seq(GoodMessages)
  OBVIOUS
<1> QED BY <1>1, <1>2, <1>3, ChannelAssumption DEF Init, TypeInv, TypeOK

\* The host takes from the front of its buffer, or puts a fragment there.
LEMMA BufferType ==
  ASSUME TypeOK, rx # <<>>
  PROVE  /\ Head(rx) \in Items
         /\ Tail(rx) \in Seq(Items)
         /\ <<[Head(rx) EXCEPT !.type = "fragment"]>> \o Tail(rx) \in Seq(Items)
         /\ \A k \in 1..Len(rx) : SubSeq(rx, k + 1, Len(rx)) \in Seq(Items)
<1>1. rx \in Seq(Items)
  BY DEF TypeOK
<1>2. Head(rx) \in Items /\ Tail(rx) \in Seq(Items)
  BY <1>1, HeadTailProperties
<1>3. [Head(rx) EXCEPT !.type = "fragment"] \in Items
  BY <1>2 DEF Items
<1>4. <<[Head(rx) EXCEPT !.type = "fragment"]>> \o Tail(rx) \in Seq(Items)
  BY <1>2, <1>3, ConcatProperties
<1>5. ASSUME NEW k \in 1..Len(rx)
      PROVE  SubSeq(rx, k + 1, Len(rx)) \in Seq(Items)
  <2>1. k + 1 \in Int /\ Len(rx) \in Int
    BY <1>1, LenProperties
  <2>2. \A i \in (k + 1) .. Len(rx) : rx[i] \in Items
    BY <1>1, <2>1, ElementOfSeq
  <2> QED BY <2>1, <2>2, SubSeqProperties
<1> QED BY <1>2, <1>4, <1>5

LEMMA HostKeepsType ==
  ASSUME TypeInv, HostStep
  PROVE  TypeInv'
<1>1. ASSUME NEW r \in Requests, Send(r)
      PROVE  TypeInv'
  <2>1. number + 1 \in Numbers
    BY <1>1, ChannelAssumption DEF TypeInv, TypeOK, Send, Numbers
  <2> QED BY <1>1, <2>1 DEF TypeInv, TypeOK, Send, Drained
<1>2. CASE Write
  <2>1. Message(request, number) \in GoodMessages /\ request.axis \in Drives
    BY MessageType DEF TypeInv, TypeOK, Requests
  <2>2. Append(toDrive[request.axis], Message(request, number)) \in Seq(GoodMessages)
    BY <2>1, AppendProperties DEF TypeInv
  <2>3. toDrive' \in [Drives -> Seq(GoodMessages)]
    BY <1>2, <2>1, <2>2 DEF Write, TypeInv
  <2>4. toDrive' \in [Drives -> Seq(Messages)]
    BY <2>3, SeqMonotonic DEF GoodMessages
  <2> QED BY <1>2, <2>3, <2>4 DEF Write, TypeInv, TypeOK
<1>3. CASE WriteFails \/ GiveUp \/ ResponseTimeout
  BY <1>3 DEF TypeInv, TypeOK, WriteFails, GiveUp, ResponseTimeout, Return, SendResult
<1>5. CASE Retry
  <2>1. tries' \in 1..2 /\ rx' \in Seq(Items)
    BY <1>5 DEF TypeInv, TypeOK, Retry, TriesLeft, Drained
  <2> QED BY <1>5, <2>1 DEF TypeInv, TypeOK, Retry
<1>4. CASE ReadStep
  <2>1. rx # <<>> /\ rx' \in Seq(Items)
    BY <1>4, BufferType
    DEF TypeInv, ReadStep, TakeAck, SkipJunk, TakeAckInFrame, SkipPadding, Misframe, TakeFrame
  <2>2. value' \in Items
    BY <1>4, <2>1, BufferType
    DEF TypeInv, TypeOK, ReadStep, TakeAck, SkipJunk, TakeAckInFrame, SkipPadding, Misframe,
        TakeFrame
  <2>3. pc' \in {"idle", "write", "ack", "response"} /\ outcome' \in {"none", "ok", "failed"}
    BY <1>4
    DEF TypeInv, TypeOK, ReadStep, TakeAck, SkipJunk, TakeAckInFrame, SkipPadding, Misframe,
        TakeFrame, Acknowledged, Return
  <2>4. UNCHANGED <<request, number, tries, toDrive, toHost, executed, losses>>
    BY <1>4
    DEF ReadStep, TakeAck, SkipJunk, TakeAckInFrame, SkipPadding, Misframe, TakeFrame
  <2> QED BY <2>1, <2>2, <2>3, <2>4 DEF TypeInv, TypeOK
<1> QED BY <1>1, <1>2, <1>3, <1>4, <1>5 DEF HostStep

\* What a drive has to do with the message at the head of its queue.
LEMMA QueueType ==
  ASSUME TypeInv, NEW d \in Drives, toDrive[d] # <<>>
  PROVE  /\ Head(toDrive[d]) \in GoodMessages
         /\ Tail(toDrive[d]) \in Seq(GoodMessages)
  BY HeadTailProperties DEF TypeInv

LEMMA DriveQueueType ==
  ASSUME TypeInv, NEW d \in Drives, NEW s \in Seq(GoodMessages),
         toDrive' = [toDrive EXCEPT ![d] = s]
  PROVE  /\ toDrive' \in [Drives -> Seq(GoodMessages)]
         /\ toDrive' \in [Drives -> Seq(Messages)]
<1>1. toDrive' \in [Drives -> Seq(GoodMessages)]
  BY DEF TypeInv
<1> QED BY <1>1, SeqMonotonic DEF GoodMessages

LEMMA LineKeepsType ==
  ASSUME TypeInv, LineStep
  PROVE  TypeInv'
<1> USE DEF hostVars
<1>1. ASSUME NEW d \in Drives, Execute(d)
      PROVE  TypeInv'
  <2> DEFINE m == Head(toDrive[d])
             rest == IF m.request.kind = "command" THEN <<>>
                     ELSE <<[m EXCEPT !.acked = TRUE]>>
  <2>1. m \in GoodMessages /\ Tail(toDrive[d]) \in Seq(GoodMessages)
    BY <1>1, QueueType DEF Execute
  <2>2. m.request \in Requests /\ m.number \in Numbers
    BY <2>1 DEF GoodMessages, Messages
  <2>3. rest \in Seq(GoodMessages)
    <3>1. m.request.kind # "command" => [m EXCEPT !.acked = TRUE] \in GoodMessages
      BY <2>1 DEF GoodMessages, Messages
    <3> QED BY <3>1
  <2>4. rest \o Tail(toDrive[d]) \in Seq(GoodMessages)
    BY <2>1, <2>3, ConcatProperties
  <2>5. toDrive' = [toDrive EXCEPT ![d] = rest \o Tail(toDrive[d])]
    BY <1>1 DEF Execute
  <2>6. Append(toHost, Item("ack", m.request, m.number)) \in Seq(Items)
    BY <2>2, ItemType, AppendProperties DEF TypeInv, TypeOK
  <2>7. executed' \in [Numbers -> Nat]
    BY <1>1, <2>2 DEF Execute, TypeInv, TypeOK
  <2> HIDE DEF m, rest
  <2>8. toDrive' \in [Drives -> Seq(GoodMessages)] /\ toDrive' \in [Drives -> Seq(Messages)]
    BY <2>4, <2>5, DriveQueueType
  <2>9. toHost' \in Seq(Items)
    BY <1>1, <2>6 DEF Execute, m
  <2> QED BY <1>1, <2>7, <2>8, <2>9 DEF TypeInv, TypeOK, Execute
<1>2. ASSUME NEW d \in Drives, Answer(d)
      PROVE  TypeInv'
  <2> DEFINE m == Head(toDrive[d])
  <2>1. m \in GoodMessages /\ Tail(toDrive[d]) \in Seq(GoodMessages) /\ m.acked
    BY <1>2, QueueType DEF Answer
  <2>2. m.request \in Requests /\ m.number \in Numbers /\ m.request.kind \in {"read16", "read32"}
    BY <2>1 DEF GoodMessages, Messages, Requests, Kinds
  <2>3. Append(toHost, Item(m.request.kind, m.request, m.number)) \in Seq(Items)
    BY <2>2, ItemType, AppendProperties DEF TypeInv, TypeOK
  <2>4. toDrive' \in [Drives -> Seq(GoodMessages)] /\ toDrive' \in [Drives -> Seq(Messages)]
    BY <1>2, <2>1, DriveQueueType DEF Answer
  <2> QED BY <1>2, <2>3, <2>4 DEF TypeInv, TypeOK, Answer
<1>3. ASSUME NEW d \in Drives, LoseToDrive(d)
      PROVE  TypeInv'
  <2>1. toDrive' \in [Drives -> Seq(GoodMessages)] /\ toDrive' \in [Drives -> Seq(Messages)]
    BY <1>3, QueueType, DriveQueueType DEF LoseToDrive
  <2>2. losses' \in 0..MaxLosses
    BY <1>3, ChannelAssumption DEF LoseToDrive, TypeInv, TypeOK
  <2> QED BY <1>3, <2>1, <2>2 DEF TypeInv, TypeOK, LoseToDrive
<1>4. CASE Notify
  <2>1. Item("notice", request, 0) \in Items
    BY ItemType, ChannelAssumption DEF TypeInv, TypeOK, Numbers
  <2> QED BY <1>4, <2>1 DEF TypeInv, TypeOK, Notify
<1>5. CASE Arrive
  <2>1. Head(toHost) \in Items /\ Tail(toHost) \in Seq(Items)
    BY <1>5, HeadTailProperties DEF Arrive, TypeInv, TypeOK
  <2>2. Append(rx, Head(toHost)) \in Seq(Items)
    BY <2>1, AppendProperties DEF TypeInv, TypeOK
  <2> QED BY <1>5, <2>1, <2>2 DEF TypeInv, TypeOK, Arrive
<1>6. CASE LoseToHost
  <2>1. Tail(toHost) \in Seq(Items)
    BY <1>6, HeadTailProperties DEF LoseToHost, TypeInv, TypeOK
  <2>2. losses' \in 0..MaxLosses
    BY <1>6, ChannelAssumption DEF LoseToHost, TypeInv, TypeOK
  <2> QED BY <1>6, <2>1, <2>2 DEF TypeInv, TypeOK, LoseToHost
<1> QED BY <1>1, <1>2, <1>3, <1>4, <1>5, <1>6 DEF LineStep

LEMMA TypeInvariance == Spec => []TypeInv
<1>1. TypeInv /\ UNCHANGED vars => TypeInv'
  BY DEF vars, TypeInv, TypeOK
<1>2. TypeInv /\ [Next]_vars => TypeInv'
  BY <1>1, HostKeepsType, LineKeepsType DEF Next
<1> QED BY <1>2, TypeInit, PTL DEF Spec

\* Every variable keeps its type, on a quiet line and on a busy one.
THEOREM TypeCorrect == Spec => []TypeOK
<1>1. TypeInv => TypeOK
  BY DEF TypeInv
<1> QED BY <1>1, TypeInvariance, PTL

-----------------------------------------------------------------------------
(* Any line: how often a message can still be executed                      *)

\* The copies of message n in a queue that its drive has not executed.
Unexecuted(s, n) == {i \in 1..Len(s) : s[i].number = n /\ ~s[i].acked}

\* How often the message in progress has been written, and how often any message
\* can have been.
Written == IF pc = "write" THEN tries - 1 ELSE tries
Writes(n) == IF n < number THEN 2 ELSE IF n = number THEN Written ELSE 0

\* Each copy was written, and the copies of one message go to one drive.
RetryBudget ==
  /\ \A n \in Numbers, d \in Drives :
       executed[n] + Cardinality(Unexecuted(toDrive[d], n)) <= Writes(n)
  /\ \A n \in Numbers, d, e \in Drives :
       Unexecuted(toDrive[d], n) # {} /\ Unexecuted(toDrive[e], n) # {} => d = e
  /\ \A d \in Drives : Unexecuted(toDrive[d], number) # {} => d = request.axis

LEMMA UnexecutedFinite ==
  ASSUME NEW s \in Seq(GoodMessages), NEW n
  PROVE  /\ IsFiniteSet(Unexecuted(s, n)) /\ Cardinality(Unexecuted(s, n)) \in Nat
         /\ Unexecuted(s, n) = {} <=> Cardinality(Unexecuted(s, n)) = 0
<1>1. Unexecuted(s, n) \in SUBSET (1..Len(s)) /\ Len(s) \in Nat
  BY LenProperties DEF Unexecuted
<1>2. IsFiniteSet(1..Len(s))
  BY <1>1, FS_Interval
<1>3. IsFiniteSet(Unexecuted(s, n))
  BY <1>1, <1>2, FS_Subset
<1> QED BY <1>3, FS_CardinalityType, FS_EmptySet

\* The sets with which a queue is compared are no larger than the queue's.
LEMMA FewerUnexecuted ==
  ASSUME NEW s \in Seq(GoodMessages), NEW t \in Seq(GoodMessages), NEW n, NEW k \in Int,
         \A i \in Unexecuted(t, n) : i + k \in Unexecuted(s, n)
  PROVE  /\ Cardinality(Unexecuted(t, n)) <= Cardinality(Unexecuted(s, n))
         /\ Unexecuted(t, n) # {} => Unexecuted(s, n) # {}
         /\ 1 \in Unexecuted(s, n) /\ (\A i \in Unexecuted(t, n) : i + k # 1) =>
              Cardinality(Unexecuted(t, n)) + 1 <= Cardinality(Unexecuted(s, n))
<1> DEFINE T == Unexecuted(t, n)
           S == Unexecuted(s, n)
           f == [i \in T |-> i + k]
<1>1. IsFiniteSet(T) /\ IsFiniteSet(S) /\ Cardinality(S) \in Nat /\ Cardinality(T) \in Nat
  BY UnexecutedFinite
<1>2. T \subseteq Int
  BY DEF Unexecuted
<1> HIDE DEF T, S
<1>3. ASSUME NEW U, \A i \in T : i + k \in U
      PROVE  f \in Injection(T, U)
  <2>1. f \in [T -> U]
    BY <1>3
  <2>2. \A i, j \in T : f[i] = f[j] => i = j
    BY <1>2
  <2> HIDE DEF f
  <2> QED BY <2>1, <2>2 DEF Injection, IsInjective
<1> HIDE DEF f
<1>4. \A i \in T : i + k \in S
  BY DEF T, S
<1>5. Cardinality(T) <= Cardinality(S)
  BY <1>1, <1>3, <1>4, FS_Injection
<1>6. ASSUME 1 \in S, \A i \in T : i + k # 1
      PROVE  Cardinality(T) + 1 <= Cardinality(S)
  <2>1. IsFiniteSet(S \ {1}) /\ Cardinality(S \ {1}) = Cardinality(S) - 1
    BY <1>1, <1>6, FS_RemoveElement
  <2>2. f \in Injection(T, S \ {1})
    BY <1>3, <1>4, <1>6
  <2>3. Cardinality(T) <= Cardinality(S \ {1})
    BY <2>1, <2>2, FS_Injection
  <2> QED BY <1>1, <2>1, <2>3
<1>7. T # {} => S # {}
  BY <1>4
<1> QED BY <1>5, <1>6, <1>7 DEF T, S

\* What a drive leaves of its queue: the message at its head is gone, or executed.
LEMMA HeadUnexecuted ==
  ASSUME NEW s \in Seq(GoodMessages), s # <<>>, NEW t \in Seq(GoodMessages),
         \/ t = Tail(s)
         \/ \E m \in GoodMessages : m.acked /\ t = <<m>> \o Tail(s)
  PROVE  \A n \in Numbers :
           /\ Cardinality(Unexecuted(t, n)) <= Cardinality(Unexecuted(s, n))
           /\ Unexecuted(t, n) # {} => Unexecuted(s, n) # {}
           /\ ~Head(s).acked /\ n = Head(s).number =>
                /\ Cardinality(Unexecuted(t, n)) + 1 <= Cardinality(Unexecuted(s, n))
                /\ Unexecuted(s, n) # {}
<1> TAKE n \in Numbers
<1>1. /\ Tail(s) \in Seq(GoodMessages) /\ Len(Tail(s)) = Len(s) - 1 /\ Len(s) \in Nat \ {0}
      /\ \A i \in 1..Len(Tail(s)) : Tail(s)[i] = s[i + 1]
      /\ Head(s) = s[1]
  BY HeadTailProperties, EmptySeq
<1>2. ~Head(s).acked /\ n = Head(s).number => 1 \in Unexecuted(s, n)
  BY <1>1 DEF Unexecuted
<1>3. CASE t = Tail(s)
  <2>1. \A i \in Unexecuted(t, n) : i + 1 \in Unexecuted(s, n) /\ i + 1 # 1
    BY <1>1, <1>3 DEF Unexecuted
  <2> QED BY <1>2, <2>1, FewerUnexecuted
<1>4. CASE \E m \in GoodMessages : m.acked /\ t = <<m>> \o Tail(s)
  <2>1. PICK m \in GoodMessages : m.acked /\ t = <<m>> \o Tail(s)
    BY <1>4
  <2>2. /\ Len(t) = Len(s)
        /\ \A i \in 1..Len(s) : t[i] = IF i = 1 THEN m ELSE Tail(s)[i - 1]
    <3> DEFINE u == <<m>> \o Tail(s)
    <3>1. /\ Len(u) = Len(s)
          /\ \A i \in 1..Len(s) : u[i] = IF i = 1 THEN m ELSE Tail(s)[i - 1]
      BY <1>1, ConcatProperties
    <3> QED BY <2>1, <3>1
  <2>3. \A i \in 2..Len(s) : t[i] = s[i]
    <3> SUFFICES ASSUME NEW i \in 2..Len(s)
                 PROVE  t[i] = s[i]
      OBVIOUS
    <3>1. i - 1 \in 1..Len(Tail(s)) /\ (i - 1) + 1 = i /\ i \in 1..Len(s) /\ i # 1
      BY <1>1
    <3> QED BY <1>1, <2>2, <3>1
  <2>4. \A i \in Unexecuted(t, n) : i \in 2..Len(s)
    <3>1. t[1].acked
      <4>1. 1 \in 1..Len(s)
        BY <1>1
      <4>2. t[1] = m
        BY <2>2, <4>1
      <4> QED BY <2>1, <4>2
    <3>2. \A i \in Unexecuted(t, n) : i \in 1..Len(s) /\ i # 1
      BY <2>2, <3>1 DEF Unexecuted
    <3> QED BY <1>1, <3>2
  <2>5. \A i \in Unexecuted(t, n) : i + 0 \in Unexecuted(s, n) /\ i + 0 # 1
    BY <1>1, <2>3, <2>4 DEF Unexecuted
  <2> QED BY <1>2, <2>5, FewerUnexecuted
<1> QED BY <1>3, <1>4

\* A message that is written joins the copies of its own number.
LEMMA AppendUnexecuted ==
  ASSUME NEW s \in Seq(GoodMessages), NEW m \in GoodMessages
  PROVE  \A n \in Numbers :
           /\ n # m.number => Unexecuted(Append(s, m), n) = Unexecuted(s, n)
           /\ Cardinality(Unexecuted(Append(s, m), n)) <= Cardinality(Unexecuted(s, n)) + 1
<1> TAKE n \in Numbers
<1> DEFINE t == Append(s, m)
<1>1. /\ t \in Seq(GoodMessages) /\ Len(t) = Len(s) + 1 /\ Len(s) \in Nat
      /\ \A i \in 1..Len(s) : t[i] = s[i]
      /\ t[Len(s) + 1] = m
  BY AppendProperties, LenProperties
<1> HIDE DEF t
<1>2. ASSUME n # m.number
      PROVE  Unexecuted(t, n) = Unexecuted(s, n)
  BY <1>1, <1>2 DEF Unexecuted
<1>3. Cardinality(Unexecuted(t, n)) <= Cardinality(Unexecuted(s, n)) + 1
  <2> DEFINE S == Unexecuted(s, n)
             U == S \cup {Len(s) + 1}
  <2>1. IsFiniteSet(S) /\ Cardinality(S) \in Nat /\ Cardinality(Unexecuted(t, n)) \in Nat
    BY <1>1, UnexecutedFinite
  <2>2. Unexecuted(t, n) \in SUBSET U
    BY <1>1 DEF Unexecuted
  <2> HIDE DEF S
  <2>3. IsFiniteSet(U) /\ Cardinality(U) <= Cardinality(S) + 1 /\ Cardinality(U) \in Nat
    <3>1. IsFiniteSet(U) /\ Cardinality(U) \in {Cardinality(S), Cardinality(S) + 1}
      BY <2>1, FS_AddElement
    <3> QED BY <2>1, <3>1
  <2> HIDE DEF U
  <2>4. Cardinality(Unexecuted(t, n)) <= Cardinality(U)
    BY <2>2, <2>3, FS_Subset
  <2> QED BY <2>1, <2>3, <2>4 DEF S
<1> QED BY <1>2, <1>3 DEF t

-----------------------------------------------------------------------------
LEMMA InitBudget == Init => RetryBudget
<1> SUFFICES ASSUME Init
             PROVE  RetryBudget
  OBVIOUS
<1>1. \A d \in Drives, n \in Numbers : Unexecuted(toDrive[d], n) = {}
  BY DEF Init, Unexecuted
<1>2. request.axis \in Drives /\ 0 \in Numbers
  BY ChannelAssumption DEF Init, Requests, Numbers
<1>3. \A n \in Numbers : executed[n] = 0 /\ Writes(n) \in {0, 1}
  BY ChannelAssumption DEF Init, Writes, Written, Numbers
<1>4. Cardinality({}) = 0
  BY FS_EmptySet
<1>5. \A n \in Numbers, d \in Drives :
        executed[n] + Cardinality(Unexecuted(toDrive[d], n)) <= Writes(n)
  <2> SUFFICES ASSUME NEW n \in Numbers, NEW d \in Drives
               PROVE  executed[n] + Cardinality(Unexecuted(toDrive[d], n)) <= Writes(n)
    OBVIOUS
  <2>1. executed[n] = 0 /\ Cardinality(Unexecuted(toDrive[d], n)) = 0 /\ Writes(n) \in {0, 1}
    BY <1>1, <1>3, <1>4
  <2> QED BY <2>1
<1>6. number \in Numbers
  BY <1>2 DEF Init
<1> QED BY <1>1, <1>5, <1>6 DEF RetryBudget

\* A step of the host that writes nothing, be it the start of a request.
LEMMA HostKeepsBudget ==
  ASSUME TypeInv, RetryBudget, UNCHANGED <<executed, toDrive>>,
         \A n \in Numbers : Writes(n) <= Writes(n)' /\ Writes(n) \in Int /\ Writes(n)' \in Int,
         \/ UNCHANGED <<request, number>>
         \/ \A d \in Drives : Unexecuted(toDrive[d], number') = {}
  PROVE  RetryBudget'
<1>1. \A n \in Numbers, d \in Drives :
        executed[n] \in Nat /\ Cardinality(Unexecuted(toDrive[d], n)) \in Nat
  BY UnexecutedFinite DEF TypeInv, TypeOK
<1>2. ASSUME NEW n \in Numbers, NEW d \in Drives
      PROVE  executed'[n] + Cardinality(Unexecuted(toDrive'[d], n)) <= Writes(n)'
  <2> DEFINE c == Cardinality(Unexecuted(toDrive[d], n))
  <2>1. executed[n] \in Nat /\ c \in Nat /\ executed[n] + c <= Writes(n)
    BY <1>1 DEF RetryBudget
  <2>2. Writes(n) <= Writes(n)' /\ Writes(n) \in Int /\ Writes(n)' \in Int
    OBVIOUS
  <2> HIDE DEF c
  <2>3. executed[n] + c <= Writes(n)'
    BY <2>1, <2>2
  <2> QED BY <2>3 DEF c
<1>3. \A d \in Drives : Unexecuted(toDrive'[d], number') # {} => d = request'.axis
  BY DEF RetryBudget
<1> QED BY <1>2, <1>3 DEF RetryBudget

LEMMA WritesType ==
  ASSUME TypeInv
  PROVE  /\ number \in Numbers /\ number \in Nat /\ tries \in 1..2
         /\ Written \in Int /\ \A n \in Numbers : n \in Nat /\ Writes(n) \in 0..2
  BY ChannelAssumption DEF TypeInv, TypeOK, Written, Writes, Numbers

LEMMA ExecutedInBudget ==
  ASSUME TypeInv, RetryBudget
  PROVE  \A n \in Numbers : executed[n] \in 0..2 /\ (n > number => executed[n] = 0)
<1> SUFFICES ASSUME NEW n \in Numbers
             PROVE  executed[n] \in 0..2 /\ (n > number => executed[n] = 0)
  OBVIOUS
<1>1. /\ executed[n] \in Nat /\ Writes(n) \in 0..2 /\ request.axis \in Drives
      /\ executed[n] + Cardinality(Unexecuted(toDrive[request.axis], n)) <= Writes(n)
  BY WritesType DEF TypeInv, TypeOK, Requests, RetryBudget
<1>2. Cardinality(Unexecuted(toDrive[request.axis], n)) \in Nat
  BY <1>1, UnexecutedFinite DEF TypeInv
<1>3. n > number => Writes(n) = 0
  BY WritesType DEF Writes
<1> QED BY <1>1, <1>2, <1>3

LEMMA SendKeepsBudget ==
  ASSUME TypeInv, RetryBudget, NEW r \in Requests, Send(r)
  PROVE  RetryBudget'
<1>1. /\ number' = number + 1 /\ number' \in Numbers /\ pc' = "write" /\ tries' = 1
      /\ UNCHANGED <<executed, toDrive>>
  BY WritesType, ChannelAssumption DEF Send, Numbers
<1>2. \A n \in Numbers : Writes(n) <= Writes(n)' /\ Writes(n) \in Int /\ Writes(n)' \in Int
  BY <1>1, WritesType DEF Writes, Written
<1>3. \A d \in Drives : Unexecuted(toDrive[d], number') = {}
  <2> SUFFICES ASSUME NEW d \in Drives
               PROVE  Unexecuted(toDrive[d], number') = {}
    OBVIOUS
  <2>1. Writes(number') = 0
    BY <1>1, WritesType DEF Writes
  <2>2. executed[number'] + Cardinality(Unexecuted(toDrive[d], number')) <= 0
    BY <1>1, <2>1 DEF RetryBudget
  <2>3. executed[number'] \in Nat /\ toDrive[d] \in Seq(GoodMessages)
    BY <1>1 DEF TypeInv, TypeOK
  <2> QED BY <2>2, <2>3, UnexecutedFinite
<1> QED BY <1>1, <1>2, <1>3, HostKeepsBudget

LEMMA WriteKeepsBudget ==
  ASSUME TypeInv, RetryBudget, Write
  PROVE  RetryBudget'
<1> DEFINE q == toDrive[request.axis]
           m == Message(request, number)
<1>1. /\ m \in GoodMessages /\ m.number = number /\ request.axis \in Drives
      /\ q \in Seq(GoodMessages) /\ number \in Numbers
  BY MessageType DEF TypeInv, TypeOK, Message, Requests
<1>2. /\ UNCHANGED <<request, number, tries, executed>>
      /\ toDrive' = [toDrive EXCEPT ![request.axis] = Append(q, m)]
      /\ \A d \in Drives : toDrive'[d] = IF d = request.axis THEN Append(q, m) ELSE toDrive[d]
  BY <1>1 DEF Write, TypeInv
<1>3. \A n \in Numbers : Writes(n)' = IF n = number THEN Writes(n) + 1 ELSE Writes(n)
  BY <1>2, WritesType DEF Write, Writes, Written
<1>4. \A n \in Numbers :
        /\ n # number => Unexecuted(Append(q, m), n) = Unexecuted(q, n)
        /\ Cardinality(Unexecuted(Append(q, m), n)) <= Cardinality(Unexecuted(q, n)) + 1
  BY <1>1, AppendUnexecuted
<1> HIDE DEF m
<1>5. \A d \in Drives, n \in Numbers : n # number =>
        Unexecuted(toDrive'[d], n) = Unexecuted(toDrive[d], n)
  BY <1>2, <1>4
<1> HIDE DEF q
<1>6. \A d \in Drives : Unexecuted(toDrive'[d], number) # {} => d = request.axis
  BY <1>2 DEF RetryBudget
<1>7. ASSUME NEW n \in Numbers, NEW d \in Drives
      PROVE  executed'[n] + Cardinality(Unexecuted(toDrive'[d], n)) <= Writes(n)'
  <2>1. /\ executed[n] + Cardinality(Unexecuted(toDrive[d], n)) <= Writes(n)
        /\ executed[n] \in Nat /\ Writes(n) \in Int
    BY WritesType DEF RetryBudget, TypeInv, TypeOK
  <2>2. Cardinality(Unexecuted(toDrive[d], n)) \in Nat
    BY UnexecutedFinite DEF TypeInv
  <2>3. CASE n # number
    BY <1>2, <1>3, <1>5, <2>1, <2>3
  <2>4. CASE n = number
    <3>1. Writes(n)' = Writes(n) + 1 /\ executed' = executed
      BY <1>2, <1>3, <2>4
    <3>2. toDrive'[d] \in Seq(GoodMessages)
      BY <1>1, <1>2, AppendProperties DEF TypeInv, q
    <3>3. Cardinality(Unexecuted(toDrive'[d], n)) \in Nat
      BY <3>2, UnexecutedFinite
    <3>4. Cardinality(Unexecuted(toDrive'[d], n)) <= Cardinality(Unexecuted(toDrive[d], n)) + 1
      BY <1>2, <1>4, <2>2, <3>3 DEF q
    <3> QED BY <2>1, <2>2, <3>1, <3>3, <3>4
  <2> QED BY <2>3, <2>4
<1> QED BY <1>2, <1>5, <1>6, <1>7 DEF RetryBudget

\* A drive has dealt with the message at the head of its queue.
LEMMA DriveKeepsBudget ==
  ASSUME TypeInv, RetryBudget, NEW d \in Drives, toDrive[d] # <<>>,
         NEW t \in Seq(GoodMessages), toDrive' = [toDrive EXCEPT ![d] = t],
         \/ t = Tail(toDrive[d])
         \/ \E m \in GoodMessages : m.acked /\ t = <<m>> \o Tail(toDrive[d]),
         \/ UNCHANGED executed
         \/ /\ ~Head(toDrive[d]).acked
            /\ executed' = [executed EXCEPT ![Head(toDrive[d]).number] = @ + 1],
         UNCHANGED <<pc, tries, request, number>>
  PROVE  RetryBudget'
<1> DEFINE h == Head(toDrive[d])
<1>1. toDrive[d] \in Seq(GoodMessages) /\ h.number \in Numbers
  BY HeadTailProperties DEF TypeInv, GoodMessages, Messages
<1>2. \A n \in Numbers :
        /\ Cardinality(Unexecuted(t, n)) <= Cardinality(Unexecuted(toDrive[d], n))
        /\ Unexecuted(t, n) # {} => Unexecuted(toDrive[d], n) # {}
        /\ ~h.acked /\ n = h.number =>
             /\ Cardinality(Unexecuted(t, n)) + 1 <= Cardinality(Unexecuted(toDrive[d], n))
             /\ Unexecuted(toDrive[d], n) # {}
  BY <1>1, HeadUnexecuted
<1> HIDE DEF h
<1>3. /\ \A x \in Drives : toDrive'[x] = IF x = d THEN t ELSE toDrive[x]
      /\ \A n \in Numbers : Writes(n)' = Writes(n)
  BY DEF TypeInv, Writes, Written
<1>4. \A x \in Drives, n \in Numbers :
        Unexecuted(toDrive'[x], n) # {} => Unexecuted(toDrive[x], n) # {}
  BY <1>2, <1>3
<1>5. ASSUME NEW n \in Numbers, NEW x \in Drives
      PROVE  executed'[n] + Cardinality(Unexecuted(toDrive'[x], n)) <= Writes(n)
  <2>1. /\ executed[n] + Cardinality(Unexecuted(toDrive[x], n)) <= Writes(n)
        /\ executed[n] + Cardinality(Unexecuted(toDrive[d], n)) <= Writes(n)
        /\ executed[n] \in Nat /\ Writes(n) \in Int
    BY WritesType DEF RetryBudget, TypeInv, TypeOK
  <2>2. /\ Cardinality(Unexecuted(toDrive[x], n)) \in Nat
        /\ Cardinality(Unexecuted(toDrive[d], n)) \in Nat
        /\ Cardinality(Unexecuted(t, n)) \in Nat
    BY UnexecutedFinite DEF TypeInv
  <2>3. CASE executed'[n] = executed[n]
    BY <1>2, <1>3, <2>1, <2>2, <2>3
  <2>4. CASE executed'[n] # executed[n]
    <3>1. ~h.acked /\ n = h.number /\ executed'[n] = executed[n] + 1
      BY <1>1, <2>4 DEF h, TypeInv, TypeOK
    <3>2. CASE x = d
      <4>1. Cardinality(Unexecuted(t, n)) + 1 <= Cardinality(Unexecuted(toDrive[d], n))
        BY <1>2, <3>1
      <4>2. toDrive'[x] = t
        BY <1>3, <3>2
      <4> QED BY <2>1, <2>2, <3>1, <4>1, <4>2
    <3>3. CASE x # d
      <4>1. Unexecuted(toDrive[d], n) # {}
        BY <1>2, <3>1
      <4>2. Unexecuted(toDrive[x], n) = {} /\ Cardinality(Unexecuted(toDrive[d], n)) # 0
        BY <1>1, <3>3, <4>1, UnexecutedFinite DEF RetryBudget
      <4>3. Cardinality(Unexecuted(toDrive'[x], n)) = 0
        BY <1>3, <3>3, <4>2, FS_EmptySet
      <4> QED BY <2>1, <2>2, <3>1, <4>2, <4>3
    <3> QED BY <3>2, <3>3
  <2> QED BY <2>3, <2>4
<1>6. \A n \in Numbers, x, y \in Drives :
        Unexecuted(toDrive'[x], n) # {} /\ Unexecuted(toDrive'[y], n) # {} => x = y
  BY <1>4 DEF RetryBudget
<1>7. \A x \in Drives : Unexecuted(toDrive'[x], number') # {} => x = request'.axis
  BY <1>4, WritesType DEF RetryBudget
<1>8. \A n \in Numbers, x \in Drives :
        executed'[n] + Cardinality(Unexecuted(toDrive'[x], n)) <= Writes(n)'
  BY <1>3, <1>5
<1> QED BY <1>6, <1>7, <1>8 DEF RetryBudget

LEMMA StepKeepsBudget ==
  ASSUME TypeInv, RetryBudget, [Next]_vars
  PROVE  RetryBudget'
<1>1. ASSUME NEW r \in Requests, Send(r)
      PROVE  RetryBudget'
  BY <1>1, SendKeepsBudget
<1>2. CASE Write
  BY <1>2, WriteKeepsBudget
<1>3. CASE WriteFails \/ ReadStep \/ Retry \/ GiveUp \/ ResponseTimeout
           \/ Notify \/ Arrive \/ LoseToHost \/ UNCHANGED vars
  <2>1. UNCHANGED <<request, number, executed, toDrive>>
    BY <1>3
    DEF WriteFails, ReadStep, TakeAck, SkipJunk, TakeAckInFrame, SkipPadding, Misframe, TakeFrame,
        Retry, GiveUp, ResponseTimeout, Notify, Arrive, LoseToHost, hostVars, vars
  <2>2. Written' \in Int /\ Written <= Written'
    BY <1>3, WritesType
    DEF WriteFails, ReadStep, TakeAck, SkipJunk, TakeAckInFrame, SkipPadding, Misframe, TakeFrame,
        Retry, GiveUp, ResponseTimeout, Notify, Arrive, LoseToHost, hostVars, vars,
        Acknowledged, Return, SendResult, TriesLeft, Written
  <2>3. \A n \in Numbers : Writes(n) <= Writes(n)' /\ Writes(n) \in Int /\ Writes(n)' \in Int
    BY <2>1, <2>2, WritesType DEF Writes
  <2> QED BY <2>1, <2>3, HostKeepsBudget
<1>4. ASSUME NEW d \in Drives, Execute(d)
      PROVE  RetryBudget'
  <2> DEFINE m == Head(toDrive[d])
             marked == [m EXCEPT !.acked = TRUE]
             rest == IF m.request.kind = "command" THEN <<>> ELSE <<marked>>
             left == rest \o Tail(toDrive[d])
  <2>1. /\ toDrive[d] # <<>> /\ ~m.acked /\ toDrive' = [toDrive EXCEPT ![d] = left]
        /\ executed' = [executed EXCEPT ![m.number] = @ + 1]
        /\ UNCHANGED <<pc, tries, request, number>>
    BY <1>4 DEF Execute, hostVars
  <2>2. m \in GoodMessages /\ Tail(toDrive[d]) \in Seq(GoodMessages)
    BY <2>1, QueueType
  <2>3. /\ left \in Seq(GoodMessages)
        /\ \/ left = Tail(toDrive[d])
           \/ \E a \in GoodMessages : a.acked /\ left = <<a>> \o Tail(toDrive[d])
    <3>1. CASE m.request.kind = "command"
      <4>1. left = Tail(toDrive[d])
        BY <2>2, <3>1, ConcatEmptySeq
      <4> HIDE DEF left
      <4> QED BY <2>2, <4>1
    <3>2. CASE m.request.kind # "command"
      <4>1. marked \in GoodMessages /\ marked.acked
        BY <2>2, <3>2 DEF GoodMessages, Messages
      <4>2. left = <<marked>> \o Tail(toDrive[d])
        BY <3>2
      <4>3. <<marked>> \o Tail(toDrive[d]) \in Seq(GoodMessages)
        BY <2>2, <4>1, ConcatProperties
      <4> HIDE DEF left, marked
      <4> QED BY <4>1, <4>2, <4>3
    <3> QED BY <3>1, <3>2
  <2> HIDE DEF left
  <2> QED BY <2>1, <2>3, DriveKeepsBudget
<1>5. ASSUME NEW d \in Drives, Answer(d) \/ LoseToDrive(d)
      PROVE  RetryBudget'
  <2>1. /\ toDrive[d] # <<>> /\ toDrive' = [toDrive EXCEPT ![d] = Tail(toDrive[d])]
        /\ UNCHANGED <<pc, tries, request, number, executed>>
    BY <1>5 DEF Answer, LoseToDrive, hostVars
  <2>2. Tail(toDrive[d]) \in Seq(GoodMessages)
    BY <2>1, QueueType
  <2> QED BY <2>1, <2>2, DriveKeepsBudget
<1> QED BY <1>1, <1>2, <1>3, <1>4, <1>5 DEF Next, HostStep, LineStep

LEMMA BudgetInvariance == Spec => [](TypeInv /\ RetryBudget)
<1>1. TypeInv /\ RetryBudget /\ [Next]_vars => RetryBudget'
  BY StepKeepsBudget
<1> QED BY <1>1, InitBudget, TypeInvariance, PTL DEF Spec

\* The one retry makes a drive execute a message at most twice, whatever is still
\* under way when the next one is written.
THEOREM TwiceAtMost == Spec => []AtMostTwice
<1>1. TypeInv /\ RetryBudget => AtMostTwice
  BY ExecutedInBudget, WritesType DEF AtMostTwice
<1> QED BY <1>1, BudgetInvariance, PTL

-----------------------------------------------------------------------------
(* Any line: where answers come from                                        *)

\* What can be taken for an answer, a drive has sent for a message it executed.
Genuine == {i \in Items : i.type \in {"read16", "read32"} => executed[i.number] > 0}
GenuineMessages == {m \in GoodMessages : m.acked => executed[m.number] > 0}

LineIsGenuine ==
  /\ rx \in Seq(Genuine) /\ toHost \in Seq(Genuine)
  /\ toDrive \in [Drives -> Seq(GenuineMessages)]
  /\ AnswerIsADrives

\* What is genuine stays so.
LEMMA GenuineGrows ==
  ASSUME \A n \in Numbers : executed[n] > 0 => executed'[n] > 0
  PROVE  Genuine \subseteq Genuine' /\ GenuineMessages \subseteq GenuineMessages'
  BY DEF Genuine, GenuineMessages, Items, GoodMessages, Messages

LEMMA InitGenuine == Init => LineIsGenuine
<1> SUFFICES ASSUME Init
             PROVE  LineIsGenuine
  OBVIOUS
<1>1. rx = <<>> /\ toHost = <<>> /\ toDrive = [d \in Drives |-> <<>>]
  BY DEF Init
<1>2. AnswerIsADrives
  BY DEF Init, AnswerIsADrives
<1> QED BY <1>1, <1>2 DEF LineIsGenuine

LEMMA HostKeepsGenuine ==
  ASSUME TypeInv, LineIsGenuine, HostStep
  PROVE  LineIsGenuine'
<1>1. UNCHANGED <<executed, toHost>>
  BY DEF HostStep, Send, Write, WriteFails, ReadStep, TakeAck, SkipJunk, TakeAckInFrame,
         SkipPadding, Misframe, TakeFrame, Retry, GiveUp, ResponseTimeout
<1>2. Genuine' = Genuine /\ GenuineMessages' = GenuineMessages
  BY <1>1 DEF Genuine, GenuineMessages
<1>3. CASE ReadStep
  <2>1. rx # <<>> /\ UNCHANGED <<toDrive, request>>
    BY <1>3 DEF ReadStep, TakeAck, SkipJunk, TakeAckInFrame, SkipPadding, Misframe, TakeFrame
  <2>2. Head(rx) \in Genuine /\ Tail(rx) \in Seq(Genuine)
    BY <2>1, HeadTailProperties DEF LineIsGenuine
  <2>3. rx' \in Seq(Genuine)
    <3>1. CASE TakeAck \/ SkipJunk \/ SkipPadding \/ TakeFrame
      BY <2>2, <3>1 DEF TakeAck, SkipJunk, SkipPadding, TakeFrame
    <3>2. CASE TakeAckInFrame
      <4>1. [Head(rx) EXCEPT !.type = "fragment"] \in Genuine
        BY <2>2 DEF Genuine, Items
      <4>2. <<[Head(rx) EXCEPT !.type = "fragment"]>> \o Tail(rx) \in Seq(Genuine)
        BY <2>2, <4>1, ConcatProperties
      <4> QED BY <3>2, <4>2 DEF TakeAckInFrame
    <3>3. CASE Misframe
      <4>1. PICK k \in 1..Len(rx) : rx' = SubSeq(rx, k + 1, Len(rx))
        BY <3>3 DEF Misframe
      <4>2. rx \in Seq(Genuine) /\ k + 1 \in Int /\ Len(rx) \in Int
        BY LenProperties DEF LineIsGenuine
      <4>3. \A i \in (k + 1) .. Len(rx) : rx[i] \in Genuine
        BY <4>2, ElementOfSeq
      <4> QED BY <4>1, <4>2, <4>3, SubSeqProperties
    <3> QED BY <1>3, <3>1, <3>2, <3>3 DEF ReadStep
  <2>4. AnswerIsADrives'
    <3>1. CASE TakeFrame
      <4>1. request.kind # "command" =>
              request.kind \in {"read16", "read32"}
        BY DEF TypeInv, TypeOK, Requests, Kinds
      <4>2. request.kind # "command" /\ Head(rx).type = request.kind =>
              executed[Head(rx).number] > 0
        BY <2>2, <4>1 DEF Genuine
      <4> QED BY <1>1, <2>1, <3>1, <4>2 DEF TakeFrame, Return, AnswerTaken, AnswerIsADrives
    <3>2. CASE TakeAck \/ TakeAckInFrame
      BY <2>1, <3>2 DEF TakeAck, TakeAckInFrame, Acknowledged, Return, AnswerIsADrives
    <3>3. CASE SkipJunk \/ SkipPadding \/ Misframe
      BY <3>3 DEF SkipJunk, SkipPadding, Misframe, Return, AnswerIsADrives
    <3> QED BY <1>3, <3>1, <3>2, <3>3 DEF ReadStep
  <2> QED BY <1>1, <1>2, <2>1, <2>3, <2>4 DEF LineIsGenuine
<1>4. CASE Write
  <2>1. request.axis \in Drives /\ Message(request, number) \in GenuineMessages
    BY MessageType DEF TypeInv, TypeOK, Requests, GenuineMessages, Message
  <2>2. Append(toDrive[request.axis], Message(request, number)) \in Seq(GenuineMessages)
    BY <2>1, AppendProperties DEF LineIsGenuine
  <2>3. toDrive' \in [Drives -> Seq(GenuineMessages)]
    BY <1>4, <2>1, <2>2 DEF Write, LineIsGenuine
  <2>4. rx' = rx /\ AnswerIsADrives'
    BY <1>4 DEF Write, AnswerIsADrives
  <2> QED BY <1>1, <1>2, <2>3, <2>4 DEF LineIsGenuine
<1>5. CASE WriteFails \/ Retry \/ GiveUp \/ ResponseTimeout \/ \E r \in Requests : Send(r)
  <2>1. toDrive' = toDrive /\ (rx' = rx \/ rx' = <<>>)
    BY <1>5 DEF WriteFails, Retry, GiveUp, ResponseTimeout, Send, Drained
  <2>2. <<>> \in Seq(Genuine)
    BY EmptySeq
  <2>3. AnswerIsADrives'
    BY <1>5
    DEF WriteFails, Retry, GiveUp, ResponseTimeout, Send, SendResult, Return, AnswerIsADrives
  <2> QED BY <1>1, <1>2, <2>1, <2>2, <2>3 DEF LineIsGenuine
<1> QED BY <1>3, <1>4, <1>5 DEF HostStep

LEMMA LineKeepsGenuine ==
  ASSUME TypeInv, LineIsGenuine, LineStep
  PROVE  LineIsGenuine'
<1>1. ASSUME NEW d \in Drives, Execute(d)
      PROVE  LineIsGenuine'
  <2> DEFINE m == Head(toDrive[d])
             marked == [m EXCEPT !.acked = TRUE]
             rest == IF m.request.kind = "command" THEN <<>> ELSE <<marked>>
  <2>1. /\ UNCHANGED <<pc, request, outcome, value, rx>>
        /\ executed' = [executed EXCEPT ![m.number] = @ + 1]
        /\ toHost' = Append(toHost, Item("ack", m.request, m.number))
        /\ toDrive' = [toDrive EXCEPT ![d] = rest \o Tail(toDrive[d])]
        /\ toDrive[d] # <<>>
    BY <1>1 DEF Execute, hostVars
  <2>2. m \in GenuineMessages /\ Tail(toDrive[d]) \in Seq(GenuineMessages)
    BY <2>1, HeadTailProperties DEF LineIsGenuine
  <2>3. m \in GoodMessages /\ m.request \in Requests /\ m.number \in Numbers
    BY <2>2 DEF GenuineMessages, GoodMessages, Messages
  <2>4. (\A n \in Numbers : executed[n] > 0 => executed'[n] > 0) /\ executed'[m.number] > 0
    BY <2>1, <2>3 DEF TypeInv, TypeOK
  <2>5. Genuine \subseteq Genuine' /\ GenuineMessages \subseteq GenuineMessages'
    BY <2>4, GenuineGrows
  <2>6. Item("ack", m.request, m.number) \in Genuine'
    <3>1. Item("ack", m.request, m.number) \in Items
      BY <2>3, ItemType
    <3> QED BY <3>1 DEF Genuine, Item
  <2>7. rx' \in Seq(Genuine') /\ toHost' \in Seq(Genuine')
    <3>1. rx \in Seq(Genuine') /\ toHost \in Seq(Genuine')
      BY <2>5, SeqMonotonic DEF LineIsGenuine
    <3> QED BY <2>1, <2>6, <3>1, AppendProperties
  <2>8. rest \o Tail(toDrive[d]) \in Seq(GenuineMessages')
    <3>1. rest \in Seq(GenuineMessages')
      <4>1. m.request.kind # "command" => marked \in GenuineMessages'
        BY <2>3, <2>4 DEF GenuineMessages, GoodMessages, Messages
      <4> QED BY <4>1
    <3>2. Tail(toDrive[d]) \in Seq(GenuineMessages')
      BY <2>2, <2>5, SeqMonotonic
    <3> QED BY <3>1, <3>2, ConcatProperties
  <2>9. toDrive' \in [Drives -> Seq(GenuineMessages')]
    <3>1. \A x \in Drives : toDrive[x] \in Seq(GenuineMessages')
      BY <2>5, SeqMonotonic DEF LineIsGenuine
    <3> HIDE DEF rest
    <3> QED BY <2>1, <2>8, <3>1 DEF LineIsGenuine
  <2>10. AnswerIsADrives'
    <3>1. value.number \in Numbers
      BY DEF TypeInv, TypeOK, Items
    <3> QED BY <2>1, <2>4, <3>1 DEF LineIsGenuine, AnswerIsADrives
  <2> QED BY <2>7, <2>9, <2>10 DEF LineIsGenuine
<1>2. ASSUME NEW d \in Drives, Answer(d) \/ LoseToDrive(d)
      PROVE  LineIsGenuine'
  <2> DEFINE m == Head(toDrive[d])
             answer == Item(m.request.kind, m.request, m.number)
  <2>1. /\ UNCHANGED <<pc, request, outcome, value, rx, executed>>
        /\ toDrive[d] # <<>> /\ toDrive' = [toDrive EXCEPT ![d] = Tail(toDrive[d])]
    BY <1>2 DEF Answer, LoseToDrive, hostVars
  <2>2. m \in GenuineMessages /\ Tail(toDrive[d]) \in Seq(GenuineMessages)
    BY <2>1, HeadTailProperties DEF LineIsGenuine
  <2>3. Genuine' = Genuine /\ GenuineMessages' = GenuineMessages
    BY <2>1 DEF Genuine, GenuineMessages
  <2>4. toHost' \in Seq(Genuine)
    <3>1. CASE Answer(d)
      <4>1. /\ m.request \in Requests /\ m.number \in Numbers /\ executed[m.number] > 0
            /\ m.request.kind \in {"read16", "read32"}
        BY <2>2, <3>1 DEF Answer, GenuineMessages, GoodMessages, Messages, Requests, Kinds
      <4>2. answer \in Genuine
        <5>1. answer \in Items
          BY <4>1, ItemType
        <5> QED BY <4>1, <5>1 DEF Genuine, Item
      <4> HIDE DEF answer
      <4> QED BY <3>1, <4>2, AppendProperties DEF Answer, LineIsGenuine, answer
    <3>2. CASE LoseToDrive(d)
      BY <3>2 DEF LoseToDrive, LineIsGenuine
    <3> QED BY <1>2, <3>1, <3>2
  <2>5. toDrive' \in [Drives -> Seq(GenuineMessages)]
    BY <2>1, <2>2 DEF LineIsGenuine
  <2>6. AnswerIsADrives'
    BY <2>1 DEF LineIsGenuine, AnswerIsADrives
  <2> QED BY <2>1, <2>3, <2>4, <2>5, <2>6 DEF LineIsGenuine
<1>3. CASE Notify \/ Arrive \/ LoseToHost
  <2>1. UNCHANGED <<pc, request, outcome, value, toDrive, executed>>
    BY <1>3 DEF Notify, Arrive, LoseToHost, hostVars
  <2>2. Genuine' = Genuine /\ GenuineMessages' = GenuineMessages
    BY <2>1 DEF Genuine, GenuineMessages
  <2>3. rx \in Seq(Genuine) /\ toHost \in Seq(Genuine)
    BY DEF LineIsGenuine
  <2>4. toHost # <<>> => Head(toHost) \in Genuine /\ Tail(toHost) \in Seq(Genuine)
    BY <2>3, HeadTailProperties
  <2>5. rx' \in Seq(Genuine) /\ toHost' \in Seq(Genuine)
    <3>1. CASE Notify
      <4>1. Item("notice", request, 0) \in Items
        BY ItemType, ChannelAssumption DEF TypeInv, TypeOK, Numbers
      <4>2. Item("notice", request, 0) \in Genuine
        BY <4>1 DEF Genuine, Item
      <4> QED BY <2>3, <3>1, <4>2 DEF Notify
    <3>2. CASE Arrive
      BY <2>3, <2>4, <3>2, AppendProperties DEF Arrive
    <3>3. CASE LoseToHost
      BY <2>3, <2>4, <3>3 DEF LoseToHost
    <3> QED BY <1>3, <3>1, <3>2, <3>3
  <2>6. AnswerIsADrives'
    BY <2>1 DEF LineIsGenuine, AnswerIsADrives
  <2> QED BY <2>1, <2>2, <2>5, <2>6 DEF LineIsGenuine
<1> QED BY <1>1, <1>2, <1>3 DEF LineStep

\* However late the answers on the line, a successful read returns what some drive has
\* answered to a read of that width.
THEOREM AnswersAreADrives == Spec => []AnswerIsADrives
<1>1. TypeInv /\ LineIsGenuine /\ [Next]_vars => LineIsGenuine'
  <2> SUFFICES ASSUME TypeInv, LineIsGenuine, [Next]_vars
               PROVE  LineIsGenuine'
    OBVIOUS
  <2>1. CASE UNCHANGED vars
    <3>1. Genuine' = Genuine /\ GenuineMessages' = GenuineMessages
      BY <2>1 DEF vars, Genuine, GenuineMessages
    <3> QED BY <2>1, <3>1 DEF vars, LineIsGenuine, AnswerIsADrives
  <2> QED BY <2>1, HostKeepsGenuine, LineKeepsGenuine DEF Next
<1>2. LineIsGenuine => AnswerIsADrives
  BY DEF LineIsGenuine
<1> QED BY <1>1, <1>2, InitGenuine, TypeInvariance, PTL DEF Spec

-----------------------------------------------------------------------------
(* A quiet line at each write: everything on the line and in the buffer     *)
(* belongs to the last request                                              *)

\* What a drive sends because of the last request, or by itself.
CurrentItems ==
  {i \in Items :
    \/ i.type = "notice"
    \/ /\ executed[number] > 0
       /\ i.number = number /\ i.axis = request.axis /\ i.register = request.register}

CurrentMessages ==
  {m \in GoodMessages :
    /\ number > 0 /\ m.number = number /\ m.request = request
    /\ m.acked => executed[number] > 0}

LineIsCurrent ==
  /\ rx \in Seq(CurrentItems) /\ toHost \in Seq(CurrentItems)
  /\ toDrive \in [Drives -> Seq(CurrentMessages)]
  /\ \A d \in Drives : d # request.axis => toDrive[d] = <<>>

PlaceTells ==
  /\ pc # "idle" => number > 0
  /\ pc = "response" => executed[number] > 0 /\ request.kind # "command"
  /\ pc = "idle" /\ outcome = "ok" => executed[number] > 0
  /\ pc = "idle" /\ outcome = "ok" /\ request.kind # "command" =>
       value.axis = request.axis /\ value.register = request.register /\ value.number = number

IndInv ==
  /\ TypeInv
  /\ LineIsCurrent
  /\ PlaceTells

-----------------------------------------------------------------------------
(* The steps *)

LEMMA InitQuiet == Init => IndInv
<1> SUFFICES ASSUME Init PROVE IndInv
  OBVIOUS
<1>1. TypeInv
  BY TypeInit
<1>2. rx = <<>> /\ toHost = <<>> /\ toDrive = [d \in Drives |-> <<>>]
  BY DEF Init
<1>3. LineIsCurrent
  BY <1>2 DEF LineIsCurrent
<1>4. PlaceTells
  BY DEF Init, PlaceTells
<1> QED BY <1>1, <1>3, <1>4 DEF IndInv

\* What belonged to the request still does after the drive has executed it.
LEMMA CurrentGrows ==
  ASSUME UNCHANGED <<request, number>>, executed[number] > 0 => executed'[number] > 0
  PROVE  CurrentItems \subseteq CurrentItems' /\ CurrentMessages \subseteq CurrentMessages'
  BY DEF CurrentItems, CurrentMessages

LEMMA HostKeepsLine ==
  ASSUME LineIsCurrent, UNCHANGED <<request, number, executed, toDrive, toHost>>,
         rx' \in Seq(CurrentItems)
  PROVE  LineIsCurrent'
<1>1. CurrentItems' = CurrentItems /\ CurrentMessages' = CurrentMessages
  BY DEF CurrentItems, CurrentMessages
<1> QED BY <1>1 DEF LineIsCurrent

LEMMA SendKeeps ==
  ASSUME ~Overlap, IndInv, NEW r \in Requests, Send(r)
  PROVE  LineIsCurrent' /\ PlaceTells'
<1>1. /\ toHost' = <<>> /\ rx' = <<>> /\ toDrive' = toDrive
      /\ toDrive \in [Drives -> Seq(GoodMessages)]
      /\ \A d \in Drives : toDrive[d] = <<>>
  BY DEF Send, LineQuiet, Drained, IndInv, TypeInv
<1>2. number' = number + 1 /\ number \in Nat /\ number' \in Numbers /\ request' = r
  BY ChannelAssumption DEF Send, IndInv, TypeInv, TypeOK, Numbers
<1>3. LineIsCurrent'
  <2>1. toDrive \in [Drives -> Seq(CurrentMessages')]
    BY <1>1
  <2> QED BY <1>1, <2>1 DEF LineIsCurrent
<1>4. PlaceTells'
  BY <1>2 DEF Send, PlaceTells
<1> QED BY <1>3, <1>4

LEMMA WriteKeeps ==
  ASSUME IndInv, Write
  PROVE  LineIsCurrent' /\ PlaceTells'
<1> DEFINE q == toDrive[request.axis]
           m == Message(request, number)
<1>1. m \in GoodMessages /\ m.number = number /\ m.request = request /\ ~m.acked
  BY MessageType DEF IndInv, TypeInv, TypeOK, Message
<1>2. number > 0
  BY DEF Write, IndInv, PlaceTells
<1>3. m \in CurrentMessages
  BY <1>1, <1>2 DEF CurrentMessages
<1>4. request.axis \in Drives
  BY DEF IndInv, TypeInv, TypeOK, Requests
<1>5. /\ UNCHANGED <<request, number, executed, rx, toHost>>
      /\ toDrive' = [toDrive EXCEPT ![request.axis] = Append(q, m)]
  BY DEF Write
<1>6. LineIsCurrent'
  <2>1. CurrentItems' = CurrentItems /\ CurrentMessages' = CurrentMessages
    BY <1>5 DEF CurrentItems, CurrentMessages
  <2>2. Append(q, m) \in Seq(CurrentMessages)
    BY <1>3, <1>4, AppendProperties DEF IndInv, LineIsCurrent
  <2> HIDE DEF q, m
  <2> QED BY <1>4, <1>5, <2>1, <2>2 DEF IndInv, LineIsCurrent
<1>7. PlaceTells'
  BY <1>2 DEF Write, PlaceTells
<1> QED BY <1>6, <1>7

\* An operation that returns without success, or a retry.
LEMMA GiveUpKeeps ==
  ASSUME IndInv, WriteFails \/ GiveUp \/ ResponseTimeout \/ Retry
  PROVE  LineIsCurrent' /\ PlaceTells'
<1>1. UNCHANGED <<request, number, executed, toDrive, toHost>>
  BY DEF WriteFails, GiveUp, ResponseTimeout, Retry
<1>2. rx' \in Seq(CurrentItems)
  <2>1. rx' = rx \/ rx' = <<>>
    BY DEF WriteFails, GiveUp, ResponseTimeout, Retry, Drained
  <2>2. rx \in Seq(CurrentItems) /\ <<>> \in Seq(CurrentItems)
    BY DEF IndInv, LineIsCurrent
  <2> QED BY <2>1, <2>2
<1>3. LineIsCurrent'
  BY <1>1, <1>2, HostKeepsLine DEF IndInv
<1>4. PlaceTells'
  BY DEF WriteFails, GiveUp, ResponseTimeout, Retry, SendResult, Return, IndInv, PlaceTells
<1> QED BY <1>3, <1>4

\* Whatever the host takes from its buffer belongs to the request.
LEMMA ReadKeeps ==
  ASSUME IndInv, ReadStep
  PROVE  LineIsCurrent' /\ PlaceTells'
<1>1. UNCHANGED <<request, number, tries, executed, toDrive, toHost>> /\ rx # <<>>
  BY DEF ReadStep, TakeAck, SkipJunk, TakeAckInFrame, SkipPadding, Misframe, TakeFrame
<1>2. rx \in Seq(CurrentItems)
  BY DEF IndInv, LineIsCurrent
<1>3. Head(rx) \in CurrentItems /\ Tail(rx) \in Seq(CurrentItems)
  BY <1>1, <1>2, HeadTailProperties
<1>4. rx' \in Seq(CurrentItems)
  <2>1. CASE TakeAck \/ SkipJunk \/ SkipPadding \/ TakeFrame
    BY <1>3, <2>1 DEF TakeAck, SkipJunk, SkipPadding, TakeFrame
  <2>2. CASE TakeAckInFrame
    <3>1. [Head(rx) EXCEPT !.type = "fragment"] \in CurrentItems
      BY <1>3, <2>2 DEF TakeAckInFrame, CurrentItems, Items
    <3>2. <<[Head(rx) EXCEPT !.type = "fragment"]>> \o Tail(rx) \in Seq(CurrentItems)
      BY <1>3, <3>1, ConcatProperties
    <3> QED BY <2>2, <3>2 DEF TakeAckInFrame
  <2>3. CASE Misframe
    <3>1. PICK k \in 1..Len(rx) : rx' = SubSeq(rx, k + 1, Len(rx))
      BY <2>3 DEF Misframe
    <3>2. k + 1 \in Int /\ Len(rx) \in Int
      BY <1>2, LenProperties
    <3>3. \A i \in (k + 1) .. Len(rx) : rx[i] \in CurrentItems
      BY <1>2, <3>2, ElementOfSeq
    <3> QED BY <3>1, <3>2, <3>3, SubSeqProperties
  <2> QED BY <2>1, <2>2, <2>3 DEF ReadStep
<1>5. LineIsCurrent'
  BY <1>1, <1>4, HostKeepsLine DEF IndInv
<1>6. PlaceTells'
  <2>1. CASE TakeAck \/ TakeAckInFrame
    <3>1. executed[number] > 0
      BY <1>3, <2>1 DEF TakeAck, TakeAckInFrame, CurrentItems
    <3> QED BY <2>1, <3>1
            DEF TakeAck, TakeAckInFrame, Acknowledged, Return, IndInv, PlaceTells
  <2>2. CASE SkipJunk \/ SkipPadding \/ Misframe
    BY <2>2 DEF SkipJunk, SkipPadding, Misframe, Return, IndInv, PlaceTells
  <2>3. CASE TakeFrame
    <3>1. Head(rx).type = request.kind =>
            /\ Head(rx).axis = request.axis /\ Head(rx).register = request.register
            /\ Head(rx).number = number
      BY <1>3 DEF CurrentItems, IndInv, TypeInv, TypeOK, Requests, Kinds
    <3> QED BY <2>3, <3>1 DEF TakeFrame, AnswerTaken, Return, IndInv, PlaceTells
  <2> QED BY <2>1, <2>2, <2>3 DEF ReadStep
<1> QED BY <1>5, <1>6

\* Only the drive addressed has anything to do.
LEMMA QueueIsCurrent ==
  ASSUME IndInv, NEW d \in Drives, toDrive[d] # <<>>
  PROVE  /\ d = request.axis /\ number \in Numbers /\ number > 0
         /\ Head(toDrive[d]) \in CurrentMessages
         /\ Tail(toDrive[d]) \in Seq(CurrentMessages)
<1>1. d = request.axis /\ toDrive[d] \in Seq(CurrentMessages)
  BY DEF IndInv, LineIsCurrent
<1>2. Head(toDrive[d]) \in CurrentMessages /\ Tail(toDrive[d]) \in Seq(CurrentMessages)
  BY <1>1, HeadTailProperties
<1> QED BY <1>1, <1>2 DEF CurrentMessages, IndInv, TypeInv, TypeOK

LEMMA ExecuteKeeps ==
  ASSUME IndInv, NEW d \in Drives, Execute(d)
  PROVE  LineIsCurrent' /\ PlaceTells'
<1> DEFINE m == Head(toDrive[d])
           ack == Item("ack", m.request, m.number)
           marked == [m EXCEPT !.acked = TRUE]
           rest == IF m.request.kind = "command" THEN <<>> ELSE <<marked>>
<1>1. /\ toDrive[d] # <<>> /\ d = request.axis /\ number \in Numbers /\ number > 0
      /\ m \in CurrentMessages /\ Tail(toDrive[d]) \in Seq(CurrentMessages)
  BY QueueIsCurrent DEF Execute
<1>2. m.number = number /\ m.request = request
  BY <1>1 DEF CurrentMessages
<1>3. /\ UNCHANGED <<pc, request, number, tries, outcome, value, rx>>
      /\ executed' = [executed EXCEPT ![number] = @ + 1]
      /\ toHost' = Append(toHost, ack)
      /\ toDrive' = [toDrive EXCEPT ![d] = rest \o Tail(toDrive[d])]
  BY <1>2 DEF Execute, hostVars
<1>4. executed[number] \in Nat /\ executed'[number'] = executed[number] + 1
  BY <1>1, <1>3 DEF IndInv, TypeInv, TypeOK
<1>5. CurrentItems \subseteq CurrentItems' /\ CurrentMessages \subseteq CurrentMessages'
  BY <1>3, <1>4, CurrentGrows
<1>6. rest \o Tail(toDrive[d]) \in Seq(CurrentMessages')
  <2>1. rest \in Seq(CurrentMessages')
    <3>1. m.request.kind # "command" => marked \in CurrentMessages'
      <4>1. UNCHANGED <<request, number>> /\ executed'[number'] > 0
        BY <1>3, <1>4
      <4> QED BY <1>1, <4>1 DEF CurrentMessages, GoodMessages, Messages
    <3> QED BY <3>1
  <2>2. Tail(toDrive[d]) \in Seq(CurrentMessages')
    BY <1>1, <1>5, SeqMonotonic
  <2> QED BY <2>1, <2>2, ConcatProperties
<1>7. LineIsCurrent'
  <2>1. ack \in CurrentItems'
    <3>1. ack \in Items
      BY <1>1, <1>2, ItemType DEF IndInv, TypeInv, TypeOK
    <3> QED BY <1>2, <1>3, <1>4, <3>1 DEF CurrentItems, Item
  <2>2. rx' \in Seq(CurrentItems') /\ toHost \in Seq(CurrentItems')
    BY <1>3, <1>5, SeqMonotonic DEF IndInv, LineIsCurrent
  <2>3. toHost' \in Seq(CurrentItems')
    BY <1>3, <2>1, <2>2, AppendProperties
  <2>4. \A x \in Drives : toDrive[x] \in Seq(CurrentMessages')
    BY <1>5, SeqMonotonic DEF IndInv, LineIsCurrent
  <2> HIDE DEF rest
  <2>5. toDrive' \in [Drives -> Seq(CurrentMessages')]
    BY <1>3, <1>6, <2>4 DEF IndInv, TypeInv
  <2>6. \A x \in Drives : x # request'.axis => toDrive'[x] = <<>>
    BY <1>1, <1>3 DEF IndInv, TypeInv, LineIsCurrent
  <2> QED BY <2>2, <2>3, <2>5, <2>6 DEF LineIsCurrent
<1>8. PlaceTells'
  BY <1>3, <1>4 DEF IndInv, PlaceTells
<1> QED BY <1>7, <1>8

\* A drive answers, or the message at the head of its queue is lost.
LEMMA AnswerOrLossKeeps ==
  ASSUME IndInv, NEW d \in Drives, Answer(d) \/ LoseToDrive(d)
  PROVE  LineIsCurrent' /\ PlaceTells'
<1> DEFINE m == Head(toDrive[d])
           answer == Item(m.request.kind, m.request, m.number)
<1>1. /\ toDrive[d] # <<>> /\ toDrive' = [toDrive EXCEPT ![d] = Tail(toDrive[d])]
      /\ UNCHANGED <<pc, request, number, tries, outcome, value, rx, executed>>
  BY DEF Answer, LoseToDrive, hostVars
<1>2. /\ d = request.axis /\ number \in Numbers
      /\ m \in CurrentMessages /\ Tail(toDrive[d]) \in Seq(CurrentMessages)
  BY <1>1, QueueIsCurrent
<1>3. CurrentItems' = CurrentItems /\ CurrentMessages' = CurrentMessages
  BY <1>1 DEF CurrentItems, CurrentMessages
<1>4. toHost' \in Seq(CurrentItems)
  <2>1. CASE Answer(d)
    <3>1. /\ m.acked /\ m \in GoodMessages /\ m.request = request /\ m.number = number
          /\ executed[number] > 0
      BY <1>2, <2>1 DEF Answer, CurrentMessages
    <3>2. m.request.kind \in {"read16", "read32"} /\ request \in Requests
      BY <3>1 DEF GoodMessages, Messages, Requests, Kinds
    <3>3. answer \in Items
      BY <1>2, <3>1, <3>2, ItemType
    <3>4. answer \in CurrentItems
      BY <3>1, <3>3 DEF CurrentItems, Item
    <3>5. toHost' = Append(toHost, answer)
      BY <2>1 DEF Answer
    <3> HIDE DEF answer
    <3> QED BY <3>4, <3>5, AppendProperties DEF IndInv, LineIsCurrent
  <2>2. CASE LoseToDrive(d)
    BY <2>2 DEF LoseToDrive, IndInv, LineIsCurrent
  <2> QED BY <2>1, <2>2
<1>5. LineIsCurrent'
  <2>1. toDrive' \in [Drives -> Seq(CurrentMessages)]
    BY <1>1, <1>2 DEF IndInv, LineIsCurrent
  <2>2. \A x \in Drives : x # request'.axis => toDrive'[x] = <<>>
    BY <1>1, <1>2 DEF IndInv, TypeInv, LineIsCurrent
  <2>3. rx' \in Seq(CurrentItems)
    BY <1>1 DEF IndInv, LineIsCurrent
  <2> QED BY <1>3, <1>4, <2>1, <2>2, <2>3 DEF LineIsCurrent
<1>6. PlaceTells'
  BY <1>1 DEF IndInv, PlaceTells
<1> QED BY <1>5, <1>6

\* The line carries what is on it to the host, loses it, or brings a notice.
LEMMA LineToHostKeeps ==
  ASSUME IndInv, Notify \/ Arrive \/ LoseToHost
  PROVE  LineIsCurrent' /\ PlaceTells'
<1>1. UNCHANGED <<pc, request, number, tries, outcome, value, toDrive, executed>>
  BY DEF Notify, Arrive, LoseToHost, hostVars
<1>2. CurrentItems' = CurrentItems /\ CurrentMessages' = CurrentMessages
  BY <1>1 DEF CurrentItems, CurrentMessages
<1>3. rx \in Seq(CurrentItems) /\ toHost \in Seq(CurrentItems)
  BY DEF IndInv, LineIsCurrent
<1>4. toHost # <<>> => Head(toHost) \in CurrentItems /\ Tail(toHost) \in Seq(CurrentItems)
  BY <1>3, HeadTailProperties
<1>5. rx' \in Seq(CurrentItems) /\ toHost' \in Seq(CurrentItems)
  <2>1. CASE Notify
    <3>1. Item("notice", request, 0) \in Items
      BY ItemType, ChannelAssumption DEF IndInv, TypeInv, TypeOK, Numbers
    <3>2. Item("notice", request, 0) \in CurrentItems
      BY <3>1 DEF CurrentItems, Item
    <3> QED BY <1>3, <2>1, <3>2 DEF Notify
  <2>2. CASE Arrive
    BY <1>3, <1>4, <2>2, AppendProperties DEF Arrive
  <2>3. CASE LoseToHost
    BY <1>3, <1>4, <2>3 DEF LoseToHost
  <2> QED BY <2>1, <2>2, <2>3
<1>6. LineIsCurrent'
  BY <1>1, <1>2, <1>5 DEF IndInv, LineIsCurrent
<1>7. PlaceTells'
  BY <1>1 DEF IndInv, PlaceTells
<1> QED BY <1>6, <1>7

LEMMA StepKeeps ==
  ASSUME ~Overlap, IndInv, [Next]_vars
  PROVE  IndInv'
<1>1. TypeInv'
  <2>1. CASE UNCHANGED vars
    BY <2>1 DEF vars, IndInv, TypeInv, TypeOK
  <2> QED BY <2>1, HostKeepsType, LineKeepsType DEF Next, IndInv
<1>2. LineIsCurrent' /\ PlaceTells'
  <2>1. CASE HostStep
    BY <2>1, SendKeeps, WriteKeeps, GiveUpKeeps, ReadKeeps DEF HostStep
  <2>2. CASE LineStep
    BY <2>2, ExecuteKeeps, AnswerOrLossKeeps, LineToHostKeeps DEF LineStep
  <2>3. CASE UNCHANGED vars
    <3>1. CurrentItems' = CurrentItems /\ CurrentMessages' = CurrentMessages
      BY <2>3 DEF vars, CurrentItems, CurrentMessages
    <3>2. LineIsCurrent'
      BY <2>3, <3>1 DEF vars, IndInv, LineIsCurrent
    <3> QED BY <2>3, <3>2 DEF vars, IndInv, PlaceTells
  <2> QED BY <2>1, <2>2, <2>3 DEF Next
<1> QED BY <1>1, <1>2 DEF IndInv

LEMMA Invariance ==
  ASSUME ~Overlap
  PROVE  Spec => []IndInv
<1>1. IndInv /\ [Next]_vars => IndInv'
  BY StepKeeps
<1> QED BY <1>1, InitQuiet, PTL DEF Spec

\* With a quiet line at each write a read that succeeds returns the register it
\* asked for, from the drive it asked (the drain in sendMessage()).
THEOREM AnswersAreOwn ==
  ASSUME ~Overlap
  PROVE  Spec => []ReadIsOfRequest
<1>1. IndInv => ReadIsOfRequest
  BY DEF IndInv, PlaceTells, ReadIsOfRequest
<1> QED BY <1>1, Invariance, PTL

\* With a quiet line at each write what sendMessage() reports as sent has been
\* executed by a drive.
THEOREM SuccessIsExecuted ==
  ASSUME ~Overlap
  PROVE  Spec => []SentIsExecuted
<1>1. IndInv => SentIsExecuted
  BY DEF IndInv, PlaceTells, SentIsExecuted
<1> QED BY <1>1, Invariance, PTL

-----------------------------------------------------------------------------
(* TmlChannel implements TmlRequest on a quiet line.  A request is invoked  *)
(* when Send drains the buffer, and ends where the operation returns; what  *)
(* the line and the drives do is hidden, but for the execution.             *)

LEMMA InitMaps == Init => Abstract!Init
<1>1. 0 \in Numbers
  BY ChannelAssumption DEF Numbers
<1> QED BY <1>1 DEF Init, Item, Abstract!Init, Abstract!Answer

\* A step that neither starts nor ends an operation nor executes a message.
LEMMA StutterMaps ==
  ASSUME UNCHANGED <<request, number, executed, outcome, value>>,
         pc' # "idle" <=> pc # "idle"
  PROVE  UNCHANGED Abstract!vars
  BY DEF Abstract!vars

LEMMA SendMaps ==
  ASSUME IndInv, RetryBudget, NEW r \in Requests, Send(r)
  PROVE  Abstract!Next
<1>1. number \in Nat /\ number + 1 \in Numbers /\ number < MaxRequests
  BY ChannelAssumption DEF Send, IndInv, TypeInv, TypeOK, Numbers
<1>2. executed[number + 1] = 0
  BY <1>1, ExecutedInBudget DEF IndInv
<1>3. /\ pc = "idle" /\ pc' = "write" /\ request' = r /\ number' = number + 1
      /\ UNCHANGED <<executed, outcome, value>>
  BY DEF Send
<1>4. Abstract!Invoke(r)
  BY <1>1, <1>2, <1>3 DEF Abstract!Invoke
<1> QED BY <1>4 DEF Abstract!Next

LEMMA FailMaps ==
  ASSUME pc # "idle", Return("failed"),
         UNCHANGED <<request, number, executed, value>>
  PROVE  Abstract!Next
<1>1. Abstract!Fail
  BY DEF Return, Abstract!Fail
<1> QED BY <1>1 DEF Abstract!Next

\* The step that reports a success finds the message executed; a read has taken
\* the answer to it.
LEMMA SucceedMaps ==
  ASSUME IndInv, IndInv', pc # "idle", Return("ok"),
         UNCHANGED <<request, number, executed>>,
         request.kind = "command" => UNCHANGED value
  PROVE  Abstract!Next
<1>1. pc' = "idle" /\ outcome' = "ok" /\ request \in Requests
  BY DEF Return, IndInv, TypeInv, TypeOK
<1>2. executed[number] > 0
  BY <1>1 DEF IndInv, PlaceTells
<1>3. request.kind # "command" =>
        value'.axis = request.axis /\ value'.register = request.register
        /\ value'.number = number
  BY <1>1 DEF IndInv, PlaceTells
<1>4. Abstract!Succeed
  BY <1>1, <1>2, <1>3 DEF Abstract!Succeed, Abstract!Answer
<1> QED BY <1>4 DEF Abstract!Next

LEMMA ExecuteMaps ==
  ASSUME IndInv, AtMostTwice', NEW d \in Drives, Execute(d)
  PROVE  Abstract!Next
<1>1. /\ number \in Numbers /\ number > 0 /\ Head(toDrive[d]).number = number
  BY QueueIsCurrent DEF Execute, CurrentMessages
<1>2. /\ executed' = [executed EXCEPT ![number] = @ + 1]
      /\ UNCHANGED <<pc, request, number, outcome, value>>
  BY <1>1 DEF Execute, hostVars
<1>3. executed[number] \in Nat /\ executed'[number'] = executed[number] + 1
  BY <1>1, <1>2 DEF IndInv, TypeInv, TypeOK
<1>4. executed'[number'] <= 2
  BY <1>1, <1>2 DEF AtMostTwice
<1>5. executed[number] < 2
  BY <1>3, <1>4
<1>6. Abstract!Execute
  BY <1>1, <1>2, <1>3, <1>5 DEF Abstract!Execute
<1> QED BY <1>6 DEF Abstract!Next

LEMMA ReadMaps ==
  ASSUME IndInv, IndInv', ReadStep
  PROVE  Abstract!Next \/ UNCHANGED Abstract!vars
<1>1. UNCHANGED <<request, number, executed>> /\ pc \in {"ack", "response"}
  BY DEF ReadStep, TakeAck, SkipJunk, TakeAckInFrame, SkipPadding, Misframe, TakeFrame
<1>2. CASE TakeAck \/ TakeAckInFrame
  <2>1. UNCHANGED value /\ Acknowledged
    BY <1>2 DEF TakeAck, TakeAckInFrame
  <2>2. CASE request.kind = "command"
    BY <1>1, <2>1, <2>2, SucceedMaps DEF Acknowledged
  <2>3. CASE request.kind # "command"
    <3>1. pc' = "response" /\ UNCHANGED outcome
      BY <2>1, <2>3 DEF Acknowledged
    <3> QED BY <1>1, <2>1, <3>1, StutterMaps
  <2> QED BY <2>2, <2>3
<1>3. CASE SkipJunk \/ SkipPadding
  <2>1. UNCHANGED <<pc, outcome, value>>
    BY <1>3 DEF SkipJunk, SkipPadding
  <2> QED BY <1>1, <2>1, StutterMaps
<1>4. CASE Misframe
  <2>1. UNCHANGED value /\ Return("failed")
    BY <1>4 DEF Misframe
  <2> QED BY <1>1, <2>1, FailMaps
<1>5. CASE TakeFrame
  <2>1. CASE AnswerTaken(Head(rx), request.kind)
    <3>1. Return("ok")
      BY <1>5, <2>1 DEF TakeFrame
    <3>2. request.kind # "command"
      BY <1>5 DEF TakeFrame, IndInv, PlaceTells
    <3> QED BY <1>1, <3>1, <3>2, SucceedMaps
  <2>2. CASE ~AnswerTaken(Head(rx), request.kind)
    <3>1. Return("failed") /\ UNCHANGED value
      BY <1>5, <2>2 DEF TakeFrame
    <3> QED BY <1>1, <3>1, FailMaps
  <2> QED BY <2>1, <2>2
<1> QED BY <1>2, <1>3, <1>4, <1>5 DEF ReadStep

LEMMA StepMaps ==
  ASSUME IndInv, IndInv', RetryBudget, AtMostTwice', [Next]_vars
  PROVE  Abstract!Next \/ UNCHANGED Abstract!vars
<1>1. ASSUME NEW r \in Requests, Send(r)
      PROVE  Abstract!Next
  BY <1>1, SendMaps
<1>2. CASE Write \/ Retry
  <2>1. UNCHANGED <<request, number, executed, outcome, value>> /\ pc # "idle" /\ pc' # "idle"
    BY <1>2 DEF Write, Retry
  <2> QED BY <2>1, StutterMaps
<1>3. CASE WriteFails \/ GiveUp \/ ResponseTimeout
  <2>1. /\ UNCHANGED <<request, number, executed, value>>
        /\ pc # "idle" /\ Return("failed")
    BY <1>3 DEF WriteFails, GiveUp, ResponseTimeout, SendResult
  <2> QED BY <2>1, FailMaps
<1>4. CASE ReadStep
  BY <1>4, ReadMaps
<1>5. CASE LineStep
  <2>1. ASSUME NEW d \in Drives, Execute(d)
        PROVE  Abstract!Next
    BY <2>1, ExecuteMaps
  <2>2. ASSUME NEW d \in Drives, Answer(d) \/ LoseToDrive(d)
        PROVE  UNCHANGED Abstract!vars
    <3>1. UNCHANGED <<pc, request, number, executed, outcome, value>>
      BY <2>2 DEF Answer, LoseToDrive, hostVars
    <3> QED BY <3>1, StutterMaps
  <2>3. CASE Notify \/ Arrive \/ LoseToHost
    <3>1. UNCHANGED <<pc, request, number, executed, outcome, value>>
      BY <2>3 DEF Notify, Arrive, LoseToHost, hostVars
    <3> QED BY <3>1, StutterMaps
  <2> QED BY <1>5, <2>1, <2>2, <2>3 DEF LineStep
<1>6. CASE UNCHANGED vars
  <2>1. UNCHANGED <<pc, request, number, executed, outcome, value>>
    BY <1>6 DEF vars
  <2> QED BY <2>1, StutterMaps
<1> QED BY <1>1, <1>2, <1>3, <1>4, <1>5, <1>6 DEF Next, HostStep

\* The safety part of ImplementsRequest, for every line, on a line that is quiet
\* at each write: the initial states of TmlChannel are initial states of
\* TmlRequest, and each of its steps is a step of TmlRequest or a stutter.
THEOREM Refinement ==
  ASSUME ~Overlap
  PROVE  Spec => Abstract!Init /\ [][Abstract!Next]_(Abstract!vars)
<1>1. IndInv /\ IndInv' /\ RetryBudget /\ AtMostTwice' /\ [Next]_vars =>
        [Abstract!Next]_(Abstract!vars)
  BY StepMaps
<1> QED BY <1>1, InitMaps, Invariance, BudgetInvariance, TwiceAtMost, PTL DEF Spec

=============================================================================
