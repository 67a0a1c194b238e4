--------------------------- MODULE TmlFrame_proofs ---------------------------
(***************************************************************************)
(* What the frame codec and the reads of TmlFrame do, for every set of     *)
(* messages and every changed byte:                                        *)
(*   RoundTrip              a message survives its frame                   *)
(*   ChangedByteIsDetected  the checksum tells a changed byte              *)
(*   TypeCorrect            wire and result are what they should be        *)
(*   PaddingSkipped, DamagedRefused                                        *)
(*                          a read gets its answer, or fails if damaged    *)
(* A checksum is a recursive function of the bytes of its message, so the  *)
(* first section has an induction over the naturals to reason about it.    *)
(***************************************************************************)
EXTENDS TmlFrame, FiniteSetTheorems, SequenceTheorems, TLAPS

-----------------------------------------------------------------------------
(* Induction, and the checksum *)

\* A set that has 0 and the successor of each of its numbers has all of them: were
\* some missing up to n, the predecessors of the missing ones would be missing too,
\* and none of these is n; but an injection of a finite set into itself is onto.
LEMMA NatSetInduction ==
  ASSUME NEW S, 0 \in S, \A n \in Nat : n \in S => n + 1 \in S
  PROVE  Nat \subseteq S
<1> SUFFICES ASSUME NEW n \in Nat, n \notin S
             PROVE  FALSE
  OBVIOUS
<1> DEFINE D == {m \in 0 .. n : m \notin S}
           down == [m \in D |-> m - 1]
<1>1. IsFiniteSet(D)
  <2>1. IsFiniteSet(0 .. n)
    BY FS_Interval
  <2> QED BY <2>1, FS_Subset
<1>2. down \in [D -> D]
  <2> SUFFICES ASSUME NEW m \in D
               PROVE  m - 1 \in D
    OBVIOUS
  <2>1. m \in Nat /\ m # 0 /\ m \notin S
    OBVIOUS
  <2>2. m - 1 \in Nat /\ m - 1 \in 0 .. n /\ (m - 1) + 1 = m
    BY <2>1
  <2> QED BY <2>1, <2>2
<1>3. down \in Injection(D, D)
  <2>1. \A i, j \in D : down[i] = down[j] => i = j
    OBVIOUS
  <2> HIDE DEF down, D
  <2> QED BY <1>2, <2>1 DEF Injection, IsInjective
<1>4. down \in Surjection(D, D)
  <2> HIDE DEF down
  <2> QED BY <1>1, <1>3, FS_Injection
<1>5. n \in D
  OBVIOUS
<1>6. PICK m \in D : down[m] = n
  <2> HIDE DEF down, D
  <2> QED BY <1>4, <1>5 DEF Surjection
<1> QED BY <1>6

\* The function Checksum() defines: the sums of the first bytes of buf.
Sums(buf) ==
  CHOOSE f : f = [i \in 0 .. Len(buf) |-> IF i = 0 THEN 0 ELSE f[i - 1] + buf[i]]

LEMMA ByteIsNat == Byte \subseteq Nat
BY DEF Byte

\* There is such a function, and a checksum is its last value modulo 256.
LEMMA SumsExist ==
  ASSUME NEW buf \in Seq(Byte)
  PROVE  \E s \in [0 .. Len(buf) -> Nat] :
           /\ s[0] = 0 /\ \A i \in 1 .. Len(buf) : s[i] = s[i - 1] + buf[i]
           /\ Checksum(buf) = s[Len(buf)] % 256
<1> DEFINE Rec(f, k) == f = [i \in 0 .. k |-> IF i = 0 THEN 0 ELSE f[i - 1] + buf[i]]
           S == {k \in Nat : \E f : Rec(f, k)}
           n == Len(buf)
<1>1. 0 \in S
  <2> DEFINE f == [i \in 0 .. 0 |-> 0]
  <2>1. Rec(f, 0)
    OBVIOUS
  <2> QED BY <2>1
<1>2. ASSUME NEW k \in Nat, k \in S
      PROVE  k + 1 \in S
  <2>1. PICK f : Rec(f, k)
    BY <1>2
  <2> DEFINE g == [i \in 0 .. k + 1 |-> IF i = 0 THEN 0 ELSE f[i - 1] + buf[i]]
  <2>2. \A i \in 0 .. k : f[i] = g[i]
    BY <2>1
  <2>3. \A i \in 0 .. k + 1 : i = 0 \/ i - 1 \in 0 .. k
    OBVIOUS
  <2>4. g = [i \in 0 .. k + 1 |-> IF i = 0 THEN 0 ELSE g[i - 1] + buf[i]]
    <3> HIDE DEF Rec
    <3>1. \A i \in 0 .. k + 1 : (IF i = 0 THEN 0 ELSE f[i - 1] + buf[i])
                                = (IF i = 0 THEN 0 ELSE g[i - 1] + buf[i])
      BY <2>2, <2>3
    <3> QED BY <3>1
  <2>5. Rec(g, k + 1)
    BY <2>4
  <2>6. \E f1 : Rec(f1, k + 1)
    <3> HIDE DEF Rec, g
    <3> QED BY <2>5
  <2> HIDE DEF Rec
  <2> QED BY <2>6
<1>3. n \in Nat /\ n \in S
  <2>1. n \in Nat
    OBVIOUS
  <2> HIDE DEF S, n
  <2> QED BY <1>1, <1>2, <2>1, NatSetInduction
<1> DEFINE s == Sums(buf)
<1>4. Rec(s, n)
  <2>1. \E f : Rec(f, n)
    BY <1>3
  <2> QED BY <2>1 DEF Sums
<1>5. Checksum(buf) = s[n] % 256
  BY DEF Checksum, Sums
<1> HIDE DEF s, n
<1>6. s[0] = 0 /\ \A i \in 1 .. n : s[i] = s[i - 1] + buf[i]
  <2>1. \A i \in 0 .. n : s[i] = IF i = 0 THEN 0 ELSE s[i - 1] + buf[i]
    BY <1>4
  <2> QED BY <1>3, <2>1
<1>7. \A i \in 0 .. n : s[i] \in Nat
  <2> DEFINE T == {i \in Nat : i <= n => s[i] \in Nat}
  <2>1. 0 \in T
    BY <1>6
  <2>2. ASSUME NEW i \in Nat, i \in T
        PROVE  i + 1 \in T
    <3> SUFFICES ASSUME i + 1 <= n
                 PROVE  s[i + 1] \in Nat
      OBVIOUS
    <3>1. s[i] \in Nat
      BY <1>3, <2>2
    <3>2. i + 1 \in 1 .. n /\ (i + 1) - 1 = i
      BY <1>3
    <3>3. s[i + 1] = s[i] + buf[i + 1]
      BY <1>6, <3>2
    <3>4. i + 1 \in 1 .. Len(buf)
      BY <3>2 DEF n
    <3>5. buf[i + 1] \in Byte
      BY <3>4
    <3>6. buf[i + 1] \in Nat
      BY <3>5, ByteIsNat
    <3> QED BY <3>1, <3>3, <3>6
  <2>3. Nat \subseteq T
    <3> HIDE DEF T
    <3> QED BY <2>1, <2>2, NatSetInduction
  <2> QED BY <1>3, <2>3
<1>8. s \in [0 .. n -> Nat]
  BY <1>4, <1>7
<1> QED BY <1>5, <1>6, <1>8 DEF n

LEMMA ChecksumIsByte ==
  ASSUME NEW buf \in Seq(Byte)
  PROVE  Checksum(buf) \in Byte
<1>1. PICK s \in [0 .. Len(buf) -> Nat] : Checksum(buf) = s[Len(buf)] % 256
  BY SumsExist
<1>2. s[Len(buf)] \in Nat
  <2>1. Len(buf) \in 0 .. Len(buf)
    OBVIOUS
  <2> QED BY <2>1
<1>3. \A x \in Nat : x % 256 \in 0 .. 255
  OBVIOUS
<1> QED BY <1>1, <1>2, <1>3 DEF Byte

LEMMA ResiduesDiffer ==
  ASSUME NEW x \in Nat, NEW y \in Nat, x < y + 256, y < x + 256, x # y
  PROVE  x % 256 # y % 256
<1>1. \A z \in Nat : z = 256 * (z \div 256) + (z % 256) /\ z \div 256 \in Nat /\ z % 256 \in Nat
  OBVIOUS
<1>2. SUFFICES ASSUME x % 256 = y % 256
               PROVE  FALSE
  OBVIOUS
<1>3. PICK p \in Nat, q \in Nat, r \in Nat : x = 256 * p + r /\ y = 256 * q + r
  BY <1>1, <1>2
<1> QED BY <1>3

\* Two messages that differ in one byte have different checksums: from that byte on
\* the sums differ by the same amount, which is less than 256.
LEMMA OneByteShifts ==
  ASSUME NEW a \in Seq(Byte), NEW b \in Seq(Byte), Len(a) = Len(b),
         NEW k \in 1 .. Len(a), a[k] # b[k],
         \A i \in 1 .. Len(a) : i # k => a[i] = b[i]
  PROVE  Checksum(a) # Checksum(b)
<1> DEFINE n == Len(a)
<1>1. PICK s \in [0 .. n -> Nat] :
        /\ s[0] = 0 /\ \A i \in 1 .. n : s[i] = s[i - 1] + a[i]
        /\ Checksum(a) = s[n] % 256
  BY SumsExist
<1>2. PICK t \in [0 .. n -> Nat] :
        /\ t[0] = 0 /\ \A i \in 1 .. n : t[i] = t[i - 1] + b[i]
        /\ Checksum(b) = t[n] % 256
  BY SumsExist
<1>3. n \in Nat /\ k \in 1 .. n
  OBVIOUS
<1>a. \A i \in 1 .. n : a[i] \in Byte /\ b[i] \in Byte
  OBVIOUS
<1> HIDE DEF n
<1> DEFINE T == {i \in Nat : i <= n => s[i] = IF i < k THEN t[i] ELSE t[i] + (a[k] - b[k])}
<1>4. 0 \in T
  BY <1>1, <1>2, <1>3
<1>5. ASSUME NEW i \in Nat, i \in T
      PROVE  i + 1 \in T
  <2> SUFFICES ASSUME i + 1 <= n
               PROVE  s[i + 1] = IF i + 1 < k THEN t[i + 1] ELSE t[i + 1] + (a[k] - b[k])
    OBVIOUS
  <2>1. i \in 0 .. n /\ i + 1 \in 1 .. n /\ (i + 1) - 1 = i
    BY <1>3
  <2>2. s[i + 1] = s[i] + a[i + 1] /\ t[i + 1] = t[i] + b[i + 1]
    BY <1>1, <1>2, <2>1
  <2>3. /\ s[i] \in Nat /\ t[i] \in Nat
        /\ a[i + 1] \in Int /\ b[i + 1] \in Int /\ a[k] \in Int /\ b[k] \in Int
    <3>1. Byte \subseteq Int
      BY DEF Byte
    <3> QED BY <1>3, <1>a, <2>1, <3>1
  <2>4. s[i] = IF i < k THEN t[i] ELSE t[i] + (a[k] - b[k])
    BY <1>3, <1>5, <2>1
  <2>5. i + 1 # k => a[i + 1] = b[i + 1]
    BY <2>1 DEF n
  <2> HIDE DEF T
  <2>6. CASE i + 1 < k
    BY <2>1, <2>2, <2>3, <2>4, <2>5, <2>6
  <2>7. CASE i + 1 = k
    BY <2>1, <2>2, <2>3, <2>4, <2>7
  <2>8. CASE i + 1 > k
    BY <2>1, <2>2, <2>3, <2>4, <2>5, <2>8
  <2> QED BY <1>3, <2>6, <2>7, <2>8
<1>6. Nat \subseteq T
  <2> HIDE DEF T
  <2> QED BY <1>4, <1>5, NatSetInduction
<1>7. s[n] = t[n] + (a[k] - b[k])
  BY <1>3, <1>6
<1>8. /\ s[n] \in Nat /\ t[n] \in Nat /\ a[k] \in 0 .. 255 /\ b[k] \in 0 .. 255 /\ a[k] # b[k]
  <2>1. n \in 0 .. n
    BY <1>3
  <2> QED BY <1>3, <1>a, <2>1 DEF Byte
<1>9. s[n] % 256 # t[n] % 256
  <2>1. s[n] < t[n] + 256 /\ t[n] < s[n] + 256 /\ s[n] # t[n]
    <3> DEFINE x == s[n]
               y == t[n]
               c == a[k]
               d == b[k]
    <3>1. x = y + (c - d) /\ x \in Nat /\ y \in Nat /\ c \in 0 .. 255 /\ d \in 0 .. 255 /\ c # d
      BY <1>7, <1>8
    <3> HIDE DEF x, y, c, d
    <3>2. x < y + 256 /\ y < x + 256 /\ x # y
      BY <3>1
    <3> QED BY <3>2 DEF x, y
  <2> QED BY <1>8, <2>1, ResiduesDiffer
<1> QED BY <1>1, <1>2, <1>9

-----------------------------------------------------------------------------
(* A frame and its message *)

LEMMA HalvesJoin ==
  ASSUME NEW w \in Word
  PROVE  High(w) \in Byte /\ Low(w) \in Byte /\ Join(High(w), Low(w)) = w
BY DEF Word, Byte, High, Low, Join

LEMMA TwoBefore ==
  ASSUME NEW a \in Word, NEW b \in Word, NEW s \in Seq(Word)
  PROVE  /\ <<a, b>> \o s \in Seq(Word) /\ Len(<<a, b>> \o s) = 2 + Len(s)
         /\ (<<a, b>> \o s)[1] = a /\ (<<a, b>> \o s)[2] = b
         /\ \A i \in 1 .. Len(s) : (<<a, b>> \o s)[2 + i] = s[i]
<1>1. <<a, b>> \in Seq(Word) /\ Len(<<a, b>>) = 2 /\ <<a, b>>[1] = a /\ <<a, b>>[2] = b
  OBVIOUS
<1>2. \A i \in 1 .. Len(s) : ~(2 + i <= 2) /\ (2 + i) - 2 = i /\ 2 + i \in 1 .. 2 + Len(s)
  OBVIOUS
<1> QED BY <1>1, <1>2

\* serialiseMessage() byte by byte, up to the checksum.
LEMMA BodyShape ==
  ASSUME NEW msg \in Messages
  PROVE  /\ IsMessage(msg) /\ Len(msg.data) \in 0 .. MaxData
         /\ Body(msg) \in Seq(Byte) /\ Len(Body(msg)) = 5 + 2 * Len(msg.data)
         /\ Body(msg)[1] = 4 + 2 * Len(msg.data)
         /\ Body(msg)[2] = High(msg.addr) /\ Body(msg)[3] = Low(msg.addr)
         /\ Body(msg)[4] = High(msg.opCode) /\ Body(msg)[5] = Low(msg.opCode)
         /\ \A i \in 1 .. Len(msg.data) :
              /\ Body(msg)[4 + 2 * i] = High(msg.data[i])
              /\ Body(msg)[5 + 2 * i] = Low(msg.data[i])
<1> DEFINE words == <<msg.addr, msg.opCode>> \o msg.data
           n == Len(msg.data)
<1>1. /\ IsMessage(msg) /\ msg \in TmlMsg /\ msg.addr \in Word /\ msg.opCode \in Word
      /\ msg.data \in Seq(Word) /\ n \in 0 .. MaxData
  <2>1. IsMessage(msg) /\ msg \in TmlMsg
    BY FrameAssumption DEF IsMessage
  <2>2. msg.addr \in Word /\ msg.opCode \in Word /\ msg.data \in Seq(Word)
    BY <2>1 DEF TmlMsg
  <2>3. n \in 0 .. MaxData
    <3>1. n <= MaxData /\ n \in Nat
      BY <2>1, <2>2 DEF IsMessage
    <3> HIDE DEF n
    <3> QED BY <3>1 DEF MaxData
  <2> QED BY <2>1, <2>2, <2>3
<1>2. /\ words \in Seq(Word) /\ Len(words) = 2 + n
      /\ words[1] = msg.addr /\ words[2] = msg.opCode
      /\ \A i \in 1 .. n : words[2 + i] = msg.data[i]
  BY <1>1, TwoBefore
<1> HIDE DEF words
<1>3. Body(msg) = [i \in 1 .. (1 + 2 * Len(words)) |->
                     IF i = 1 THEN 2 * Len(words)
                     ELSE IF i % 2 = 0 THEN High(words[i \div 2]) ELSE Low(words[i \div 2])]
  BY DEF Body, words
<1>4. ASSUME NEW i \in 1 .. (1 + 2 * Len(words))
      PROVE  Body(msg)[i] \in Byte
  <2>1. CASE i = 1
    <3>1. 2 * Len(words) \in Byte
      <4>1. n \in 0 .. 4 /\ Len(words) = 2 + n
        BY <1>1, <1>2 DEF MaxData
      <4> HIDE DEF n
      <4>2. 2 * Len(words) \in 0 .. 255
        BY <4>1
      <4> QED BY <4>2 DEF Byte
    <3> QED BY <1>3, <2>1, <3>1
  <2>2. CASE i # 1
    <3>1. i \div 2 \in 1 .. Len(words)
      BY <1>1, <1>2, <2>2 DEF MaxData
    <3>2. words[i \div 2] \in Word
      BY <1>2, <3>1
    <3> QED BY <1>3, <2>2, <3>2, HalvesJoin
  <2> QED BY <2>1, <2>2
<1>5. Body(msg) \in Seq(Byte) /\ Len(Body(msg)) = 5 + 2 * n
  <2>1. 1 + 2 * Len(words) \in Nat /\ 1 + 2 * Len(words) = 5 + 2 * n
    BY <1>1, <1>2 DEF MaxData
  <2>2. Body(msg) \in [1 .. (1 + 2 * Len(words)) -> Byte]
    BY <1>3, <1>4
  <2> QED BY <2>1, <2>2
<1>6. /\ Body(msg)[1] = 4 + 2 * n
      /\ Body(msg)[2] = High(words[1]) /\ Body(msg)[3] = Low(words[1])
      /\ Body(msg)[4] = High(words[2]) /\ Body(msg)[5] = Low(words[2])
  BY <1>1, <1>2, <1>3 DEF MaxData
<1>7. ASSUME NEW i \in 1 .. n
      PROVE  /\ Body(msg)[4 + 2 * i] = High(words[2 + i])
             /\ Body(msg)[5 + 2 * i] = Low(words[2 + i])
  <2>1. /\ 4 + 2 * i \in 1 .. (1 + 2 * Len(words)) /\ 4 + 2 * i # 1
        /\ (4 + 2 * i) % 2 = 0 /\ (4 + 2 * i) \div 2 = 2 + i
        /\ 5 + 2 * i \in 1 .. (1 + 2 * Len(words)) /\ 5 + 2 * i # 1
        /\ (5 + 2 * i) % 2 # 0 /\ (5 + 2 * i) \div 2 = 2 + i
    BY <1>1, <1>2 DEF MaxData
  <2> QED BY <1>3, <2>1
<1> QED BY <1>1, <1>2, <1>5, <1>6, <1>7

LEMMA FrameShape ==
  ASSUME NEW msg \in Messages
  PROVE  /\ Serialise(msg) \in Seq(Byte)
         /\ Len(Serialise(msg)) = 6 + 2 * Len(msg.data)
         /\ \A i \in 1 .. Len(Body(msg)) : Serialise(msg)[i] = Body(msg)[i]
         /\ Serialise(msg)[6 + 2 * Len(msg.data)] = Checksum(Body(msg))
         /\ SubSeq(Serialise(msg), 1, 5 + 2 * Len(msg.data)) = Body(msg)
<1> DEFINE body == Body(msg)
           c == Checksum(Body(msg))
<1>1. /\ body \in Seq(Byte) /\ c \in Byte
      /\ Len(msg.data) \in Nat /\ Len(body) = 5 + 2 * Len(msg.data)
  BY BodyShape, ChecksumIsByte DEF MaxData
<1>2. Serialise(msg) = body \o <<c>>
  BY DEF Serialise
<1> HIDE DEF body, c
<1>3. /\ Serialise(msg) \in Seq(Byte) /\ Len(Serialise(msg)) = Len(body) + 1
      /\ \A i \in 1 .. Len(body) : Serialise(msg)[i] = body[i]
      /\ Serialise(msg)[Len(body) + 1] = c
  BY <1>1, <1>2
<1>4. SubSeq(Serialise(msg), 1, Len(body)) = body
  <2>1. SubSeq(Serialise(msg), 1, Len(body)) = [i \in 1 .. Len(body) |-> Serialise(msg)[i]]
    BY <1>1, <1>3
  <2>2. body = [i \in 1 .. Len(body) |-> body[i]]
    BY <1>1
  <2> QED BY <1>3, <2>1, <2>2
<1> QED BY <1>1, <1>3, <1>4 DEF body, c

\* deserialiseMessage() of what serialiseMessage() made is the message: what a
\* drive sends in the driver's format is what the host gets.
THEOREM RoundTrip ==
  ASSUME NEW msg \in Messages
  PROVE  Deserialise(Serialise(msg)) = {msg}
<1> DEFINE frame == Serialise(msg)
           n == Len(msg.data)
<1>1. /\ msg \in TmlMsg /\ n \in 0 .. MaxData
      /\ msg.addr \in Word /\ msg.opCode \in Word /\ msg.data \in Seq(Word)
  BY BodyShape DEF IsMessage, TmlMsg
<1>2. /\ Len(frame) = 6 + 2 * n /\ frame[6 + 2 * n] = Checksum(Body(msg))
      /\ SubSeq(frame, 1, 5 + 2 * n) = Body(msg)
      /\ \A i \in 1 .. 5 + 2 * n : frame[i] = Body(msg)[i]
  BY FrameShape, BodyShape
<1>3. /\ frame[1] = 4 + 2 * n
      /\ frame[2] = High(msg.addr) /\ frame[3] = Low(msg.addr)
      /\ frame[4] = High(msg.opCode) /\ frame[5] = Low(msg.opCode)
  <2>1. \A i \in 1 .. 5 : i \in 1 .. 5 + 2 * n
    BY <1>1 DEF MaxData
  <2>2. \A i \in 1 .. 5 : frame[i] = Body(msg)[i]
    BY <1>2, <2>1
  <2> HIDE DEF frame
  <2> QED BY <2>2, BodyShape
<1>4. ASSUME NEW i \in 1 .. n
      PROVE  frame[4 + 2 * i] = High(msg.data[i]) /\ frame[5 + 2 * i] = Low(msg.data[i])
  <2>1. 4 + 2 * i \in 1 .. 5 + 2 * n /\ 5 + 2 * i \in 1 .. 5 + 2 * n
    BY <1>1 DEF MaxData
  <2> QED BY <1>2, <2>1, BodyShape
<1> HIDE DEF frame
<1>5. Intact(frame)
  <2>1. /\ Len(frame) >= 6 /\ frame[1] + 2 = 6 + 2 * n
        /\ Len(frame) >= frame[1] + 2 /\ frame[1] + 1 = 5 + 2 * n
    BY <1>1, <1>2, <1>3 DEF MaxData
  <2> QED BY <1>2, <2>1 DEF Intact
<1>6. (frame[1] - 4) \div 2 = n
  <2>1. frame[1] - 4 = 2 * n /\ (2 * n) \div 2 = n
    <3>1. frame[1] - 4 = 2 * n
      BY <1>1, <1>3 DEF MaxData
    <3>2. \A k \in 0 .. MaxData : (2 * k) \div 2 = k
      BY DEF MaxData
    <3> QED BY <1>1, <3>1, <3>2
  <2> QED BY <2>1
<1>7. [i \in 1 .. n |-> Join(frame[4 + 2 * i], frame[5 + 2 * i])] = msg.data
  <2>1. ASSUME NEW i \in 1 .. n
        PROVE  Join(frame[4 + 2 * i], frame[5 + 2 * i]) = msg.data[i]
    <3>1. msg.data[i] \in Word
      BY <1>1
    <3> QED BY <1>4, <3>1, HalvesJoin
  <2>2. msg.data = [i \in 1 .. n |-> msg.data[i]]
    BY <1>1
  <2> QED BY <2>1, <2>2
<1>8. Join(frame[2], frame[3]) = msg.addr /\ Join(frame[4], frame[5]) = msg.opCode
  BY <1>1, <1>3, HalvesJoin
<1>9. Deserialise(frame) = {[addr |-> msg.addr, opCode |-> msg.opCode, data |-> msg.data]}
  BY <1>1, <1>5, <1>6, <1>7, <1>8 DEF Deserialise
<1>10. msg = [addr |-> msg.addr, opCode |-> msg.opCode, data |-> msg.data]
  BY <1>1 DEF TmlMsg
<1> QED BY <1>9, <1>10 DEF frame

LEMMA BytesJoin ==
  ASSUME NEW high \in Byte, NEW low \in Byte
  PROVE  Join(high, low) \in Word
BY DEF Byte, Word, Join

\* Whatever bytes deserialiseMessage() accepts, it makes a message of them.
LEMMA DeserialisedIsMessage ==
  ASSUME NEW buf \in Seq(Byte)
  PROVE  \A msg \in Deserialise(buf) : IsMessage(msg)
<1> DEFINE n == (buf[1] - 4) \div 2
           msg == [addr |-> Join(buf[2], buf[3]), opCode |-> Join(buf[4], buf[5]),
                   data |-> [i \in 1 .. n |-> Join(buf[4 + 2 * i], buf[5 + 2 * i])]]
<1> SUFFICES ASSUME Intact(buf), n \in 0 .. MaxData
             PROVE  IsMessage(msg)
  BY DEF Deserialise, Refused
<1>1. /\ Len(buf) \in Nat /\ Len(buf) >= 6 /\ Len(buf) >= buf[1] + 2
      /\ \A i \in 1 .. Len(buf) : buf[i] \in Byte
  BY DEF Intact
<1>3. ASSUME NEW i \in 1 .. n
      PROVE  4 + 2 * i \in 1 .. Len(buf) /\ 5 + 2 * i \in 1 .. Len(buf)
  <2>1. buf[1] \in Nat
    <3>1. buf[1] \in Byte
      BY <1>1
    <3> QED BY <3>1, ByteIsNat
  <2>2. 2 * n <= buf[1] - 4
    <3>1. n \in 0 .. 4
      BY DEF MaxData
    <3>2. buf[1] - 4 \in Int
      BY <2>1
    <3>3. \A x \in Int : 2 * (x \div 2) <= x
      OBVIOUS
    <3> QED BY <3>2, <3>3
  <2> QED BY <1>1, <2>1, <2>2 DEF MaxData
<1>4. msg.addr \in Word /\ msg.opCode \in Word
  <2>1. buf[2] \in Byte /\ buf[3] \in Byte /\ buf[4] \in Byte /\ buf[5] \in Byte
    BY <1>1
  <2> QED BY <2>1, BytesJoin
<1>5. msg.data \in Seq(Word) /\ Len(msg.data) = n
  <2>1. n \in Nat
    BY DEF MaxData
  <2>2. \A i \in 1 .. n : Join(buf[4 + 2 * i], buf[5 + 2 * i]) \in Word
    BY <1>1, <1>3, BytesJoin
  <2> HIDE DEF n
  <2> QED BY <2>1, <2>2
<1>6. msg \in TmlMsg
  BY <1>4, <1>5 DEF TmlMsg
<1> QED BY <1>5, <1>6 DEF IsMessage, MaxData

\* A frame with one byte changed after its length byte is not accepted, whichever
\* byte it is and whatever it reads: this is what computeChecksum() is compared for.
THEOREM ChangedByteIsDetected ==
  ASSUME NEW msg \in Messages, NEW k \in 2 .. Len(Serialise(msg)),
         NEW byte \in Byte, byte # Serialise(msg)[k]
  PROVE  Deserialise([Serialise(msg) EXCEPT ![k] = byte]) = Refused
<1> DEFINE frame == Serialise(msg)
           changed == [frame EXCEPT ![k] = byte]
           last == 6 + 2 * Len(msg.data)
           body == SubSeq(changed, 1, last - 1)
<1>1. /\ Len(msg.data) \in 0 .. MaxData /\ Len(Body(msg)) = last - 1
      /\ Body(msg) \in Seq(Byte) /\ Body(msg)[1] = last - 2
  BY BodyShape DEF MaxData
<1>2. /\ frame \in Seq(Byte) /\ Len(frame) = last /\ frame[last] = Checksum(Body(msg))
      /\ \A i \in 1 .. last - 1 : frame[i] = Body(msg)[i]
  BY <1>1, FrameShape
<1>3. last \in Nat /\ last >= 6 /\ k \in 2 .. last /\ byte # frame[k]
  BY <1>1, <1>2 DEF MaxData
<1> HIDE DEF frame, last
<1>4. /\ changed \in Seq(Byte) /\ Len(changed) = last
      /\ \A i \in 1 .. last : changed[i] = IF i = k THEN byte ELSE frame[i]
  BY <1>2, <1>3, ExceptSeq
<1> HIDE DEF changed
<1>5. changed[1] + 2 = last /\ changed[1] + 1 = last - 1
  BY <1>1, <1>2, <1>3, <1>4
<1>6. /\ body \in Seq(Byte) /\ Len(body) = last - 1
      /\ \A i \in 1 .. last - 1 : body[i] = changed[i]
  BY <1>3, <1>4
<1>7. changed[last] # Checksum(body)
  <2>1. CASE k = last
    <3>1. body = Body(msg)
      BY <1>1, <1>2, <1>3, <1>4, <1>6, <2>1, SeqEqual
    <3>2. changed[last] = byte /\ byte # Checksum(Body(msg))
      BY <1>2, <1>3, <1>4, <2>1 DEF frame
    <3> QED BY <3>1, <3>2
  <2>2. CASE k # last
    <3>1. k \in 1 .. last - 1
      BY <1>2, <1>3, <2>2 DEF frame
    <3>2. body[k] # Body(msg)[k]
      BY <1>2, <1>4, <1>6, <3>1 DEF frame
    <3>3. \A i \in 1 .. Len(body) : i # k => body[i] = Body(msg)[i]
      BY <1>2, <1>3, <1>4, <1>6
    <3>4. Checksum(body) # Checksum(Body(msg))
      BY <1>1, <1>6, <3>1, <3>2, <3>3, OneByteShifts
    <3>5. changed[last] = Checksum(Body(msg))
      BY <1>2, <1>3, <1>4, <2>2
    <3> QED BY <3>4, <3>5
  <2> QED BY <2>1, <2>2
<1>8. ~Intact(changed)
  BY <1>5, <1>7 DEF Intact
<1> QED BY <1>8 DEF Deserialise, changed, frame

-----------------------------------------------------------------------------
(* What arrives *)

\* No padding byte could be the length of a payload.
PaddingIsNoLength == \A byte \in Padding : ~IsLength(byte)
NoLength(q) == \A i \in 1 .. Len(q) : ~IsLength(q[i])

\* What may arrive of an answer, and what a frame is taken for.
Arriving(msg) == {Serialise(msg)} \cup Spoilt(Serialise(msg))
Received(frame, msg) == IF frame = Serialise(msg) THEN {msg} ELSE Refused

LEMMA FrameLength ==
  ASSUME NEW msg \in Messages
  PROVE  /\ Serialise(msg) \in Seq(Byte) /\ Serialise(msg) # <<>>
         /\ Serialise(msg)[1] \in 4 .. 12
         /\ Len(Serialise(msg)) = Serialise(msg)[1] + 2
<1>1. Len(msg.data) \in 0 .. MaxData /\ Body(msg)[1] = 4 + 2 * Len(msg.data)
      /\ Len(Body(msg)) = 5 + 2 * Len(msg.data)
  BY BodyShape
<1>2. /\ Serialise(msg) \in Seq(Byte) /\ Len(Serialise(msg)) = 6 + 2 * Len(msg.data)
      /\ \A i \in 1 .. Len(Body(msg)) : Serialise(msg)[i] = Body(msg)[i]
  BY FrameShape
<1>3. Serialise(msg)[1] = 4 + 2 * Len(msg.data)
  BY <1>1, <1>2 DEF MaxData
<1>4. Serialise(msg)[1] \in 4 .. 12
  <2> DEFINE n == Len(msg.data)
  <2>1. n \in 0 .. 4 /\ Serialise(msg)[1] = 4 + 2 * n
    BY <1>1, <1>3 DEF MaxData
  <2> HIDE DEF n
  <2> QED BY <2>1
<1>5. Serialise(msg) # <<>>
  BY <1>1, <1>2 DEF MaxData
<1> QED BY <1>1, <1>2, <1>3, <1>4, <1>5 DEF MaxData

\* What arrives of a frame has its length byte, if it has any; is refused, if it has
\* the length but is not the frame; and is otherwise too short.
LEMMA ArrivingFrame ==
  ASSUME NEW msg \in Messages, NEW frame \in Arriving(msg)
  PROVE  /\ frame \in Seq(Byte)
         /\ frame # <<>> => frame[1] \in 4 .. 12
         /\ Len(frame) = frame[1] + 2 => Deserialise(frame) = Received(frame, msg)
         /\ frame # <<>> /\ Len(frame) # frame[1] + 2 =>
              Len(frame) < frame[1] + 2 /\ frame # Serialise(msg)
<1> DEFINE whole == Serialise(msg)
<1>1. /\ whole \in Seq(Byte) /\ whole # <<>> /\ whole[1] \in 4 .. 12
      /\ Len(whole) = whole[1] + 2
  BY FrameLength
<1>2. CASE frame = whole
  BY <1>1, <1>2, RoundTrip DEF Received
<1>3. ASSUME NEW k \in 2 .. Len(whole), NEW noise \in Noise, frame = [whole EXCEPT ![k] = noise]
      PROVE  /\ frame \in Seq(Byte) /\ Len(frame) = Len(whole) /\ frame[1] = whole[1]
             /\ Deserialise(frame) = Received(frame, msg)
  <2>1. noise \in Byte /\ k \in 1 .. Len(whole) /\ 1 \in 1 .. Len(whole) /\ k # 1
    BY <1>1, FrameAssumption
  <2>2. /\ frame \in Seq(Byte) /\ Len(frame) = Len(whole)
        /\ \A j \in 1 .. Len(whole) : frame[j] = IF j = k THEN noise ELSE whole[j]
    <3> HIDE DEF whole
    <3> QED BY <1>1, <1>3, <2>1, ExceptSeq
  <2>3. CASE noise = whole[k]
    <3>1. frame = whole
      <4>1. \A j \in 1 .. Len(frame) : frame[j] = whole[j]
        BY <2>2, <2>3
      <4> HIDE DEF whole
      <4> QED BY <1>1, <2>2, <4>1, SeqEqual
    <3> QED BY <1>1, <3>1, RoundTrip DEF Received
  <2>4. CASE noise # whole[k]
    <3>1. Deserialise(frame) = Refused
      BY <1>3, <2>1, <2>4, ChangedByteIsDetected
    <3>2. frame # whole
      BY <2>1, <2>2, <2>4
    <3> QED BY <2>1, <2>2, <3>1, <3>2 DEF Received
  <2> QED BY <2>3, <2>4
<1>4. ASSUME NEW n \in 0 .. Len(whole) - 1, frame = SubSeq(whole, 1, n)
      PROVE  /\ frame \in Seq(Byte) /\ Len(frame) = n
             /\ frame # <<>> => frame[1] = whole[1]
  <2>1. frame \in Seq(Byte) /\ Len(frame) = n /\ \A j \in 1 .. n : frame[j] = whole[j]
    <3> HIDE DEF whole
    <3>1. n \in 0 .. Len(whole) /\ n \in Nat /\ Len(whole) \in Nat
      BY <1>1
    <3>2. \A i \in 1 .. n : whole[i] \in Byte
      BY <1>1, <3>1
    <3> QED BY <1>4, <3>1, <3>2, SubSeqProperties
  <2>2. frame # <<>> => 1 \in 1 .. n
    BY <2>1
  <2> QED BY <2>1, <2>2
<1>5. \/ frame = whole
      \/ \E k \in 2 .. Len(whole), noise \in Noise : frame = [whole EXCEPT ![k] = noise]
      \/ \E n \in 0 .. Len(whole) - 1 : frame = SubSeq(whole, 1, n)
  BY DEF Arriving, Spoilt
<1>6. CASE \E k \in 2 .. Len(whole), noise \in Noise : frame = [whole EXCEPT ![k] = noise]
  BY <1>1, <1>3, <1>6
<1>7. CASE \E n \in 0 .. Len(whole) - 1 : frame = SubSeq(whole, 1, n)
  <2>1. PICK n \in 0 .. Len(whole) - 1 : frame = SubSeq(whole, 1, n)
    BY <1>7
  <2>2. frame \in Seq(Byte) /\ Len(frame) = n /\ (frame # <<>> => frame[1] = whole[1])
    BY <1>4, <2>1
  <2>3. Len(frame) < whole[1] + 2 /\ frame # whole
    BY <1>1, <2>2
  <2>4. frame = <<>> => Deserialise(frame) = Received(frame, msg)
    BY <2>2, <2>3 DEF Deserialise, Intact, Received
  <2>5. frame # <<>> => Len(frame) # frame[1] + 2
    BY <1>1, <2>2, <2>3
  <2> QED BY <1>1, <2>2, <2>3, <2>4, <2>5
<1> QED BY <1>2, <1>5, <1>6, <1>7

\* The length byte in front of what is read after it gives the frame again.
LEMMA FrameWhole ==
  ASSUME NEW s, NEW S, s \in Seq(S), s # <<>>, s[1] \in Nat, Len(Tail(s)) = s[1] + 1
  PROVE  <<s[1]>> \o SubSeq(Tail(s), 1, s[1] + 1) = s
<1>1. Tail(s) \in Seq(S) /\ SubSeq(Tail(s), 1, s[1] + 1) = Tail(s)
  OBVIOUS
<1>2. <<s[1]>> \o Tail(s) = s
  OBVIOUS
<1> QED BY <1>1, <1>2

\* What is left of two sequences in a row after the first element.
LEMMA TailOfFirst ==
  ASSUME NEW S, NEW q \in Seq(S), NEW f \in Seq(S), q # <<>>
  PROVE  /\ q \o f # <<>> /\ Head(q \o f) = q[1]
         /\ Tail(q) \in Seq(S) /\ Tail(q \o f) = Tail(q) \o f
         /\ Len(Tail(q)) = Len(q) - 1 /\ Len(q) \in Nat \ {0}
         /\ \A i \in 1 .. Len(q) - 1 : Tail(q)[i] = q[i + 1]
<1>1. /\ q \o f # <<>> /\ Head(q \o f) = q[1]
      /\ Tail(q) \in Seq(S) /\ Len(Tail(q)) = Len(q) - 1 /\ Len(q) \in Nat \ {0}
      /\ \A i \in 1 .. Len(q) - 1 : Tail(q)[i] = q[i + 1]
  OBVIOUS
<1>2. Tail(q \o f) = Tail(q) \o f
  OBVIOUS
<1> QED BY <1>1, <1>2

LEMMA PadsAreBytes ==
  ASSUME NEW q \in Pads
  PROVE  /\ q \in Seq(Byte)
         /\ PaddingIsNoLength => NoLength(q)
<1>1. PICK n \in 0 .. MaxPadding : q \in [1 .. n -> Padding]
  BY DEF Pads
<1>2. n \in Nat
  BY FrameAssumption, <1>1
<1>3. q \in Seq(Padding) /\ Len(q) = n
  BY <1>1, <1>2
<1>4. Padding \subseteq Byte
  BY FrameAssumption
<1>5. q \in Seq(Byte)
  BY <1>3, <1>4
<1> QED BY <1>1, <1>2, <1>3, <1>5 DEF NoLength, PaddingIsNoLength

\* What a request puts on the wire.
LEMMA RequestPuts ==
  ASSUME Request
  PROVE  /\ answer' \in Messages /\ pc' = "ack" /\ UNCHANGED <<length, result>>
         /\ \E frame \in Arriving(answer'), before \in Pads, between \in Pads :
              /\ damaged' = (frame # Serialise(answer'))
              /\ wire' = before \o <<Ack>> \o between \o frame
<1>1. PICK msg \in Messages, before \in Pads, between \in Pads :
        \E frame \in {Serialise(msg)} \cup Spoilt(Serialise(msg)) :
          /\ answer' = msg /\ damaged' = (frame # Serialise(msg))
          /\ wire' = before \o <<Ack>> \o between \o frame
  BY DEF Request
<1>2. PICK frame \in {Serialise(msg)} \cup Spoilt(Serialise(msg)) :
        /\ answer' = msg /\ damaged' = (frame # Serialise(msg))
        /\ wire' = before \o <<Ack>> \o between \o frame
  BY <1>1
<1>3. frame \in Arriving(answer')
  BY <1>2 DEF Arriving
<1>4. pc' = "ack" /\ UNCHANGED <<length, result>>
  BY DEF Request
<1> QED BY <1>2, <1>3, <1>4

-----------------------------------------------------------------------------
(* Types *)

LEMMA TypeInvariance == Init /\ [][Next]_vars => []TypeOK
<1>1. Init => TypeOK
  <2> SUFFICES ASSUME Init
               PROVE  TypeOK
    OBVIOUS
  <2>1. answer \in Messages /\ \A msg \in result : IsMessage(msg)
    BY FrameAssumption DEF Init
  <2>2. wire \in Seq(Byte) /\ damaged \in BOOLEAN
    <3>1. wire = <<>> /\ damaged = FALSE
      BY DEF Init
    <3>2. <<>> \in Seq(Byte)
      BY EmptySeq
    <3> QED BY <3>1, <3>2
  <2>3. pc \in {"idle", "ack", "length", "rest"} /\ length \in 0 .. 12
    BY DEF Init
  <2> QED BY <2>1, <2>2, <2>3 DEF TypeOK
<1>2. TypeOK /\ [Next]_vars => TypeOK'
  <2> SUFFICES ASSUME TypeOK, [Next]_vars
               PROVE  TypeOK'
    OBVIOUS
  <2> USE DEF TypeOK
  <2>1. CASE Request
    <3>1. PICK frame \in Arriving(answer'), before \in Pads, between \in Pads :
            /\ damaged' = (frame # Serialise(answer'))
            /\ wire' = before \o <<Ack>> \o between \o frame
      BY <2>1, RequestPuts
    <3>2. answer' \in Messages /\ pc' = "ack" /\ UNCHANGED <<length, result>>
      BY <2>1, RequestPuts
    <3>3. /\ before \in Seq(Byte) /\ between \in Seq(Byte) /\ frame \in Seq(Byte)
          /\ <<Ack>> \in Seq(Byte)
      <4>1. Ack \in Byte
        BY DEF Ack, Byte
      <4> QED BY <3>2, <4>1, PadsAreBytes, ArrivingFrame
    <3>4. wire' \in Seq(Byte)
      BY <3>1, <3>3
    <3> QED BY <3>1, <3>2, <3>4
  <2>2. CASE AwaitAck
    BY <2>2 DEF AwaitAck
  <2>3. CASE AwaitLength
    <3>1. wire' \in Seq(Byte)
      BY <2>3 DEF AwaitLength
    <3>2. length' \in 0 .. 12 /\ pc' \in {"length", "rest"}
      BY <2>3 DEF AwaitLength, IsLength
    <3> QED BY <2>3, <3>1, <3>2 DEF AwaitLength
  <2>4. CASE LengthTimeout
    BY <2>4 DEF LengthTimeout, Refused
  <2>5. CASE TakeRest
    <3>1. length \in Nat /\ Len(wire) \in Nat /\ Len(wire) > length /\ length \in Byte
      BY <2>5 DEF TakeRest, Byte
    <3>2. SubSeq(wire, 1, length + 1) \in Seq(Byte) /\ wire' \in Seq(Byte)
      BY <2>5, <3>1 DEF TakeRest
    <3>3. <<length>> \o SubSeq(wire, 1, length + 1) \in Seq(Byte)
      BY <3>1, <3>2
    <3>4. \A msg \in result' : IsMessage(msg)
      BY <2>5, <3>3, DeserialisedIsMessage DEF TakeRest
    <3> QED BY <2>5, <3>2, <3>4 DEF TakeRest
  <2>6. CASE Incomplete
    BY <2>6 DEF Incomplete, Refused
  <2>7. CASE UNCHANGED vars
    BY <2>7 DEF vars
  <2> QED BY <2>1, <2>2, <2>3, <2>4, <2>5, <2>6, <2>7 DEF Next
<1> QED BY <1>1, <1>2, PTL

\* The bytes still to be read are bytes, lenByte a length, and what a read gets is a
\* message, in every reachable state.
THEOREM TypeCorrect == Spec => []TypeOK
BY TypeInvariance DEF Spec

-----------------------------------------------------------------------------
(* Reads, behind padding that is no length *)

\* A frame that is still to be found on the wire, and the ACK before it.
Ahead(frame) ==
  \E q \in Seq(Byte) :
    /\ wire = q \o frame /\ NoLength(q)
    /\ pc = "ack" => \E i \in 1 .. Len(q) : q[i] = Ack

\* The inductive invariant: where the frame of the present answer is, and that what
\* the last read got is what became of its answer.
ReadInv ==
  /\ answer \in Messages
  /\ pc \in {"idle", "ack", "length", "rest"}
  /\ pc = "idle" => result = IF damaged THEN Refused ELSE {answer}
  /\ pc # "idle" =>
       \E frame \in Arriving(answer) :
         /\ damaged = (frame # Serialise(answer))
         /\ pc \in {"ack", "length"} => Ahead(frame)
         /\ pc = "rest" => frame # <<>> /\ length = frame[1] /\ wire = Tail(frame)

LEMMA RequestReads ==
  ASSUME PaddingIsNoLength, Request
  PROVE  ReadInv'
<1>1. PICK frame \in Arriving(answer'), before \in Pads, between \in Pads :
        /\ damaged' = (frame # Serialise(answer'))
        /\ wire' = before \o <<Ack>> \o between \o frame
  BY RequestPuts
<1>2. answer' \in Messages /\ pc' = "ack"
  BY RequestPuts
<1> DEFINE q == before \o <<Ack>> \o between
<1>3. /\ before \in Seq(Byte) /\ NoLength(before)
      /\ between \in Seq(Byte) /\ NoLength(between)
  BY PadsAreBytes
<1>4. /\ q \in Seq(Byte) /\ Len(q) = Len(before) + 1 + Len(between)
      /\ \A i \in 1 .. Len(q) :
           q[i] = IF i <= Len(before) THEN before[i]
                  ELSE IF i = Len(before) + 1 THEN Ack
                  ELSE between[i - Len(before) - 1]
  BY <1>3 DEF Byte, Ack
<1>5. Len(before) \in Nat /\ Len(between) \in Nat
  BY <1>3
<1>6. NoLength(q)
  <2> SUFFICES ASSUME NEW i \in 1 .. Len(q)
               PROVE  ~IsLength(q[i])
    BY DEF NoLength
  <2>1. CASE i <= Len(before)
    BY <1>3, <1>4, <1>5, <2>1 DEF NoLength
  <2>2. CASE i = Len(before) + 1
    BY <1>4, <1>5, <2>2 DEF IsLength, Ack
  <2>3. CASE i > Len(before) + 1
    <3>1. i - Len(before) - 1 \in 1 .. Len(between)
      BY <1>4, <1>5, <2>3
    <3>2. q[i] = between[i - Len(before) - 1]
      BY <1>4, <1>5, <2>3
    <3> QED BY <1>3, <3>1, <3>2 DEF NoLength
  <2> QED BY <1>5, <2>1, <2>2, <2>3
<1>7. \E i \in 1 .. Len(q) : q[i] = Ack
  <2>1. Len(before) + 1 \in 1 .. Len(q)
    BY <1>4, <1>5
  <2> QED BY <1>4, <1>5, <2>1
<1>8. wire' = q \o frame
  BY <1>1
<1> HIDE DEF q
<1>9. Ahead(frame)'
  BY <1>4, <1>6, <1>7, <1>8 DEF Ahead
<1> QED BY <1>1, <1>2, <1>9 DEF ReadInv

LEMMA AckReads ==
  ASSUME ReadInv, AwaitAck
  PROVE  ReadInv'
<1>1. /\ UNCHANGED <<answer, damaged, length, result>> /\ pc = "ack"
      /\ pc' \in {"ack", "length"} /\ wire' = Tail(wire)
  BY DEF AwaitAck
<1>2. PICK frame \in Arriving(answer) :
        damaged = (frame # Serialise(answer)) /\ Ahead(frame)
  BY <1>1 DEF ReadInv
<1>3. PICK q \in Seq(Byte) :
        wire = q \o frame /\ NoLength(q) /\ \E i \in 1 .. Len(q) : q[i] = Ack
  BY <1>1, <1>2 DEF Ahead
<1>4. q # <<>> /\ frame \in Seq(Byte)
  <2>1. q # <<>>
    BY <1>3
  <2> QED BY <2>1, ArrivingFrame DEF ReadInv
<1>5. /\ Head(wire) = q[1] /\ Tail(q) \in Seq(Byte) /\ wire' = Tail(q) \o frame
      /\ Len(Tail(q)) = Len(q) - 1 /\ Len(q) \in Nat \ {0}
      /\ \A i \in 1 .. Len(q) - 1 : Tail(q)[i] = q[i + 1]
  BY <1>1, <1>3, <1>4, TailOfFirst
<1>6. NoLength(Tail(q))
  BY <1>3, <1>5 DEF NoLength
<1>7. ASSUME pc' = "ack"
      PROVE  \E i \in 1 .. Len(Tail(q)) : Tail(q)[i] = Ack
  <2>1. q[1] # Ack
    BY <1>5, <1>7 DEF AwaitAck
  <2>2. PICK i \in 1 .. Len(q) : q[i] = Ack
    BY <1>3
  <2>3. i - 1 \in 1 .. Len(q) - 1 /\ (i - 1) + 1 = i
    BY <1>5, <2>1, <2>2
  <2>4. Tail(q)[i - 1] = Ack
    BY <1>5, <2>2, <2>3
  <2> QED BY <1>5, <2>3, <2>4
<1>8. Ahead(frame)'
  BY <1>5, <1>6, <1>7 DEF Ahead
<1> QED BY <1>1, <1>2, <1>8 DEF ReadInv

LEMMA LengthReads ==
  ASSUME ReadInv, AwaitLength
  PROVE  ReadInv'
<1>1. /\ UNCHANGED <<answer, damaged, result>> /\ pc = "length"
      /\ pc' \in {"length", "rest"} /\ wire' = Tail(wire) /\ wire # <<>>
  BY DEF AwaitLength
<1>2. PICK frame \in Arriving(answer) :
        damaged = (frame # Serialise(answer)) /\ Ahead(frame)
  BY <1>1 DEF ReadInv
<1>3. PICK q \in Seq(Byte) : wire = q \o frame /\ NoLength(q)
  BY <1>2 DEF Ahead
<1>4. frame \in Seq(Byte) /\ (frame # <<>> => frame[1] \in 4 .. 12)
  BY ArrivingFrame DEF ReadInv
<1>5. CASE q = <<>>
  <2>1. wire = frame /\ frame # <<>> /\ Head(wire) = frame[1]
    BY <1>1, <1>3, <1>4, <1>5
  <2>2. pc' = "rest" /\ length' = frame[1] /\ wire' = Tail(frame)
    BY <1>1, <1>4, <2>1 DEF AwaitLength, IsLength
  <2> QED BY <1>1, <1>2, <2>1, <2>2 DEF ReadInv
<1>6. CASE q # <<>>
  <2>1. /\ Head(wire) = q[1] /\ Tail(q) \in Seq(Byte) /\ wire' = Tail(q) \o frame
        /\ Len(Tail(q)) = Len(q) - 1 /\ Len(q) \in Nat \ {0}
        /\ \A i \in 1 .. Len(q) - 1 : Tail(q)[i] = q[i + 1]
    BY <1>1, <1>3, <1>4, <1>6, TailOfFirst
  <2>2. ~IsLength(Head(wire)) /\ NoLength(Tail(q))
    BY <1>3, <2>1 DEF NoLength
  <2>3. pc' = "length"
    BY <1>1, <2>2 DEF AwaitLength
  <2>4. Ahead(frame)'
    BY <2>1, <2>2, <2>3 DEF Ahead
  <2> QED BY <1>1, <1>2, <2>3, <2>4 DEF ReadInv
<1> QED BY <1>5, <1>6

\* No length byte comes only if the frame has none.
LEMMA LengthTimeoutReads ==
  ASSUME ReadInv, LengthTimeout
  PROVE  ReadInv'
<1>1. /\ UNCHANGED <<wire, answer, damaged, length>> /\ pc = "length" /\ wire = <<>>
      /\ pc' = "idle" /\ result' = Refused
  BY DEF LengthTimeout
<1>2. PICK frame \in Arriving(answer) :
        damaged = (frame # Serialise(answer)) /\ Ahead(frame)
  BY <1>1 DEF ReadInv
<1>3. PICK q \in Seq(Byte) : wire = q \o frame
  BY <1>2 DEF Ahead
<1>4. frame \in Seq(Byte) /\ Serialise(answer) # <<>>
  BY ArrivingFrame, FrameLength DEF ReadInv
<1>5. frame = <<>>
  BY <1>1, <1>3, <1>4
<1> QED BY <1>1, <1>2, <1>4, <1>5 DEF ReadInv

LEMMA RestReads ==
  ASSUME ReadInv, TakeRest \/ Incomplete
  PROVE  ReadInv'
<1>1. UNCHANGED <<answer, damaged, length>> /\ pc = "rest" /\ pc' = "idle"
  BY DEF TakeRest, Incomplete
<1>2. PICK frame \in Arriving(answer) :
        /\ damaged = (frame # Serialise(answer))
        /\ frame # <<>> /\ length = frame[1] /\ wire = Tail(frame)
  BY <1>1 DEF ReadInv
<1>3. /\ frame \in Seq(Byte) /\ frame[1] \in 4 .. 12
      /\ Len(frame) = frame[1] + 2 => Deserialise(frame) = Received(frame, answer)
      /\ Len(frame) # frame[1] + 2 => Len(frame) < frame[1] + 2 /\ frame # Serialise(answer)
  BY <1>2, ArrivingFrame DEF ReadInv
<1>4. Len(wire) = Len(frame) - 1 /\ Len(frame) \in Nat /\ length \in Nat
  BY <1>2, <1>3
<1>5. CASE TakeRest
  <2>1. Len(frame) = frame[1] + 2 /\ Len(Tail(frame)) = frame[1] + 1
    BY <1>2, <1>3, <1>4, <1>5 DEF TakeRest
  <2>2. <<length>> \o SubSeq(wire, 1, length + 1) = frame
    BY <1>2, <1>3, <1>4, <2>1, FrameWhole
  <2>3. result' = Received(frame, answer)
    BY <1>3, <1>5, <2>1, <2>2 DEF TakeRest
  <2> QED BY <1>1, <1>2, <2>3 DEF ReadInv, Received
<1>6. CASE Incomplete
  <2>1. frame # Serialise(answer) /\ result' = Refused
    BY <1>2, <1>3, <1>4, <1>6 DEF Incomplete
  <2> QED BY <1>1, <1>2, <2>1 DEF ReadInv
<1> QED BY <1>5, <1>6

LEMMA ReadInvariance ==
  ASSUME PaddingIsNoLength
  PROVE  Spec => []ReadInv
<1>1. Init => ReadInv
  BY DEF Init, ReadInv
<1>2. ReadInv /\ [Next]_vars => ReadInv'
  <2> SUFFICES ASSUME ReadInv, [Next]_vars
               PROVE  ReadInv'
    OBVIOUS
  <2>1. CASE UNCHANGED vars
    BY <2>1 DEF vars, ReadInv, Ahead
  <2> QED BY <2>1, RequestReads, AckReads, LengthReads, LengthTimeoutReads, RestReads DEF Next
<1> QED BY <1>1, <1>2, PTL DEF Spec

\* A read gets the drive's answer whatever padding precedes it and its ACK, for
\* padding bytes that are no length; 0x0A, which is one, is what this leaves out.
THEOREM PaddingSkipped ==
  ASSUME PaddingIsNoLength
  PROVE  Spec => []PaddingIsSkipped
<1>1. ReadInv => PaddingIsSkipped
  BY DEF ReadInv, PaddingIsSkipped
<1> QED BY <1>1, ReadInvariance, PTL

\* A read whose answer does not arrive as it was sent fails, behind such padding: a
\* changed byte is refused by its checksum, a frame cut short times out, and neither
\* is taken for another message.
THEOREM DamagedRefused ==
  ASSUME PaddingIsNoLength
  PROVE  Spec => []DamagedIsRefused
<1>1. ReadInv => DamagedIsRefused
  BY DEF ReadInv, DamagedIsRefused
<1> QED BY <1>1, ReadInvariance, PTL

=============================================================================
