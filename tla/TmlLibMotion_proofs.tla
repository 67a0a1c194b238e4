------------------------ MODULE TmlLibMotion_proofs ------------------------
(***************************************************************************)
(* A motion inherits from earlier commands only the speed or acceleration  *)
(* its own command left out, as zero (TmlLib), for any number of axes and  *)
(* commands, with one controller and one setup file, which says where the  *)
(* drives have their registers.                                            *)
(*                                                                         *)
(* The argument: in front of an UPD! that a handler still has to send, or  *)
(* already written by it, are all the settings the UPD! puts in force but  *)
(* the ones left out (PlanInv); a message that fails takes the UPD! with   *)
(* it.                                                                     *)
(***************************************************************************)
EXTENDS TmlLib_proofs

\* The setup file is the one of the drives' firmware.
SetupOfFirmware ==
  \A d \in Drives, n \in ByName :
    n \in DOMAIN ZipVariables[d] /\ Firmware[d][n] = ZipVariables[d][n]

NoMotion(s) == \A i \in 1 .. Len(s) : s[i] \notin MotionMessages

Before(s, i, m) == \E j \in 1 .. i - 1 : s[j] = m

\* The settings other than the mode that a motion of a mode uses.
Needed(m) == IF m = "SP1" THEN {"CACC", "CSPD"} ELSE Settings \ {"MODE"}

\* The step at i follows all the settings of mode m that the command does not leave
\* out, and no other mode's.
Planned(s, omit, i, m) ==
  /\ \A n \in (Needed(m) \ omit) \cup {m} : Before(s, i, n)
  /\ \A j \in 1 .. i - 1 : s[j] \in Modes => s[j] = m

PlannedJob(s, omit) ==
  \A i \in 1 .. Len(s) : s[i] = "UPD" => \E m \in Modes : Planned(s, omit, i, m)

-----------------------------------------------------------------------------
(* The handlers are planned *)

LEMMA NoMotionConcat ==
  ASSUME NEW s \in Seq(Steps), NEW r \in Seq(Steps), NoMotion(s), NoMotion(r)
  PROVE  s \o r \in Seq(Steps) /\ NoMotion(s \o r)
<1>1. /\ s \o r \in Seq(Steps) /\ Len(s \o r) = Len(s) + Len(r)
      /\ \A i \in 1 .. Len(s) + Len(r) :
           (s \o r)[i] = IF i <= Len(s) THEN s[i] ELSE r[i - Len(s)]
  OBVIOUS
<1>2. ASSUME NEW i \in 1 .. Len(s \o r)
      PROVE  (s \o r)[i] \notin MotionMessages
  <2>1. CASE i <= Len(s)
    BY <1>1, <2>1 DEF NoMotion
  <2>2. CASE i > Len(s)
    <3>1. i - Len(s) \in 1 .. Len(r)
      BY <1>1, <2>2
    <3> QED BY <1>1, <2>2, <3>1 DEF NoMotion
  <2> QED BY <1>1, <2>1, <2>2
<1> QED BY <1>1, <1>2 DEF NoMotion

LEMMA NoMotionPlanned ==
  ASSUME NEW s, NEW omit, NoMotion(s)
  PROVE  PlannedJob(s, omit)
BY DEF NoMotion, PlannedJob, MotionMessages

LEMMA PlannedBefore ==
  ASSUME NEW s \in Seq(Steps), NEW r \in Seq(Steps), NEW omit,
         PlannedJob(s, omit), NoMotion(r)
  PROVE  s \o r \in Seq(Steps) /\ PlannedJob(s \o r, omit)
<1>1. /\ s \o r \in Seq(Steps) /\ Len(s \o r) = Len(s) + Len(r)
      /\ \A i \in 1 .. Len(s) + Len(r) :
           (s \o r)[i] = IF i <= Len(s) THEN s[i] ELSE r[i - Len(s)]
  OBVIOUS
<1>2. ASSUME NEW i \in 1 .. Len(s \o r), (s \o r)[i] = "UPD"
      PROVE  \E m \in Modes : Planned(s \o r, omit, i, m)
  <2>1. i <= Len(s)
    <3>1. SUFFICES ASSUME i > Len(s)
                   PROVE  FALSE
      BY <1>1
    <3>2. i - Len(s) \in 1 .. Len(r) /\ r[i - Len(s)] = "UPD"
      BY <1>1, <1>2, <3>1
    <3> QED BY <3>2 DEF NoMotion, MotionMessages
  <2>2. PICK m \in Modes : Planned(s, omit, i, m)
    BY <1>1, <1>2, <2>1 DEF PlannedJob
  <2>3. \A j \in 1 .. i - 1 : (s \o r)[j] = s[j]
    BY <1>1, <2>1
  <2>4. Planned(s \o r, omit, i, m)
    BY <2>2, <2>3 DEF Planned, Before
  <2> QED BY <2>4
<1> QED BY <1>1, <1>2 DEF PlannedJob

LEMMA PlannedAfter ==
  ASSUME NEW s \in Seq(Steps), NEW r \in Seq(Steps), NEW omit,
         NoMotion(s), PlannedJob(r, omit)
  PROVE  s \o r \in Seq(Steps) /\ PlannedJob(s \o r, omit)
<1>1. /\ s \o r \in Seq(Steps) /\ Len(s \o r) = Len(s) + Len(r)
      /\ \A i \in 1 .. Len(s) + Len(r) :
           (s \o r)[i] = IF i <= Len(s) THEN s[i] ELSE r[i - Len(s)]
  OBVIOUS
<1>2. ASSUME NEW i \in 1 .. Len(s \o r), (s \o r)[i] = "UPD"
      PROVE  \E m \in Modes : Planned(s \o r, omit, i, m)
  <2>1. i > Len(s)
    <3>1. SUFFICES ASSUME i <= Len(s)
                   PROVE  FALSE
      BY <1>1
    <3>2. i \in 1 .. Len(s) /\ s[i] = "UPD"
      BY <1>1, <1>2, <3>1
    <3> QED BY <3>2 DEF NoMotion, MotionMessages
  <2> DEFINE k == i - Len(s)
  <2>2. k \in 1 .. Len(r) /\ r[k] = "UPD" /\ Len(s) \in Nat
    BY <1>1, <1>2, <2>1
  <2>3. PICK m \in Modes : Planned(r, omit, k, m)
    BY <2>2 DEF PlannedJob
  <2>4. ASSUME NEW n \in (Needed(m) \ omit) \cup {m}
        PROVE  Before(s \o r, i, n)
    <3>1. PICK j \in 1 .. k - 1 : r[j] = n
      BY <2>3 DEF Planned, Before
    <3>2. /\ j + Len(s) \in 1 .. i - 1 /\ j + Len(s) > Len(s)
          /\ j + Len(s) \in 1 .. Len(s) + Len(r) /\ (j + Len(s)) - Len(s) = j
      BY <1>1, <2>2
    <3>3. (s \o r)[j + Len(s)] = n
      BY <1>1, <3>1, <3>2
    <3> QED BY <3>2, <3>3 DEF Before
  <2>5. ASSUME NEW j \in 1 .. i - 1, (s \o r)[j] \in Modes
        PROVE  (s \o r)[j] = m
    <3>1. CASE j <= Len(s)
      <4>1. s[j] \in Modes /\ j \in 1 .. Len(s)
        BY <1>1, <2>5, <3>1
      <4> QED BY <4>1 DEF NoMotion, MotionMessages
    <3>2. CASE j > Len(s)
      <4>1. j - Len(s) \in 1 .. k - 1 /\ (s \o r)[j] = r[j - Len(s)]
        BY <1>1, <2>2, <3>2
      <4> QED BY <2>3, <2>5, <4>1 DEF Planned
    <3> QED BY <3>1, <3>2, <2>2
  <2> QED BY <2>3, <2>4, <2>5 DEF Planned
<1> QED BY <1>1, <1>2 DEF PlannedJob

\* Under one lock, with powerOn() or not.
LEMMA LockedPlanned ==
  ASSUME NEW s \in Seq(Messages), NEW power \in {<<>>, Power}, NEW omit
  PROVE  /\ Locked(power \o s) \in Seq(Steps)
         /\ PlannedJob(s, omit) => PlannedJob(Locked(power \o s), omit)
         /\ NoMotion(s) => NoMotion(Locked(s)) /\ NoMotion(Attempted(s))
<1> DEFINE select == <<"lock", "select", "axis">>
           attempt == <<"lock", "attempt", "axis">>
           unlock == <<"unlock">>
<1>1. /\ select \in Seq(Steps) /\ attempt \in Seq(Steps) /\ unlock \in Seq(Steps)
      /\ power \in Seq(Steps) /\ s \in Seq(Steps)
  <2>1. s \in Seq(Steps)
    BY DEF Steps
  <2>2. select \in Seq(Steps) /\ attempt \in Seq(Steps) /\ unlock \in Seq(Steps)
    BY DEF Steps, Calls
  <2>3. Power \in Seq(Steps) /\ <<>> \in Seq(Steps)
    BY DEF Steps, Calls, Power, Messages
  <2> QED BY <2>1, <2>2, <2>3
<1>2. NoMotion(select) /\ NoMotion(attempt) /\ NoMotion(unlock) /\ NoMotion(power)
  BY DEF NoMotion, MotionMessages, ByName, Modes, Power
<1>3. Locked(power \o s) = (select \o (power \o s)) \o unlock
  BY DEF Locked
<1>4. Locked(s) = (select \o s) \o unlock /\ Attempted(s) = (attempt \o s) \o unlock
  BY DEF Locked, Attempted
<1> HIDE DEF select, attempt, unlock
<1>5. Locked(power \o s) \in Seq(Steps)
  BY <1>1, <1>3
<1>6. ASSUME PlannedJob(s, omit)
      PROVE  PlannedJob(Locked(power \o s), omit)
  <2>1. power \o s \in Seq(Steps) /\ PlannedJob(power \o s, omit)
    BY <1>1, <1>2, <1>6, PlannedAfter
  <2>2. select \o (power \o s) \in Seq(Steps) /\ PlannedJob(select \o (power \o s), omit)
    BY <1>1, <1>2, <2>1, PlannedAfter
  <2> DEFINE q == select \o (power \o s)
  <2>3. q \in Seq(Steps) /\ PlannedJob(q, omit)
    BY <2>2
  <2> HIDE DEF q
  <2>4. PlannedJob(q \o unlock, omit)
    BY <1>1, <1>2, <2>3, PlannedBefore
  <2> QED BY <1>3, <2>4 DEF q
<1>7. ASSUME NoMotion(s)
      PROVE  NoMotion(Locked(s)) /\ NoMotion(Attempted(s))
  <2>1. /\ select \o s \in Seq(Steps) /\ NoMotion(select \o s)
        /\ attempt \o s \in Seq(Steps) /\ NoMotion(attempt \o s)
    BY <1>1, <1>2, <1>7, NoMotionConcat
  <2> QED BY <1>1, <1>2, <1>4, <2>1, NoMotionConcat
<1> QED BY <1>5, <1>6, <1>7

\* No other handler has a motion message.
LEMMA OtherJobs ==
  \A job \in {OpenJob, InitJob, PollJob, StopJob, StopHomingJob, ZeroJob, SetPositionJob, MerJob,
              PowerJob, <<>>} :
    job \in Seq(Steps) /\ NoMotion(job)
<1>1. NoMotion(OpenJob) /\ NoMotion(InitJob) /\ NoMotion(<<>>)
  BY DEF NoMotion, OpenJob, InitJob, MotionMessages, ByName, Modes
<1>2. /\ <<"ENABLE_OFF">> \in Seq(Messages) /\ <<"STOP", "EVENTS">> \in Seq(Messages)
      /\ <<"SAP", "EVENTS">> \in Seq(Messages) /\ <<"MER">> \in Seq(Messages)
      /\ <<"POWER">> \in Seq(Messages) /\ <<"STOP">> \in Seq(Messages)
      /\ <<"SAP">> \in Seq(Messages)
  BY DEF Messages
<1>3. /\ NoMotion(<<"ENABLE_OFF">>) /\ NoMotion(<<"STOP", "EVENTS">>) /\ NoMotion(<<"MER">>)
      /\ NoMotion(<<"SAP", "EVENTS">>) /\ NoMotion(<<"POWER">>) /\ NoMotion(<<"STOP">>)
      /\ NoMotion(<<"SAP">>)
  BY DEF NoMotion, MotionMessages, ByName, Modes
<1>4. /\ NoMotion(PollJob) /\ NoMotion(StopJob) /\ NoMotion(StopHomingJob) /\ NoMotion(ZeroJob)
      /\ NoMotion(SetPositionJob) /\ NoMotion(MerJob) /\ NoMotion(PowerJob)
  BY <1>2, <1>3, LockedPlanned
     DEF PollJob, StopJob, StopHomingJob, ZeroJob, SetPositionJob, MerJob, PowerJob
<1> QED BY <1>1, <1>4, JobsAreLegal DEF Job, Legal, Chain

Holds(s, n) == \E j \in 1 .. Len(s) : s[j] = n

LEMMA HoldsConcat ==
  ASSUME NEW s \in Seq(Steps), NEW r \in Seq(Steps), NEW n
  PROVE  s \o r \in Seq(Steps) /\ (Holds(s \o r, n) <=> Holds(s, n) \/ Holds(r, n))
<1>1. /\ s \o r \in Seq(Steps) /\ Len(s \o r) = Len(s) + Len(r)
      /\ Len(s) \in Nat /\ Len(r) \in Nat
      /\ \A i \in 1 .. Len(s) + Len(r) :
           (s \o r)[i] = IF i <= Len(s) THEN s[i] ELSE r[i - Len(s)]
  OBVIOUS
<1>2. ASSUME Holds(s \o r, n)
      PROVE  Holds(s, n) \/ Holds(r, n)
  <2>1. PICK j \in 1 .. Len(s) + Len(r) : (s \o r)[j] = n
    BY <1>1, <1>2 DEF Holds
  <2>2. j <= Len(s) => j \in 1 .. Len(s) /\ s[j] = n
    BY <1>1, <2>1
  <2>3. j > Len(s) => j - Len(s) \in 1 .. Len(r) /\ r[j - Len(s)] = n
    BY <1>1, <2>1
  <2> QED BY <1>1, <2>2, <2>3 DEF Holds
<1>3. ASSUME Holds(s, n)
      PROVE  Holds(s \o r, n)
  <2>1. PICK j \in 1 .. Len(s) : s[j] = n
    BY <1>3 DEF Holds
  <2>2. j \in 1 .. Len(s \o r) /\ (s \o r)[j] = n
    BY <1>1, <2>1
  <2> QED BY <2>2 DEF Holds
<1>4. ASSUME Holds(r, n)
      PROVE  Holds(s \o r, n)
  <2>1. PICK j \in 1 .. Len(r) : r[j] = n
    BY <1>4 DEF Holds
  <2>2. /\ j + Len(s) \in 1 .. Len(s) + Len(r) /\ j + Len(s) > Len(s)
        /\ (j + Len(s)) - Len(s) = j
    BY <1>1, <2>1
  <2>3. (s \o r)[j + Len(s)] = n
    BY <1>1, <2>1, <2>2
  <2> QED BY <1>1, <2>2, <2>3 DEF Holds
<1> QED BY <1>1, <1>2, <1>3, <1>4

\* What comes first in a profile (p), and the rest (r) with its UPD! at k.
LEMMA PlannedPrefix ==
  ASSUME NEW p \in Seq(Steps), NEW r \in Seq(Steps), NEW omit, NEW m \in Modes, NEW k \in 1 .. Len(r),
         \A n \in Modes \cup {"UPD"} : ~Holds(p, n),
         \A i \in 1 .. Len(r) : r[i] = "UPD" => i = k,
         \A n \in (Needed(m) \ omit) \cup {m} : Holds(p, n) \/ Before(r, k, n),
         \A j \in 1 .. k - 1 : r[j] \in Modes => r[j] = m
  PROVE  PlannedJob(p \o r, omit)
<1>1. /\ Len(p \o r) = Len(p) + Len(r) /\ Len(p) \in Nat /\ Len(r) \in Nat
      /\ \A i \in 1 .. Len(p) + Len(r) :
           (p \o r)[i] = IF i <= Len(p) THEN p[i] ELSE r[i - Len(p)]
  OBVIOUS
<1>2. SUFFICES ASSUME NEW i \in 1 .. Len(p) + Len(r), (p \o r)[i] = "UPD"
               PROVE  Planned(p \o r, omit, i, m)
  BY <1>1 DEF PlannedJob
<1>3. i = k + Len(p)
  <2>1. ~(i <= Len(p))
    BY <1>1, <1>2 DEF Holds
  <2>2. i - Len(p) \in 1 .. Len(r) /\ r[i - Len(p)] = "UPD"
    BY <1>1, <1>2, <2>1
  <2>3. i - Len(p) = k
    BY <2>2
  <2> QED BY <1>1, <2>3
<1>4. ASSUME NEW n \in (Needed(m) \ omit) \cup {m}
      PROVE  Before(p \o r, i, n)
  <2>1. CASE Holds(p, n)
    <3>1. PICK j \in 1 .. Len(p) : p[j] = n
      BY <2>1 DEF Holds
    <3>2. j \in 1 .. i - 1 /\ (p \o r)[j] = n
      BY <1>1, <1>3, <3>1
    <3> QED BY <3>2 DEF Before
  <2>2. CASE Before(r, k, n)
    <3>1. PICK j \in 1 .. k - 1 : r[j] = n
      BY <2>2 DEF Before
    <3>2. /\ j + Len(p) \in 1 .. i - 1 /\ j + Len(p) > Len(p)
          /\ j + Len(p) \in 1 .. Len(p) + Len(r) /\ (j + Len(p)) - Len(p) = j
      BY <1>1, <1>3
    <3>3. (p \o r)[j + Len(p)] = n
      BY <1>1, <3>1, <3>2
    <3> QED BY <3>2, <3>3 DEF Before
  <2> QED BY <1>4, <2>1, <2>2
<1>5. ASSUME NEW j \in 1 .. i - 1, (p \o r)[j] \in Modes
      PROVE  (p \o r)[j] = m
  <2>1. CASE j <= Len(p)
    <3>1. j \in 1 .. Len(p) /\ p[j] \in Modes
      BY <1>1, <1>5, <2>1
    <3> QED BY <3>1 DEF Holds
  <2>2. CASE j > Len(p)
    <3>1. j - Len(p) \in 1 .. k - 1 /\ (p \o r)[j] = r[j - Len(p)]
      BY <1>1, <1>3, <2>2
    <3> QED BY <1>5, <3>1
  <2> QED BY <1>1, <2>1, <2>2
<1> QED BY <1>4, <1>5 DEF Planned

\* A setting that a profile writes unless it is left out.
LEMMA UnlessHolds ==
  ASSUME NEW omit, NEW n \in {"CACC", "CSPD"}
  PROVE  /\ Unless(omit, n) \in Seq(Steps)
         /\ n \notin omit => Holds(Unless(omit, n), n)
         /\ \A a : Holds(Unless(omit, n), a) => a = n
<1>1. <<>> \in Seq(Steps) /\ <<n>> \in Seq(Steps)
  <2>1. n \in Steps
    BY DEF Steps, Messages, MotionMessages, ByName
  <2> QED BY <2>1, EmptySeq
<1>2. \A a : ~Holds(<<>>, a)
  BY EmptySeq DEF Holds
<1>3. Holds(<<n>>, n) /\ \A a : Holds(<<n>>, a) => a = n
  BY DEF Holds
<1> QED BY <1>1, <1>2, <1>3 DEF Unless

LEMMA MessagesArePlanned ==
  /\ \A omit \in MoveOmissions : PlannedJob(MoveMessages(omit), omit)
  /\ \A omit \in JogOmissions : PlannedJob(JogMessages(omit), omit)
  /\ PlannedJob(HomeMessages, {})
<1> DEFINE e == <<"EVENTS">>
<1>1. e \in Seq(Steps) /\ \A a : Holds(e, a) => a = "EVENTS"
  BY DEF Steps, Messages, Holds
<1>2. \A a \in Modes \cup {"UPD"} : a \notin {"EVENTS", "CACC", "CSPD"}
  BY DEF Modes
<1> HIDE DEF e
<1>3. ASSUME NEW omit \in MoveOmissions
      PROVE  PlannedJob(MoveMessages(omit), omit)
  <2> DEFINE a == Unless(omit, "CACC")
             b == Unless(omit, "CSPD")
             r == <<"CPOS", "REF", "PP3", "TUM", "UPD", "EVENTS">>
             k == 5
  <2>1. /\ a \in Seq(Steps) /\ b \in Seq(Steps)
        /\ ("CACC" \notin omit => Holds(a, "CACC")) /\ ("CSPD" \notin omit => Holds(b, "CSPD"))
        /\ \A n : (Holds(a, n) => n = "CACC") /\ (Holds(b, n) => n = "CSPD")
    BY UnlessHolds
  <2>2. /\ r \in Seq(Steps) /\ k \in 1 .. Len(r)
        /\ \A i \in 1 .. Len(r) : r[i] = "UPD" => i = k
        /\ \A j \in 1 .. k - 1 : r[j] \in Modes => r[j] = "PP3"
    BY DEF Steps, Messages, MotionMessages, ByName, Modes
  <2>3. \A n \in {"CPOS", "REF", "PP3", "TUM"} : Before(r, k, n)
    <3>1. r[1] = "CPOS" /\ r[2] = "REF" /\ r[3] = "PP3" /\ r[4] = "TUM"
      OBVIOUS
    <3>2. 1 \in 1 .. k - 1 /\ 2 \in 1 .. k - 1 /\ 3 \in 1 .. k - 1 /\ 4 \in 1 .. k - 1
      OBVIOUS
    <3> QED BY <3>1, <3>2 DEF Before
  <2>4. MoveMessages(omit) = ((e \o a) \o b) \o r
    BY DEF MoveMessages, e
  <2> HIDE DEF a, b, r, k
  <2> DEFINE p == (e \o a) \o b
  <2>5. p \in Seq(Steps) /\ \A n : Holds(p, n) <=> Holds(e, n) \/ Holds(a, n) \/ Holds(b, n)
    <3>1. e \o a \in Seq(Steps) /\ \A n : Holds(e \o a, n) <=> Holds(e, n) \/ Holds(a, n)
      BY <1>1, <2>1, HoldsConcat
    <3>2. p \in Seq(Steps) /\ \A n : Holds(p, n) <=> Holds(e \o a, n) \/ Holds(b, n)
      BY <2>1, <3>1, HoldsConcat
    <3> QED BY <3>1, <3>2
  <2> HIDE DEF p
  <2>6. \A n \in Modes \cup {"UPD"} : ~Holds(p, n)
    BY <1>1, <1>2, <2>1, <2>5
  <2>7. \A n \in (Needed("PP3") \ omit) \cup {"PP3"} : Holds(p, n) \/ Before(r, k, n)
    <3>1. (Needed("PP3") \ omit) \cup {"PP3"} \subseteq
            {"CPOS", "REF", "PP3", "TUM"} \cup ({"CACC", "CSPD"} \ omit)
      BY DEF Needed, Settings, ByName
    <3>2. \A n \in {"CACC", "CSPD"} \ omit : Holds(p, n)
      BY <2>1, <2>5
    <3> QED BY <2>3, <3>1, <3>2
  <2>8. "PP3" \in Modes
    BY DEF Modes
  <2>9. p \in Seq(Steps)
    BY <2>5
  <2>10. PlannedJob(p \o r, omit)
    BY <2>2, <2>6, <2>7, <2>8, <2>9, PlannedPrefix
  <2> QED BY <2>4, <2>10 DEF p
<1>4. ASSUME NEW omit \in JogOmissions
      PROVE  PlannedJob(JogMessages(omit), omit) /\ JogMessages(omit) \in Seq(Steps)
  <2> DEFINE a == Unless(omit, "CACC")
             r == <<"CSPD", "SP1", "UPD">>
             k == 3
  <2>1. /\ a \in Seq(Steps) /\ ("CACC" \notin omit => Holds(a, "CACC"))
        /\ \A n : Holds(a, n) => n = "CACC"
    BY UnlessHolds
  <2>2. /\ r \in Seq(Steps) /\ k \in 1 .. Len(r)
        /\ \A i \in 1 .. Len(r) : r[i] = "UPD" => i = k
        /\ \A j \in 1 .. k - 1 : r[j] \in Modes => r[j] = "SP1"
    BY DEF Steps, Messages, MotionMessages, ByName, Modes
  <2>3. Before(r, k, "CSPD") /\ Before(r, k, "SP1")
    <3>1. r[1] = "CSPD" /\ r[2] = "SP1" /\ 1 \in 1 .. k - 1 /\ 2 \in 1 .. k - 1
      OBVIOUS
    <3> QED BY <3>1 DEF Before
  <2>4. JogMessages(omit) = (e \o a) \o r
    BY DEF JogMessages, e
  <2> HIDE DEF a, r, k
  <2> DEFINE p == e \o a
  <2>5. p \in Seq(Steps) /\ \A n : Holds(p, n) <=> Holds(e, n) \/ Holds(a, n)
    BY <1>1, <2>1, HoldsConcat
  <2> HIDE DEF p
  <2>6. \A n \in Modes \cup {"UPD"} : ~Holds(p, n)
    BY <1>1, <1>2, <2>1, <2>5
  <2>7. \A n \in (Needed("SP1") \ omit) \cup {"SP1"} : Holds(p, n) \/ Before(r, k, n)
    <3>1. \A n \in {"CACC"} \ omit : Holds(p, n)
      BY <2>1, <2>5
    <3> QED BY <2>3, <3>1 DEF Needed
  <2>8. "SP1" \in Modes
    BY DEF Modes
  <2>9. PlannedJob(p \o r, omit) /\ p \o r \in Seq(Steps)
    BY <2>2, <2>5, <2>6, <2>7, <2>8, PlannedPrefix
  <2> QED BY <2>4, <2>9 DEF p
<1>5. PlannedJob(HomeMessages, {})
  <2>1. {} \in JogOmissions /\ NoMotion(e)
    BY DEF JogOmissions, e, NoMotion, MotionMessages, ByName, Modes
  <2> DEFINE j == JogMessages({})
  <2>2. j \in Seq(Steps) /\ PlannedJob(j, {})
    BY <1>4, <2>1
  <2>3. HomeMessages = j \o e
    BY DEF HomeMessages, e
  <2> HIDE DEF j
  <2> QED BY <1>1, <2>1, <2>2, <2>3, PlannedBefore
<1> QED BY <1>3, <1>4, <1>5

\* What a thread has to do at its start.
Planning(t) ==
  /\ todo' = [todo EXCEPT ![t] = todo'[t]]
  /\ todo'[t] \in Seq(Steps) /\ PlannedJob(todo'[t], omitted'[t])
  /\ t = Iocsh => NoMotion(todo'[t])
  /\ \A u \in Threads \ {t} :
       drive'[u] = drive[u] /\ number'[u] = number[u] /\ omitted'[u] = omitted[u]
  /\ UNCHANGED driveVars

LEMMA HandlersPlan ==
  ASSUME IndInv, Handlers
  PROVE  (\E t \in Threads : Planning(t)) \/ UNCHANGED <<todo, jobVars, driveVars>>
<1> USE LibAssumption DEF IndInv, TypeOK
<1>1. PICK d \in Drives :
        \/ Open(d) \/ Configure(d) \/ Cycle(d) \/ Poll(d) \/ PollNothing(d)
        \/ Move(d) \/ Jog(d) \/ Home(d) \/ Setting(d)
  BY DEF Handlers
<1>2. /\ PortThread(d) \in Threads /\ Iocsh \in Threads /\ PortThread(d) # Iocsh
  BY DEF PortThread, Threads
<1>3. ASSUME NEW t \in Threads, NEW job \in Seq(Steps),
             Begin(t, d, job), PlannedJob(job, omitted'[t]), t = Iocsh => NoMotion(job),
             \A u \in Threads \ {t} : number'[u] = number[u] /\ omitted'[u] = omitted[u]
      PROVE  Planning(t)
  BY <1>3 DEF Planning, Begin
<1>4. NoCommand => \A u \in Threads : number'[u] = number[u] /\ omitted'[u] = omitted[u]
  BY DEF NoCommand
<1>5. CASE Open(d)
  BY <1>2, <1>3, <1>4, <1>5, OtherJobs, NoMotionPlanned DEF Open
<1>6. CASE Configure(d)
  BY <1>2, <1>3, <1>4, <1>6, OtherJobs, NoMotionPlanned DEF Configure
<1>7. CASE Cycle(d)
  BY <1>2, <1>3, <1>4, <1>7, OtherJobs, NoMotionPlanned DEF Cycle
<1>8. CASE Poll(d)
  <2> DEFINE init == IF d \in needsReinit THEN InitJob ELSE <<>>
  <2>1. PICK zero \in {<<>>, ZeroJob} : Begin(PortThread(d), d, (init \o PollJob) \o zero)
    BY <1>8 DEF Poll
  <2>2. init \in Seq(Steps) /\ NoMotion(init)
    BY OtherJobs
  <2> HIDE DEF init
  <2>3. init \o PollJob \in Seq(Steps) /\ NoMotion(init \o PollJob)
    BY <2>2, OtherJobs, NoMotionConcat
  <2>4. /\ (init \o PollJob) \o zero \in Seq(Steps)
        /\ NoMotion((init \o PollJob) \o zero)
    BY <2>3, OtherJobs, NoMotionConcat
  <2> QED BY <1>2, <1>3, <1>4, <1>8, <2>1, <2>4, NoMotionPlanned DEF Poll
<1>9. ASSUME NEW job \in Seq(Steps), NEW omit, Motion(d, job, omit), PlannedJob(job, omit)
      PROVE  Planning(PortThread(d))
  <2>1. /\ \A u \in Threads \ {PortThread(d)} :
             number'[u] = number[u] /\ omitted'[u] = omitted[u]
        /\ omitted'[PortThread(d)] = omit
    BY <1>2, <1>9 DEF Motion
  <2> QED BY <1>2, <1>3, <1>9, <2>1 DEF Motion, Command
<1>10. CASE Move(d)
  <2>1. PICK power \in {<<>>, Power}, omit \in MoveOmissions :
          Motion(d, Locked(power \o MoveMessages(omit)), omit)
    BY <1>10 DEF Move
  <2> DEFINE job == Locked(power \o MoveMessages(omit))
  <2>2. job \in Seq(Steps) /\ PlannedJob(job, omit)
    BY MessagesArePlanned, ProfileMessages, LockedPlanned
  <2>3. Motion(d, job, omit)
    BY <2>1
  <2> HIDE DEF job
  <2> QED BY <1>2, <1>9, <2>2, <2>3
<1>11. CASE Jog(d)
  <2>1. PICK power \in {<<>>, Power}, omit \in JogOmissions :
          Motion(d, Locked(power \o JogMessages(omit)), omit)
    BY <1>11 DEF Jog
  <2> DEFINE job == Locked(power \o JogMessages(omit))
  <2>2. job \in Seq(Steps) /\ PlannedJob(job, omit)
    BY MessagesArePlanned, ProfileMessages, LockedPlanned
  <2>3. Motion(d, job, omit)
    BY <2>1
  <2> HIDE DEF job
  <2> QED BY <1>2, <1>9, <2>2, <2>3
<1>12. CASE Home(d)
  <2>1. PICK power \in {<<>>, Power}, before \in {<<>>, MerJob} :
          Motion(d, before \o Locked(power \o HomeMessages), {})
    BY <1>12 DEF Home
  <2> DEFINE home == Locked(power \o HomeMessages)
  <2>2. home \in Seq(Steps) /\ PlannedJob(home, {})
    BY MessagesArePlanned, ProfileMessages, LockedPlanned
  <2>3. Motion(d, before \o home, {})
    BY <2>1
  <2> HIDE DEF home
  <2>4. before \in Seq(Steps) /\ NoMotion(before)
    BY OtherJobs
  <2>5. before \o home \in Seq(Steps) /\ PlannedJob(before \o home, {})
    BY <2>2, <2>4, PlannedAfter
  <2> QED BY <1>2, <1>9, <2>3, <2>5
<1>13. CASE Setting(d)
  <2>1. PICK job \in {StopJob, StopHomingJob, SetPositionJob, MerJob \o ZeroJob, PowerJob} :
          Command(d, job)
    BY <1>13 DEF Setting
  <2>2. MerJob \o ZeroJob \in Seq(Steps) /\ NoMotion(MerJob \o ZeroJob)
    BY OtherJobs, NoMotionConcat
  <2>3. job \in Seq(Steps) /\ NoMotion(job)
    BY <2>1, <2>2, OtherJobs
  <2> QED BY <1>2, <1>3, <1>4, <1>13, <2>1, <2>3, NoMotionPlanned DEF Setting, Command
<1>14. CASE PollNothing(d)
  BY <1>14 DEF PollNothing
<1> QED BY <1>1, <1>2, <1>5, <1>6, <1>7, <1>8, <1>10, <1>11, <1>12, <1>13, <1>14

-----------------------------------------------------------------------------
(* The invariant *)

\* The UPD! at i of what t still has to do (s) uses the settings of t's command, but for
\* the ones the command leaves out.
Ready(t, s, i, m) ==
  /\ \A n \in Needed(m) \ omitted[t] : Before(s, i, n) \/ setBy[drive[t]][n] = number[t]
  /\ \/ Before(s, i, m)
     \/ mode[drive[t]] = m /\ setBy[drive[t]]["MODE"] = number[t]
  /\ \A j \in 1 .. i - 1 : s[j] \in Modes => s[j] = m

AllReady(t, s) ==
  \A i \in 1 .. Len(s) : s[i] = "UPD" => \E m \in Modes : Ready(t, s, i, m)

PlanInv == \A t \in Controllers : AllReady(t, todo[t])

CommandInv == PlanInv /\ NoMotion(todo[Iocsh])

\* What else is known of every state.
LibInv == IndInv /\ SelectedInv /\ CallsReachOwnDrive /\ ResolvedFromOwnSetup

LEMMA StartedCommand ==
  ASSUME IndInv, CommandInv, NEW t \in Threads, Planning(t)
  PROVE  CommandInv'
<1> USE LibAssumption
<1>1. \A u \in Threads \ {t} :
        /\ todo'[u] = todo[u] /\ drive'[u] = drive[u] /\ number'[u] = number[u]
        /\ omitted'[u] = omitted[u]
  BY DEF Planning, IndInv, TypeOK
<1>2. UNCHANGED <<setBy, mode>>
  BY DEF Planning, driveVars
<1>3. ASSUME NEW u \in Controllers, NEW i \in 1 .. Len(todo'[u]), todo'[u][i] = "UPD"
      PROVE  \E m \in Modes : Ready(u, todo[u], i, m)'
  <2>1. CASE u = t
    <3>1. PICK m \in Modes : Planned(todo'[u], omitted'[u], i, m)
      BY <1>3, <2>1 DEF Planning, PlannedJob
    <3>2. Ready(u, todo[u], i, m)'
      BY <3>1 DEF Ready, Planned, Before
    <3> QED BY <3>2
  <2>2. CASE u # t
    <3>1. /\ u \in Threads \ {t} /\ todo'[u] = todo[u] /\ drive'[u] = drive[u]
          /\ number'[u] = number[u] /\ omitted'[u] = omitted[u]
      BY <1>1, <2>2 DEF Threads
    <3>2. PICK m \in Modes : Ready(u, todo[u], i, m)
      BY <1>3, <3>1 DEF CommandInv, PlanInv, AllReady
    <3>3. Ready(u, todo[u], i, m)'
      BY <1>2, <3>1, <3>2 DEF Ready, Before
    <3> QED BY <3>3
  <2> QED BY <2>1, <2>2
<1>4. NoMotion(todo'[Iocsh])
  BY <1>1 DEF CommandInv, Planning, Threads
<1> QED BY <1>3, <1>4 DEF CommandInv, PlanInv, AllReady

\* A message that is not of a motion command writes no setting.
LEMMA OtherMessages ==
  ASSUME NEW msg \in Messages, msg \notin MotionMessages, NEW d
  PROVE  Written(d, msg) = {} /\ msg \notin Modes /\ msg # "UPD"
BY DEF Written, Messages, MotionMessages, Settings, ByName, Modes

\* One by name writes the register of that name of the handler's axis, at least.
LEMMA WrittenByName ==
  ASSUME LibInv, SetupOfFirmware, NEW t \in Threads, ~Idle(t), Pending(t) \in Messages,
         Own(t) \in opened, NEW n \in Settings,
         n = Pending(t) \/ (n = "MODE" /\ Pending(t) \in Modes)
  PROVE  n \in Written(drive[t], Pending(t))
<1>1. drive[t] \in Drives
  BY DEF LibInv, IndInv, TypeOK
<1>2. CASE Pending(t) \in ByName
  <2>1. n = Pending(t)
    BY <1>2 DEF ByName, Modes
  <2>2. Address(varMap[activeCh], n) = OwnAddress(drive[t], n)
    BY <1>2, <2>1 DEF LibInv, ResolvedFromOwnSetup
  <2>3. Firmware[drive[t]][n] \in OwnAddress(drive[t], n)
    BY <1>1, <1>2, <2>1 DEF OwnAddress, Address, SetupOfFirmware
  <2> QED BY <1>2, <2>1, <2>2, <2>3 DEF Written
<1>3. CASE Pending(t) \notin ByName
  BY <1>3 DEF Written, Modes, Settings, ByName
<1> QED BY <1>2, <1>3

\* What the script's thread does, and messages that are not of a motion command.
LEMMA QuietStep ==
  ASSUME NEW t \in Threads, Step(t), Pending(t) \notin MotionMessages
  PROVE  \A d \in Drives :
           /\ \A n \in Settings : setBy'[d][n] = setBy[d][n]
           /\ mode'[d] = mode[d]
<1>1. CASE Succeed(t) \/ Fail(t)
  <2>1. PICK at : Execute(t, Pending(t), at)
    BY <1>1 DEF Succeed, Fail
  <2>2. Pending(t) \in Messages
    BY <1>1 DEF Succeed, Fail
  <2>3. \A d \in Drives : Written(d, Pending(t)) = {}
    BY <2>2, OtherMessages
  <2>4. Pending(t) \notin Modes
    BY <2>2, OtherMessages
  <2> QED BY <2>1, <2>3, <2>4 DEF Execute
<1>2. CASE UNCHANGED driveVars
  BY <1>2 DEF driveVars
<1> QED BY <1>1, <1>2
        DEF Step, Lock, Unlock, OpenChannel, LeaveChannel, SelectChannel, SelectFails, AttemptFails,
            InitDeferred, SetupAxis, SelectAxis

\* The rest of a handler: what was before a step is before it, or was the first.
LEMMA TailBefore ==
  ASSUME NEW s, Legal(s), s # <<>>, NEW i \in 1 .. Len(Tail(s))
  PROVE  /\ i + 1 \in 1 .. Len(s) /\ Tail(s)[i] = s[i + 1]
         /\ \A n : Before(s, i + 1, n) => Before(Tail(s), i, n) \/ n = Head(s)
         /\ \A j \in 1 .. i - 1 : j + 1 \in 1 .. (i + 1) - 1 /\ Tail(s)[j] = s[j + 1]
<1>1. /\ s \in Seq(Steps) /\ Len(s) \in Nat /\ Len(s) > 0
      /\ Len(Tail(s)) = Len(s) - 1
      /\ \A j \in 1 .. Len(s) - 1 : Tail(s)[j] = s[j + 1]
      /\ Head(s) = s[1]
  BY DEF Legal, Chain
<1>2. ASSUME NEW n, Before(s, i + 1, n), n # Head(s)
      PROVE  Before(Tail(s), i, n)
  <2>1. PICK j \in 1 .. (i + 1) - 1 : s[j] = n
    BY <1>2 DEF Before
  <2>2. j - 1 \in 1 .. i - 1 /\ j - 1 \in 1 .. Len(s) - 1 /\ (j - 1) + 1 = j
    BY <1>1, <1>2, <2>1
  <2>3. Tail(s)[j - 1] = n
    BY <1>1, <2>1, <2>2
  <2> QED BY <2>2, <2>3 DEF Before
<1> QED BY <1>1, <1>2

LEMMA NeededSettings ==
  ASSUME NEW m \in Modes
  PROVE  /\ Needed(m) \subseteq Settings \cap MotionMessages /\ m \in MotionMessages
         /\ "MODE" \in Settings
BY DEF Needed, Settings, MotionMessages, ByName, Modes

\* A first step that is no motion message can go.
LEMMA ReadyTail ==
  ASSUME NEW t, NEW s, Legal(s), s # <<>>, Head(s) \notin MotionMessages, AllReady(t, s)
  PROVE  AllReady(t, Tail(s))
<1> SUFFICES ASSUME NEW i \in 1 .. Len(Tail(s)), Tail(s)[i] = "UPD"
             PROVE  \E m \in Modes : Ready(t, Tail(s), i, m)
  BY DEF AllReady
<1>1. /\ i + 1 \in 1 .. Len(s) /\ s[i + 1] = "UPD"
      /\ \A n : Before(s, i + 1, n) => Before(Tail(s), i, n) \/ n = Head(s)
      /\ \A j \in 1 .. i - 1 : j + 1 \in 1 .. (i + 1) - 1 /\ Tail(s)[j] = s[j + 1]
  BY TailBefore
<1>2. PICK m \in Modes : Ready(t, s, i + 1, m)
  BY <1>1 DEF AllReady
<1>3. Ready(t, Tail(s), i, m)
  <2>1. \A n \in Needed(m) \ omitted[t] : Before(Tail(s), i, n) \/ setBy[drive[t]][n] = number[t]
    BY <1>1, <1>2, NeededSettings DEF Ready
  <2>2. \/ Before(Tail(s), i, m)
        \/ mode[drive[t]] = m /\ setBy[drive[t]]["MODE"] = number[t]
    BY <1>1, <1>2, NeededSettings DEF Ready
  <2>3. \A j \in 1 .. i - 1 : Tail(s)[j] \in Modes => Tail(s)[j] = m
    BY <1>1, <1>2 DEF Ready
  <2> QED BY <2>1, <2>2, <2>3 DEF Ready
<1> QED BY <1>3

\* What a step that sends no motion message leaves of the command of this or of another
\* thread.
LEMMA ReadyKept ==
  ASSUME IndInv, NEW t \in Threads, Step(t), Pending(t) \notin MotionMessages,
         NEW u \in Threads, NEW s, AllReady(u, s),
         drive'[u] = drive[u], number'[u] = number[u], omitted'[u] = omitted[u], todo'[u] = s
  PROVE  AllReady(u, todo[u])'
<1>1. drive[u] \in Drives
  BY DEF IndInv, TypeOK
<1>2. /\ \A n \in Settings : setBy'[drive[u]][n] = setBy[drive[u]][n]
      /\ mode'[drive[u]] = mode[drive[u]]
  BY <1>1, QuietStep
<1>3. ASSUME NEW i \in 1 .. Len(s), s[i] = "UPD"
      PROVE  \E m \in Modes : Ready(u, todo[u], i, m)'
  <2>1. PICK m \in Modes : Ready(u, s, i, m)
    BY <1>3 DEF AllReady
  <2>2. Ready(u, todo[u], i, m)'
    BY <1>2, <2>1, NeededSettings DEF Ready, Before
  <2> QED BY <2>2
<1> QED BY <1>3 DEF AllReady

\* After a motion message that succeeds.
LEMMA ReadySent ==
  ASSUME SetupOfFirmware, LibInv, CommandInv, NEW t \in Controllers, Succeed(t), Step(t),
         Pending(t) \in MotionMessages,
         NEW i \in 1 .. Len(todo'[t]), todo'[t][i] = "UPD"
  PROVE  \E m \in Modes : Ready(t, todo[t], i, m)'
<1>1. t \in Threads /\ drive[t] \in Drives /\ IndInv
  BY DEF Threads, LibInv, IndInv, TypeOK
<1>2. Onwards(t) /\ ~Idle(t) /\ Legal(todo[t]) /\ todo[t] # <<>>
  BY <1>1, StepGoesOn DEF Onwards, IndInv, TodoInv, Idle
<1>3. drive'[t] = drive[t] /\ number'[t] = number[t] /\ omitted'[t] = omitted[t]
  BY <1>2 DEF Onwards, jobVars
<1>4. todo'[t] = Tail(todo[t])
  BY <1>1 DEF Succeed, Proceed, IndInv, TypeOK
<1>5. /\ i + 1 \in 1 .. Len(todo[t]) /\ todo[t][i + 1] = "UPD"
      /\ \A n : Before(todo[t], i + 1, n) => Before(todo'[t], i, n) \/ n = Pending(t)
      /\ \A j \in 1 .. i - 1 : j + 1 \in 1 .. (i + 1) - 1 /\ todo'[t][j] = todo[t][j + 1]
  BY <1>2, <1>4, TailBefore DEF Pending
<1>6. PICK m \in Modes : Ready(t, todo[t], i + 1, m)
  BY <1>5 DEF CommandInv, PlanInv, AllReady
<1>7. \A j \in 1 .. i - 1 : todo'[t][j] \in Modes => todo'[t][j] = m
  BY <1>5, <1>6 DEF Ready
<1>8. /\ Execute(t, Pending(t), Target) /\ Target = {drive[t]} /\ Own(t) \in opened
      /\ Pending(t) \in Messages
  <2>1. Execute(t, Pending(t), Target) /\ Target # {} /\ Pending(t) \in Messages
    BY DEF Succeed
  <2>2. Target \subseteq {drive[t]}
    BY <1>1, <1>2, <2>1 DEF LibInv, CallsReachOwnDrive
  <2>3. activeCh = Own(t) /\ Own(t) # None
    BY <1>1, <2>1, <2>2, LibAssumption DEF Target, Own, IndInv, TypeOK
  <2>4. Own(t) \in opened
    BY <1>1, <2>3 DEF IndInv, TypeOK
  <2> QED BY <2>1, <2>2, <2>4
<1>9. \A n \in Settings : setBy'[drive[t]][n] =
        IF n \in Written(drive[t], Pending(t)) THEN number[t] ELSE setBy[drive[t]][n]
  BY <1>1, <1>8 DEF Execute
<1>10. mode'[drive[t]] = IF Pending(t) \in Modes THEN Pending(t) ELSE mode[drive[t]]
  BY <1>1, <1>8 DEF Execute
<1>11. \A n \in Settings :
         n = Pending(t) \/ (n = "MODE" /\ Pending(t) \in Modes)
           => n \in Written(drive[t], Pending(t))
  BY <1>1, <1>2, <1>8, WrittenByName
<1>12. \A n \in Needed(m) \ omitted[t] : Before(todo'[t], i, n) \/ setBy'[drive[t]][n] = number[t]
  BY <1>5, <1>6, <1>9, <1>11, NeededSettings DEF Ready
<1>13. Pending(t) \in Modes => Pending(t) = m
  <2>1. 1 \in 1 .. (i + 1) - 1 /\ todo[t][1] = Pending(t)
    BY <1>2 DEF Pending, Legal, Chain
  <2> QED BY <1>6, <2>1 DEF Ready
<1>14. \/ Before(todo'[t], i, m)
       \/ mode'[drive[t]] = m /\ setBy'[drive[t]]["MODE"] = number[t]
  <2>1. CASE Pending(t) \in Modes
    BY <1>9, <1>10, <1>11, <1>13, <2>1, NeededSettings
  <2>2. CASE Pending(t) \notin Modes
    BY <1>5, <1>6, <1>9, <1>10, <2>2, NeededSettings DEF Ready
  <2> QED BY <2>1, <2>2
<1>15. Ready(t, todo[t], i, m)'
  BY <1>3, <1>7, <1>12, <1>14 DEF Ready, Before
<1> QED BY <1>15

\* After a step of a port thread what was ready stays ready.
LEMMA ReadyStep ==
  ASSUME SetupOfFirmware, LibInv, CommandInv, NEW t \in Controllers, Step(t)
  PROVE  AllReady(t, todo[t])'
<1>1. t \in Threads /\ IndInv
  BY DEF Threads, LibInv
<1>2. Onwards(t) /\ ~Idle(t) /\ Legal(todo[t]) /\ todo[t] # <<>>
  BY <1>1, StepGoesOn DEF Onwards, IndInv, TodoInv, Idle
<1>3. drive'[t] = drive[t] /\ number'[t] = number[t] /\ omitted'[t] = omitted[t]
  BY <1>2 DEF Onwards, jobVars
<1>4. AllReady(t, todo[t])
  BY DEF CommandInv, PlanInv
<1>5. CASE todo'[t] = EarlyReturn
  BY <1>5 DEF AllReady, EarlyReturn
<1>6. CASE Pending(t) \in MotionMessages /\ todo'[t] # EarlyReturn
  <2>1. Succeed(t)
    <3>1. Pending(t) \in Messages /\ Pending(t) \in Decisive
      BY <1>6 DEF Messages, Decisive
    <3>2. ~Fail(t)
      BY <1>1, <1>6, <3>1 DEF Fail, AfterFailure, IndInv, TypeOK
    <3> QED BY <3>1, <3>2, StepNames
            DEF Step, Lock, Unlock, OpenChannel, LeaveChannel, SelectChannel, SelectFails,
                AttemptFails, InitDeferred, SetupAxis, SelectAxis, At
  <2> QED BY <1>6, <2>1, ReadySent DEF AllReady
<1>7. CASE Pending(t) \notin MotionMessages /\ todo'[t] # EarlyReturn
  <2>1. AllReady(t, Tail(todo[t]))
    BY <1>2, <1>4, <1>7, ReadyTail DEF Pending
  <2>2. AllReady(t, todo'[t])
    <3>1. CASE todo'[t] = Tail(todo[t])
      BY <2>1, <3>1
    <3>2. CASE /\ Pending(t) = "attempt" /\ todo'[t] = Tail(Tail(todo[t]))
               /\ Tail(todo[t]) # <<>>
      <4> DEFINE rest == Tail(todo[t])
      <4>1. Legal(rest) /\ rest # <<>> /\ Follows("attempt", Head(rest)) /\ AllReady(t, rest)
        BY <1>2, <2>1, <3>2, LegalTail DEF Pending
      <4> HIDE DEF rest
      <4>2. Head(rest) \notin MotionMessages
        BY <4>1, StepNames DEF Follows, Messages
      <4>3. AllReady(t, Tail(rest))
        BY <4>1, <4>2, ReadyTail
      <4> QED BY <3>2, <4>3 DEF rest
    <3> QED BY <1>2, <1>7, <3>1, <3>2 DEF Onwards
  <2> QED BY <1>1, <1>3, <1>7, <2>2, ReadyKept
<1> QED BY <1>5, <1>6, <1>7

LEMMA StepCommand ==
  ASSUME OneController, SetupOfFirmware, LibInv, CommandInv, NEW t \in Threads, Step(t)
  PROVE  CommandInv'
<1> USE LibAssumption
<1>1. Onwards(t) /\ ~Idle(t) /\ Legal(todo[t]) /\ todo[t] # <<>> /\ TypeOK /\ IndInv
  BY StepGoesOn DEF Onwards, LibInv, IndInv, TodoInv, Idle
<1>2. \A u \in Threads :
        drive'[u] = drive[u] /\ number'[u] = number[u] /\ omitted'[u] = omitted[u]
  BY <1>1 DEF Onwards, jobVars, TypeOK
<1>3. \A u \in Threads \ {t} : todo'[u] = todo[u]
  BY <1>1, StepOthers
<1>4. PlanInv'
  <2>1. CASE t = Iocsh
    <3>1. Pending(t) \notin MotionMessages
      <4>1. 1 \in 1 .. Len(todo[t]) /\ todo[t][1] = Pending(t)
        BY <1>1 DEF Pending, Legal, Chain
      <4> QED BY <2>1, <4>1 DEF CommandInv, NoMotion
    <3>2. ASSUME NEW u \in Controllers
          PROVE  AllReady(u, todo[u])'
      <4>1. u \in Threads /\ todo'[u] = todo[u] /\ AllReady(u, todo[u])
        BY <1>3, <2>1 DEF Threads, CommandInv, PlanInv
      <4> QED BY <1>1, <1>2, <3>1, <4>1, ReadyKept
    <3> QED BY <3>2 DEF PlanInv
  <2>2. CASE t \in Controllers
    <3>1. \A u \in Controllers : u = t
      BY <2>2 DEF OneController
    <3>2. AllReady(t, todo[t])'
      BY <2>2, ReadyStep
    <3> QED BY <3>1, <3>2 DEF PlanInv
  <2> QED BY <2>1, <2>2 DEF Threads
<1>5. NoMotion(todo'[Iocsh])
  <2>1. CASE t # Iocsh
    BY <1>3, <2>1 DEF CommandInv, Threads
  <2>2. CASE t = Iocsh
    <3>1. NoMotion(EarlyReturn)
      BY DEF EarlyReturn, NoMotion, MotionMessages, ByName, Modes
    <3>2. \A s : Legal(s) /\ s # <<>> /\ NoMotion(s) => NoMotion(Tail(s))
      BY TailBefore DEF NoMotion
    <3>3. NoMotion(Tail(todo[t])) /\ Legal(Tail(todo[t]))
      BY <1>1, <2>2, <3>2, LegalTail DEF CommandInv
    <3>4. Tail(todo[t]) # <<>> => NoMotion(Tail(Tail(todo[t])))
      BY <3>2, <3>3
    <3> QED BY <1>1, <2>2, <3>1, <3>3, <3>4 DEF Onwards
  <2> QED BY <2>1, <2>2
<1> QED BY <1>4, <1>5 DEF CommandInv

\* An UPD! that is to be sent.
LEMMA ReadyInherits ==
  ASSUME LibInv, CommandInv
  PROVE  InheritsOnlyLeftOut
<1> USE LibAssumption
<1> SUFFICES ASSUME NEW t \in Threads, At(t, "UPD"), NEW d \in Target, NEW s \in InForce(d)
             PROVE  setBy[d][s] = number[t] \/ s \in omitted[t]
  BY DEF InheritsOnlyLeftOut
<1>1. ~Idle(t) /\ Pending(t) = "UPD" /\ "UPD" \in MotionMessages /\ "UPD" \in Messages
  BY DEF At, Messages, MotionMessages
<1>2. d = drive[t]
  BY <1>1 DEF LibInv, CallsReachOwnDrive
<1>3. Legal(todo[t]) /\ todo[t] # <<>>
  BY <1>1 DEF LibInv, IndInv, TodoInv, Idle
<1>4. 1 \in 1 .. Len(todo[t]) /\ todo[t][1] = "UPD"
  BY <1>1, <1>3 DEF Pending, Legal, Chain
<1>5. t \in Controllers
  <2>1. t # Iocsh
    BY <1>1, <1>4 DEF CommandInv, NoMotion
  <2> QED BY <2>1 DEF Threads
<1>6. PICK m \in Modes : Ready(t, todo[t], 1, m)
  BY <1>4, <1>5 DEF CommandInv, PlanInv, AllReady
<1>7. \A n : ~Before(todo[t], 1, n)
  BY DEF Before
<1>8. /\ \A n \in Needed(m) \ omitted[t] : setBy[d][n] = number[t]
      /\ mode[d] = m /\ setBy[d]["MODE"] = number[t]
  BY <1>2, <1>6, <1>7 DEF Ready
<1>9. InForce(d) \subseteq Needed(m) \cup {"MODE"}
  BY <1>8 DEF InForce, Needed, Settings, Modes
<1> QED BY <1>8, <1>9

\* With one controller, axes with ids of their own and the one setup file of the drives'
\* firmware, a motion uses a setting of an earlier command only for a speed or an
\* acceleration its own command gave as zero (TS_Move* write neither then), whichever
\* messages of this or of an earlier command have failed.
THEOREM OnlyLeftOut ==
  ASSUME OneController, UniqueIds, OneSetup, SetupOfFirmware
  PROVE  Spec => []InheritsOnlyLeftOut
<1>1. Init => CommandInv
  BY OtherJobs, LibAssumption, EmptySeq DEF Init, CommandInv, PlanInv, AllReady, Threads
<1>2. LibInv /\ CommandInv /\ [Next]_vars => CommandInv'
  <2> SUFFICES ASSUME LibInv, CommandInv, [Next]_vars
               PROVE  CommandInv'
    OBVIOUS
  <2>1. CASE UNCHANGED <<todo, jobVars, driveVars>>
    BY <2>1 DEF jobVars, driveVars, CommandInv, PlanInv, AllReady, Ready, Before, NoMotion
  <2>2. CASE Handlers
    BY <2>1, <2>2, HandlersPlan, StartedCommand DEF LibInv
  <2>3. ASSUME NEW t \in Threads, Step(t)
        PROVE  CommandInv'
    BY <2>3, StepCommand
  <2>4. CASE UNCHANGED vars
    BY <2>1, <2>4 DEF vars
  <2> QED BY <2>2, <2>3, <2>4 DEF Next
<1>3. Spec => []LibInv
  BY Selected, CallsReach, NamesResolved, PTL DEF LibInv
<1> QED BY <1>1, <1>2, <1>3, ReadyInherits, PTL DEF Spec
=============================================================================
