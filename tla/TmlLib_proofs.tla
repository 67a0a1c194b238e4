---------------------------- MODULE TmlLib_proofs ----------------------------
(***************************************************************************)
(* Safety of TmlLib for any number of axes and motion commands.  With one  *)
(* controller, as in the repository's start-up scripts, every message      *)
(* reaches the drive of the axis that sends it, and names are resolved as  *)
(* the one setup file of all axes says, whether the channel is opened by   *)
(* the start-up script or by a later cycle of polls.                       *)
(*                                                                         *)
(* The argument: whatever the handler, the calls it still has to make      *)
(* follow each other in one of a few ways (Follows), so that where it is   *)
(* tells whether it holds the lock and what it has selected.               *)
(***************************************************************************)
EXTENDS TmlLib, TLAPS, SequenceTheorems

Steps == Messages \cup Calls

\* Which step of a handler may follow which.
Follows(a, b) ==
  \/ a = "lock" /\ b \in {"select", "attempt", "channel", "open"}
  \/ a = "channel" /\ b = "setup"
  \/ a \in {"select", "attempt", "setup"} /\ b = "axis"
  \/ a \in Messages \cup {"axis"} /\ b \in Messages \cup {"unlock"}
  \/ a = "axis" /\ b = "select"
  \/ a = "open" /\ b = "unlock"
  \/ a = "unlock" /\ b = "lock"

\* Steps that may follow each other.
Chain(s) ==
  /\ s \in Seq(Steps)
  /\ \A i \in 1 .. Len(s) - 1 : Follows(s[i], s[i + 1])

\* A handler, or what is left of one.
Legal(s) == Chain(s) /\ (s # <<>> => s[Len(s)] = "unlock")

\* A whole one.
Job(s) == Legal(s) /\ s # <<>> /\ Head(s) = "lock"

\* What is done under one lock after the axis has been selected.
Body(s) ==
  /\ Chain(s) /\ s # <<>>
  /\ s[1] \in Messages \cup {"select"} /\ s[Len(s)] \in Messages

-----------------------------------------------------------------------------
LEMMA StepNames ==
  /\ Messages \cap Calls = {}
  /\ \A m \in Messages : m \notin {"lock", "unlock", "open", "select", "attempt", "channel", "setup", "axis"}
BY DEF Messages, MotionMessages, ByName, Modes, Calls

\* Going on leaves a legal rest, and the end of a handler is an unlock.
LEMMA LegalTail ==
  ASSUME NEW s, Legal(s), s # <<>>
  PROVE  /\ Legal(Tail(s)) /\ Head(s) \in Steps
         /\ Tail(s) = <<>> => Head(s) = "unlock"
         /\ Tail(s) # <<>> => Follows(Head(s), Head(Tail(s)))
<1>1. /\ s \in Seq(Steps) /\ Len(s) \in Nat /\ Len(s) > 0
      /\ Tail(s) \in Seq(Steps) /\ Len(Tail(s)) = Len(s) - 1
      /\ \A i \in 1 .. Len(s) - 1 : Tail(s)[i] = s[i + 1]
      /\ Head(s) = s[1] /\ s[1] \in Steps
  BY DEF Legal, Chain
<1>2. ASSUME NEW i \in 1 .. Len(Tail(s)) - 1
      PROVE  Follows(Tail(s)[i], Tail(s)[i + 1])
  <2>1. i + 1 \in 1 .. Len(s) - 1 /\ i \in 1 .. Len(s) - 1
    BY <1>1
  <2> QED BY <2>1, <1>1 DEF Legal, Chain
<1>3. Tail(s) # <<>> => /\ Len(s) > 1 /\ Head(Tail(s)) = s[2]
                        /\ Tail(s)[Len(Tail(s))] = s[Len(s)]
  BY <1>1
<1>4. Tail(s) = <<>> => Len(s) = 1
  <2>1. Tail(s) = <<>> => Len(Tail(s)) = 0
    BY <1>1, EmptySeq
  <2> QED BY <2>1, <1>1
<1>5. Len(s) > 1 => Follows(s[1], s[2])
  BY <1>1 DEF Legal, Chain
<1> QED BY <1>1, <1>2, <1>3, <1>4, <1>5 DEF Legal, Chain

\* One chain after another.
LEMMA ChainConcat ==
  ASSUME NEW s, NEW r, Chain(s), Chain(r), s # <<>>, r # <<>>, Follows(s[Len(s)], r[1])
  PROVE  /\ Chain(s \o r) /\ s \o r # <<>>
         /\ (s \o r)[1] = s[1] /\ (s \o r)[Len(s \o r)] = r[Len(r)]
<1>1. /\ s \in Seq(Steps) /\ r \in Seq(Steps) /\ Len(s) \in Nat /\ Len(r) \in Nat
      /\ Len(r) > 0 /\ Len(s) > 0
  BY DEF Chain
<1>2. /\ s \o r \in Seq(Steps) /\ Len(s \o r) = Len(s) + Len(r)
      /\ \A i \in 1 .. Len(s) + Len(r) :
           (s \o r)[i] = IF i <= Len(s) THEN s[i] ELSE r[i - Len(s)]
  BY <1>1
<1>3. ASSUME NEW i \in 1 .. Len(s \o r) - 1
      PROVE  Follows((s \o r)[i], (s \o r)[i + 1])
  <2>1. CASE i < Len(s)
    BY <2>1, <1>1, <1>2 DEF Chain
  <2>2. CASE i = Len(s)
    <3>1. (s \o r)[i] = s[Len(s)] /\ (s \o r)[i + 1] = r[1]
      BY <2>2, <1>1, <1>2
    <3> QED BY <3>1
  <2>3. CASE i > Len(s)
    <3>1. i - Len(s) \in 1 .. Len(r) - 1 /\ (i + 1) - Len(s) = (i - Len(s)) + 1
      BY <2>3, <1>1, <1>2
    <3>2. Follows(r[i - Len(s)], r[(i - Len(s)) + 1])
      BY <3>1 DEF Chain
    <3> QED BY <3>1, <3>2, <2>3, <1>1, <1>2
  <2> QED BY <2>1, <2>2, <2>3, <1>1, <1>2
<1> QED BY <1>1, <1>2, <1>3 DEF Chain

\* One job after another.
LEMMA JobConcat ==
  ASSUME NEW s, NEW r, Job(s), Job(r)
  PROVE  Job(s \o r)
<1>1. s[Len(s)] = "unlock" /\ r[1] = "lock" /\ s[1] = "lock"
  BY DEF Job, Legal, Chain
<1>2. Follows(s[Len(s)], r[1])
  BY <1>1 DEF Follows
<1>3. /\ Chain(s \o r) /\ s \o r # <<>>
      /\ (s \o r)[1] = "lock" /\ (s \o r)[Len(s \o r)] = "unlock"
  BY <1>1, <1>2, ChainConcat DEF Job, Legal
<1> QED BY <1>3 DEF Job, Legal, Chain

\* What is sent under one lock.
LEMMA LockedJob ==
  ASSUME NEW s, Body(s)
  PROVE  Job(Locked(s)) /\ Job(Attempted(s))
<1> DEFINE u == <<"unlock">>
<1>1. u # <<>> /\ u[1] = "unlock" /\ u[Len(u)] = "unlock" /\ Chain(u)
  BY DEF Chain, Steps, Calls
<1> HIDE DEF u
<1>2. ASSUME NEW p, Chain(p), p # <<>>, p[1] = "lock", p[Len(p)] = "axis"
      PROVE  Job((p \o s) \o u)
  <2>1. Follows(p[Len(p)], s[1])
    BY <1>2 DEF Body, Follows
  <2>2. /\ Chain(p \o s) /\ p \o s # <<>>
        /\ (p \o s)[1] = "lock" /\ (p \o s)[Len(p \o s)] \in Messages
    BY <1>2, <2>1, ChainConcat DEF Body
  <2>3. Follows((p \o s)[Len(p \o s)], u[1])
    BY <1>1, <2>2 DEF Follows
  <2>4. /\ Chain((p \o s) \o u) /\ (p \o s) \o u # <<>>
        /\ ((p \o s) \o u)[1] = "lock"
        /\ ((p \o s) \o u)[Len((p \o s) \o u)] = "unlock"
    BY <1>1, <2>2, <2>3, ChainConcat
  <2> QED BY <2>4 DEF Job, Legal, Chain
<1> DEFINE sel == <<"lock", "select", "axis">>
           att == <<"lock", "attempt", "axis">>
<1>3. Chain(sel) /\ sel # <<>> /\ sel[1] = "lock" /\ sel[Len(sel)] = "axis"
  BY DEF Chain, Follows, Steps, Calls
<1>4. Chain(att) /\ att # <<>> /\ att[1] = "lock" /\ att[Len(att)] = "axis"
  BY DEF Chain, Follows, Steps, Calls
<1>5. Locked(s) = (sel \o s) \o u /\ Attempted(s) = (att \o s) \o u
  BY DEF Locked, Attempted, u
<1> HIDE DEF sel, att
<1> QED BY <1>2, <1>3, <1>4, <1>5

\* Messages, after powerOn() or not.
LEMMA MessagesAreBody ==
  ASSUME NEW s \in Seq(Messages), s # <<>>
  PROVE  Body(s) /\ \A power \in {<<>>, Power} : Body(power \o s)
<1>1. Body(s)
  BY DEF Body, Chain, Steps, Follows
<1>2. Chain(Power) /\ Power # <<>> /\ Power[1] = "select" /\ Power[Len(Power)] = "POWER"
  BY DEF Power, Chain, Follows, Steps, Calls, Messages
<1>3. Follows(Power[Len(Power)], s[1])
  <2>1. "POWER" \in Messages
    BY DEF Messages
  <2> QED BY <1>2, <2>1 DEF Follows
<1>4. Body(Power \o s)
  BY <1>1, <1>2, <1>3, ChainConcat DEF Body
<1>5. <<>> \o s = s
  OBVIOUS
<1> QED BY <1>1, <1>4, <1>5

\* What a profile writes is messages only.
LEMMA ProfileMessages ==
  /\ \A omit \in MoveOmissions : MoveMessages(omit) \in Seq(Messages) /\ MoveMessages(omit) # <<>>
  /\ \A omit \in JogOmissions : JogMessages(omit) \in Seq(Messages) /\ JogMessages(omit) # <<>>
  /\ HomeMessages \in Seq(Messages) /\ HomeMessages # <<>>
<1>1. <<"EVENTS">> \in Seq(Messages)
  BY DEF Messages
<1>2. ASSUME NEW omit
      PROVE  Unless(omit, "CACC") \in Seq(Messages) /\ Unless(omit, "CSPD") \in Seq(Messages)
  <2>1. /\ <<"CACC">> \in Seq(Messages) /\ <<"CSPD">> \in Seq(Messages)
        /\ <<>> \in Seq(Messages)
    BY DEF Messages, MotionMessages, ByName
  <2> QED BY <2>1 DEF Unless
<1>3. <<"CPOS", "REF", "PP3", "TUM", "UPD", "EVENTS">> \in Seq(Messages)
  BY DEF Messages, MotionMessages, ByName, Modes
<1>4. <<"CSPD", "SP1", "UPD">> \in Seq(Messages)
  BY DEF Messages, MotionMessages, ByName, Modes
<1>5. ASSUME NEW omit
      PROVE  MoveMessages(omit) \in Seq(Messages) /\ MoveMessages(omit) # <<>>
  <2> DEFINE a == Unless(omit, "CACC")
             b == Unless(omit, "CSPD")
             m == <<"CPOS", "REF", "PP3", "TUM", "UPD", "EVENTS">>
  <2>1. a \in Seq(Messages) /\ b \in Seq(Messages)
    BY <1>2
  <2>2. m \in Seq(Messages)
    BY <1>3
  <2>3. Len(m) = 6
    OBVIOUS
  <2>4. MoveMessages(omit) = ((<<"EVENTS">> \o a) \o b) \o m
    BY DEF MoveMessages
  <2> HIDE DEF a, b, m
  <2> QED BY <1>1, <2>1, <2>2, <2>3, <2>4
<1>6. ASSUME NEW omit
      PROVE  JogMessages(omit) \in Seq(Messages) /\ JogMessages(omit) # <<>>
  <2> DEFINE a == Unless(omit, "CACC")
             m == <<"CSPD", "SP1", "UPD">>
  <2>1. a \in Seq(Messages)
    BY <1>2
  <2>2. m \in Seq(Messages)
    BY <1>4
  <2>3. Len(m) = 3
    OBVIOUS
  <2>4. JogMessages(omit) = (<<"EVENTS">> \o a) \o m
    BY DEF JogMessages
  <2> HIDE DEF a, m
  <2> QED BY <1>1, <2>1, <2>2, <2>3, <2>4
<1>7. HomeMessages \in Seq(Messages) /\ HomeMessages # <<>>
  BY <1>1, <1>6 DEF HomeMessages
<1> QED BY <1>5, <1>6, <1>7

LEMMA JobsAreLegal ==
  /\ Job(OpenJob) /\ Job(InitJob) /\ Job(PollJob) /\ Job(StopJob) /\ Job(StopHomingJob)
  /\ Job(ZeroJob) /\ Job(SetPositionJob) /\ Job(MerJob) /\ Job(PowerJob)
  /\ \A power \in {<<>>, Power} :
       /\ \A omit \in MoveOmissions : Job(Locked(power \o MoveMessages(omit)))
       /\ \A omit \in JogOmissions : Job(Locked(power \o JogMessages(omit)))
       /\ Job(Locked(power \o HomeMessages))
  /\ Legal(<<>>) /\ Legal(<<"unlock">>)
<1>1. Job(OpenJob) /\ Legal(<<>>) /\ Legal(<<"unlock">>)
  BY DEF Job, Legal, Chain, OpenJob, Follows, Steps, Calls
<1>2. Job(InitJob)
  BY DEF Job, Legal, Chain, InitJob, Follows, Steps, Calls, Messages
<1>3. /\ Job(PollJob) /\ Job(StopJob) /\ Job(StopHomingJob) /\ Job(ZeroJob)
      /\ Job(SetPositionJob) /\ Job(MerJob) /\ Job(PowerJob)
  <2>1. /\ <<"ENABLE_OFF">> \in Seq(Messages) /\ <<"STOP", "EVENTS">> \in Seq(Messages)
        /\ <<"SAP", "EVENTS">> \in Seq(Messages) /\ <<"MER">> \in Seq(Messages)
        /\ <<"POWER">> \in Seq(Messages) /\ <<"STOP">> \in Seq(Messages)
        /\ <<"SAP">> \in Seq(Messages)
    BY DEF Messages
  <2>2. \A m \in Seq(Messages) : m # <<>> => Job(Locked(m)) /\ Job(Attempted(m))
    BY MessagesAreBody, LockedJob
  <2> QED BY <2>1, <2>2 DEF PollJob, StopJob, StopHomingJob, ZeroJob, SetPositionJob, MerJob,
                            PowerJob
<1>4. \A m \in Seq(Messages), power \in {<<>>, Power} :
        m # <<>> => Job(Locked(power \o m))
  BY MessagesAreBody, LockedJob
<1> QED BY <1>1, <1>2, <1>3, <1>4, ProfileMessages
-----------------------------------------------------------------------------
(* The invariant *)

\* What a thread may do of an axis that is not configured: open the channel, and mark
\* the axis configured.
Unconfigured(t) ==
  \/ todo[t] \in {OpenJob, <<"open", "unlock">>, <<"unlock">>}
  \/ t = Iocsh /\ todo[t] = InitJob

\* The rest of every handler is legal, and of an axis that is configured, or Unconfigured.
TodoInv ==
  \A t \in Threads :
    Legal(todo[t]) /\ (~Idle(t) => drive[t] \in configured \/ Unconfigured(t))

\* A thread holds its controller's lock from lock to unlock, and no other.
LockInv ==
  \A t \in Threads, c \in Controllers :
    lock[c] = t <=> ~Idle(t) /\ Own(t) = c /\ Pending(t) # "lock"

IndInv == TypeOK /\ TodoInv /\ LockInv

-----------------------------------------------------------------------------
(* What the actions have in common *)

\* A handler that starts.
Started(t, d, job) ==
  /\ Begin(t, d, job) /\ Job(job)
  /\ t \in Threads /\ d \in Drives
  /\ d \in configured \/ job = OpenJob \/ (t = Iocsh /\ job = InitJob)
  /\ number' \in [Threads -> 0..issued'] /\ issued' \in 0..MaxCommands /\ issued <= issued'
  /\ omitted' \in [Threads -> MoveOmissions]
  /\ created' = created /\ cycle' \in [Controllers -> SUBSET Drives]

\* A poll that makes no call.
Skipped ==
  /\ cycle' \in [Controllers -> SUBSET Drives]
  /\ UNCHANGED <<lock, created, libVars, axisVars, todo, jobVars, driveVars>>

LEMMA PollJobs ==
  ASSUME NEW d, NEW zero \in {<<>>, ZeroJob}
  PROVE  Job((IF d \in needsReinit THEN InitJob ELSE <<>>) \o PollJob \o zero)
<1> DEFINE init == (IF d \in needsReinit THEN InitJob ELSE <<>>) \o PollJob
<1>1. Job(init)
  <2>1. Job(InitJob \o PollJob)
    BY JobConcat, JobsAreLegal
  <2>2. <<>> \o PollJob = PollJob
    BY JobsAreLegal DEF Job, Legal, Chain
  <2> QED BY <2>1, <2>2, JobsAreLegal
<1>2. init \o <<>> = init
  BY <1>1 DEF Job, Legal, Chain
<1>3. Job(init \o ZeroJob)
  BY <1>1, JobConcat, JobsAreLegal
<1> HIDE DEF init
<1>4. Job(init \o zero)
  BY <1>1, <1>2, <1>3
<1> QED BY <1>4 DEF init

LEMMA HomeJobs ==
  ASSUME NEW power \in {<<>>, Power}, NEW before \in {<<>>, MerJob}
  PROVE  Job(before \o Locked(power \o HomeMessages)) /\ Job(MerJob \o ZeroJob)
<1> DEFINE home == Locked(power \o HomeMessages)
<1>1. Job(home)
  BY JobsAreLegal
<1> HIDE DEF home
<1>2. <<>> \o home = home
  BY <1>1 DEF Job, Legal, Chain
<1>3. Job(MerJob \o home) /\ Job(MerJob \o ZeroJob)
  BY <1>1, JobConcat, JobsAreLegal
<1> QED BY <1>1, <1>2, <1>3 DEF home

LEMMA HandlersStart ==
  ASSUME IndInv, Handlers
  PROVE  Skipped \/ \E t \in Threads, d \in Drives : \E job : Started(t, d, job)
<1> USE LibAssumption DEF IndInv, TypeOK
<1>1. PICK d \in Drives :
        \/ Open(d) \/ Configure(d) \/ Cycle(d) \/ Poll(d) \/ PollNothing(d)
        \/ Move(d) \/ Jog(d) \/ Home(d) \/ Setting(d)
  BY DEF Handlers
<1>2. /\ ControllerOf[d] \in Controllers /\ PortThread(d) \in Threads /\ Iocsh \in Threads
      /\ PortThread(d) = ControllerOf[d]
  BY DEF PortThread, Threads
<1>3. NoCommand => /\ number' \in [Threads -> 0..issued'] /\ issued' \in 0..MaxCommands
                   /\ issued <= issued' /\ omitted' \in [Threads -> MoveOmissions]
  BY DEF NoCommand
<1>4. pollVars' = pollVars => created' = created /\ cycle' \in [Controllers -> SUBSET Drives]
  BY DEF pollVars
<1>5. CASE Open(d)
  BY <1>2, <1>3, <1>4, <1>5, JobsAreLegal DEF Open, Started
<1>6. CASE Configure(d)
  BY <1>2, <1>3, <1>4, <1>6, JobsAreLegal DEF Configure, Started
<1>7. CASE Cycle(d)
  BY <1>2, <1>3, <1>7, JobsAreLegal DEF Cycle, Started, AxesOf
<1>8. CASE Poll(d)
  <2>1. PICK zero \in {<<>>, ZeroJob} :
          Begin(PortThread(d), d,
                (IF d \in needsReinit THEN InitJob ELSE <<>>) \o PollJob \o zero)
    BY <1>8 DEF Poll
  <2> DEFINE job == (IF d \in needsReinit THEN InitJob ELSE <<>>) \o PollJob \o zero
  <2>2. Job(job)
    BY PollJobs
  <2> HIDE DEF job
  <2>3. Begin(PortThread(d), d, job)
    BY <2>1 DEF job
  <2> QED BY <1>2, <1>3, <1>8, <2>2, <2>3 DEF Poll, Started
<1>9. CASE PollNothing(d)
  BY <1>2, <1>9 DEF PollNothing, Skipped
<1>10. ASSUME NEW job, NEW omit \in MoveOmissions, Motion(d, job, omit), Job(job)
       PROVE  Started(PortThread(d), d, job)
  <2>1. /\ issued + 1 \in 0..MaxCommands /\ issued' = issued + 1
        /\ number' \in [Threads -> 0..issued'] /\ omitted' \in [Threads -> MoveOmissions]
    BY <1>2, <1>10 DEF Motion
  <2> QED BY <1>2, <1>4, <1>10, <2>1 DEF Motion, Command, Started
<1>11. JogOmissions \subseteq MoveOmissions /\ {} \in MoveOmissions
  BY DEF JogOmissions, MoveOmissions
<1>12. CASE Move(d)
  <2>1. PICK power \in {<<>>, Power}, omit \in MoveOmissions :
          Motion(d, Locked(power \o MoveMessages(omit)), omit)
    BY <1>12 DEF Move
  <2> QED BY <1>2, <1>10, <2>1, JobsAreLegal
<1>13. CASE Jog(d)
  <2>1. PICK power \in {<<>>, Power}, omit \in JogOmissions :
          Motion(d, Locked(power \o JogMessages(omit)), omit)
    BY <1>13 DEF Jog
  <2> QED BY <1>2, <1>10, <1>11, <2>1, JobsAreLegal
<1>14. CASE Home(d)
  <2>1. PICK power \in {<<>>, Power}, before \in {<<>>, MerJob} :
          Motion(d, before \o Locked(power \o HomeMessages), {})
    BY <1>14 DEF Home
  <2> QED BY <1>2, <1>10, <1>11, <2>1, HomeJobs
<1>15. CASE Setting(d)
  <2>1. PICK job \in {StopJob, StopHomingJob, SetPositionJob, MerJob \o ZeroJob, PowerJob} :
          Command(d, job)
    BY <1>15 DEF Setting
  <2>2. Job(job)
    BY <2>1, HomeJobs, JobsAreLegal
  <2> QED BY <1>2, <1>3, <1>4, <1>15, <2>1, <2>2 DEF Setting, Command, Started
<1> QED BY <1>1, <1>5, <1>6, <1>7, <1>8, <1>9, <1>12, <1>13, <1>14, <1>15

\* Where a handler goes on: to its next step, to its early return, or, where it ignores
\* that its channel is closed, to its first message.
Onwards(t) ==
  /\ ~Idle(t) /\ Pending(t) \in Steps /\ UNCHANGED jobVars
  /\ todo' = [todo EXCEPT ![t] = todo'[t]]
  /\ Legal(todo'[t])
  /\ \/ /\ todo'[t] = Tail(todo[t])
        /\ IF todo'[t] = <<>> THEN Pending(t) = "unlock"
           ELSE Follows(Pending(t), Head(todo'[t]))
     \/ /\ todo'[t] = EarlyReturn
        /\ \/ Pending(t) \in Messages
           \/ Pending(t) \in {"select", "channel"} /\ Own(t) \notin opened
     \/ /\ Pending(t) = "attempt" /\ Own(t) \notin opened
        /\ todo'[t] = Tail(Tail(todo[t])) /\ Tail(todo[t]) # <<>>
        /\ todo'[t] # <<>> /\ Head(todo'[t]) \in Messages \cup {"select", "unlock"}

LEMMA UnlockOnly ==
  /\ EarlyReturn = <<"unlock">> /\ EarlyReturn # <<>> /\ Head(EarlyReturn) = "unlock"
  /\ Legal(EarlyReturn) /\ Tail(EarlyReturn) = <<>>
<1>1. Tail(<<"unlock">>) = <<>>
  BY EmptySeq
<1> QED BY <1>1, JobsAreLegal DEF EarlyReturn

LEMMA StepGoesOn ==
  ASSUME IndInv, NEW t \in Threads, Step(t)
  PROVE  Onwards(t)
<1> USE DEF IndInv, TypeOK
<1>1. Legal(todo[t])
  BY DEF TodoInv
<1>2. ~Idle(t) /\ UNCHANGED jobVars
  BY DEF Step, Lock, Unlock, OpenChannel, LeaveChannel, SelectChannel, SelectFails, AttemptFails,
         InitDeferred, SetupAxis, SelectAxis, Succeed, Fail, At
<1>3. todo[t] # <<>> /\ Pending(t) \in Steps
  BY <1>1, <1>2, LegalTail DEF Idle, Pending
<1>4. CASE Proceed(t)
  <2>1. todo' = [todo EXCEPT ![t] = Tail(todo[t])] /\ todo'[t] = Tail(todo[t])
    BY <1>4 DEF Proceed
  <2> QED BY <1>1, <1>2, <1>3, <2>1, LegalTail DEF Onwards, Pending
<1>5. CASE Fail(t)
  <2>1. Pending(t) \in Messages /\ todo'[t] = AfterFailure(t)
        /\ todo' = [todo EXCEPT ![t] = AfterFailure(t)]
    BY <1>5 DEF Fail
  <2>2. CASE Pending(t) \in Decisive
    <3>1. todo'[t] = EarlyReturn
      BY <2>1, <2>2 DEF AfterFailure
    <3> QED BY <1>2, <1>3, <2>1, <3>1, UnlockOnly DEF Onwards
  <2>3. CASE Pending(t) \notin Decisive
    <3>1. Proceed(t)
      BY <2>1, <2>3 DEF AfterFailure, Proceed
    <3> QED BY <1>4, <3>1
  <2> QED BY <2>2, <2>3
<1>6. CASE SelectFails(t) \/ InitDeferred(t)
  <2>1. /\ todo' = [todo EXCEPT ![t] = EarlyReturn] /\ todo'[t] = EarlyReturn
        /\ Pending(t) \in {"select", "channel"} /\ Own(t) \notin opened
    BY <1>6 DEF SelectFails, InitDeferred, At
  <2> QED BY <1>2, <1>3, <2>1, UnlockOnly DEF Onwards
<1>7. CASE AttemptFails(t)
  <2>1. /\ todo' = [todo EXCEPT ![t] = Tail(Tail(todo[t]))] /\ todo'[t] = Tail(Tail(todo[t]))
        /\ Pending(t) = "attempt" /\ Own(t) \notin opened
    BY <1>7 DEF AttemptFails, At
  <2> DEFINE rest == Tail(todo[t])
  <2>2. Legal(rest) /\ rest # <<>> /\ Head(rest) = "axis"
    <3>1. /\ Legal(rest) /\ (rest = <<>> => Pending(t) = "unlock")
          /\ (rest # <<>> => Follows(Pending(t), Head(rest)))
      BY <1>1, <1>3, LegalTail DEF Pending
    <3> HIDE DEF rest
    <3> QED BY <2>1, <3>1, StepNames DEF Follows
  <2> HIDE DEF rest
  <2>3. /\ Legal(Tail(rest)) /\ Tail(rest) # <<>>
        /\ Head(Tail(rest)) \in Messages \cup {"select", "unlock"}
    BY <2>2, LegalTail, StepNames DEF Follows
  <2> QED BY <1>2, <1>3, <2>1, <2>2, <2>3 DEF Onwards, rest
<1> QED BY <1>4, <1>5, <1>6, <1>7
        DEF Step, Lock, Unlock, OpenChannel, LeaveChannel, SelectChannel, SetupAxis, SelectAxis,
            Succeed

LEMMA UnconfiguredPending ==
  ASSUME NEW t, Unconfigured(t)
  PROVE  /\ Pending(t) \in {"lock", "open", "unlock"}
         /\ Pending(t) = "lock" => todo[t] \in {OpenJob, InitJob}
         /\ Pending(t) = "unlock" => todo[t] = <<"unlock">>
         /\ todo[t] # InitJob /\ todo[t] # <<"unlock">> =>
              Tail(todo[t]) \in {<<"open", "unlock">>, <<"unlock">>}
<1>1. CASE todo[t] = OpenJob
  BY <1>1 DEF Pending, OpenJob
<1>2. CASE todo[t] = <<"open", "unlock">>
  BY <1>2 DEF Pending
<1>3. CASE todo[t] = <<"unlock">>
  BY <1>3 DEF Pending
<1>4. CASE todo[t] = InitJob
  BY <1>4 DEF Pending, InitJob
<1> QED BY <1>1, <1>2, <1>3, <1>4 DEF Unconfigured

-----------------------------------------------------------------------------
(* The invariant is inductive *)

LEMMA InitInd ==
  ASSUME Init
  PROVE  IndInv
<1> USE LibAssumption DEF Init
<1>1. TypeOK
  BY DEF TypeOK, Settings, ByName, Modes, MoveOmissions
<1>2. TodoInv
  BY JobsAreLegal DEF TodoInv, Idle
<1>3. LockInv
  BY DEF LockInv, Idle, Threads
<1> QED BY <1>1, <1>2, <1>3 DEF IndInv

LEMMA SkippedInd ==
  ASSUME IndInv, Skipped
  PROVE  IndInv'
BY DEF Skipped, libVars, axisVars, driveVars, jobVars, IndInv, TypeOK, TodoInv, LockInv,
       Unconfigured, Idle, Own, Pending

LEMMA StartedInd ==
  ASSUME IndInv, NEW t \in Threads, NEW d \in Drives, NEW job, Started(t, d, job)
  PROVE  IndInv'
<1> USE LibAssumption DEF IndInv
<1>1. /\ Idle(t) /\ todo' = [todo EXCEPT ![t] = job] /\ drive' = [drive EXCEPT ![t] = d]
      /\ UNCHANGED <<lock, libVars, driveVars, axisVars>>
      /\ Job(job) /\ Legal(job) /\ job # <<>> /\ Head(job) = "lock" /\ job \in Seq(Steps)
  BY DEF Started, Begin, Job, Legal, Chain
<1>2. /\ todo'[t] = job /\ drive'[t] = d
      /\ \A u \in Threads \ {t} : todo'[u] = todo[u] /\ drive'[u] = drive[u]
  BY <1>1 DEF TypeOK
<1>3. TypeOK'
  <2>1. todo' \in [Threads -> Seq(Steps)] /\ drive' \in [Threads -> Drives]
    BY <1>1 DEF TypeOK, Steps
  <2>2. setBy' \in [Drives -> [Settings -> 0..issued']]
    <3>1. 0..issued \subseteq 0..issued'
      BY DEF Started, TypeOK
    <3> QED BY <1>1, <3>1 DEF TypeOK, driveVars
  <2> QED BY <1>1, <2>1, <2>2 DEF TypeOK, Started, Steps, libVars, axisVars, driveVars
<1>4. TodoInv'
  <2>1. drive'[t] \in configured' \/ Unconfigured(t)'
    BY <1>1, <1>2 DEF Started, Unconfigured, axisVars
  <2>2. ASSUME NEW u \in Threads, u # t
        PROVE  /\ Legal(todo[u])'
               /\ (~Idle(u) => drive[u] \in configured \/ Unconfigured(u))'
    BY <1>1, <1>2, <2>2 DEF TodoInv, Idle, Unconfigured, axisVars
  <2> QED BY <1>1, <1>2, <2>1, <2>2 DEF TodoInv
<1>5. LockInv'
  <2>1. \A c \in Controllers : lock[c] # t
    BY <1>1 DEF LockInv
  <2>2. Pending(t)' = "lock"
    BY <1>1, <1>2 DEF Pending
  <2>3. ASSUME NEW u \in Threads, u # t
        PROVE  Idle(u)' = Idle(u) /\ Own(u)' = Own(u) /\ Pending(u)' = Pending(u)
    BY <1>2, <2>3 DEF Idle, Own, Pending
  <2> QED BY <1>1, <2>1, <2>2, <2>3 DEF LockInv
<1> QED BY <1>3, <1>4, <1>5

\* What a step leaves of the other threads, and of the thread's own handler.
LEMMA StepOthers ==
  ASSUME IndInv, NEW t \in Threads, Onwards(t)
  PROVE  /\ \A u \in Threads : Own(u)' = Own(u)
         /\ \A u \in Threads \ {t} :
              /\ todo'[u] = todo[u] /\ Idle(u)' = Idle(u) /\ Pending(u)' = Pending(u)
         /\ Idle(t)' = (todo'[t] = <<>>) /\ Pending(t)' = Head(todo'[t])
BY DEF IndInv, TypeOK, Onwards, jobVars, Idle, Pending, Own

LEMMA StepLock ==
  ASSUME IndInv, NEW t \in Threads, Step(t)
  PROVE  LockInv'
<1> USE LibAssumption DEF IndInv
<1>1. Onwards(t)
  BY StepGoesOn
<1>2. /\ \A u \in Threads : Own(u)' = Own(u)
      /\ \A u \in Threads \ {t} : Idle(u)' = Idle(u) /\ Pending(u)' = Pending(u)
      /\ Idle(t)' = (todo'[t] = <<>>) /\ Pending(t)' = Head(todo'[t])
  BY <1>1, StepOthers
<1>3. Own(t) \in Controllers /\ None \notin Threads
  BY DEF TypeOK, Own, Threads
<1>4. CASE Lock(t)
  <2>1. Pending(t) = "lock" /\ lock[Own(t)] = None /\ lock' = [lock EXCEPT ![Own(t)] = t]
    BY <1>4 DEF Lock, At, LockFree
  <2>2. ~Idle(t)' /\ Pending(t)' # "lock"
    BY <1>1, <1>2, <2>1, StepNames DEF Onwards, Follows
  <2>3. \A c \in Controllers : lock'[c] = IF c = Own(t) THEN t ELSE lock[c]
    BY <2>1 DEF TypeOK
  <2> QED BY <1>2, <1>3, <2>1, <2>2, <2>3 DEF LockInv
<1>5. CASE Unlock(t)
  <2>1. ~Idle(t) /\ Pending(t) = "unlock" /\ lock' = [lock EXCEPT ![Own(t)] = None]
    BY <1>5 DEF Unlock, At
  <2>2. Idle(t)' \/ Pending(t)' = "lock"
    BY <1>1, <1>2, <2>1, StepNames DEF Onwards, Follows
  <2>3. \A c \in Controllers : lock'[c] = IF c = Own(t) THEN None ELSE lock[c]
    BY <2>1 DEF TypeOK
  <2>4. lock[Own(t)] = t
    BY <1>3, <2>1 DEF LockInv
  <2> QED BY <1>2, <1>3, <2>1, <2>2, <2>3, <2>4 DEF LockInv
<1>6. CASE ~Lock(t) /\ ~Unlock(t)
  <2>1. /\ lock' = lock /\ ~Idle(t)
        /\ Pending(t) \in Messages \cup {"open", "select", "attempt", "channel", "setup", "axis"}
    BY <1>6 DEF Step, OpenChannel, LeaveChannel, SelectChannel, SelectFails, AttemptFails,
                InitDeferred, SetupAxis, SelectAxis, Succeed, Fail, At
  <2>2. ~Idle(t)' /\ Pending(t)' # "lock" /\ Pending(t) # "lock"
    BY <1>1, <1>2, <2>1, StepNames, UnlockOnly DEF Onwards, Follows
  <2> QED BY <1>2, <2>1, <2>2 DEF LockInv
<1> QED BY <1>4, <1>5, <1>6

\* A thread at work: only the first steps of a handler precede its axis's configuration.
LEMMA AtWork ==
  ASSUME IndInv, NEW t \in Threads, ~Idle(t)
  PROVE  Pending(t) \notin {"lock", "open", "unlock"} => drive[t] \in configured
<1>1. CASE Unconfigured(t)
  BY <1>1, UnconfiguredPending
<1> QED BY <1>1 DEF IndInv, TodoInv

LEMMA ExecuteType ==
  ASSUME TypeOK, NEW t \in Threads, NEW msg, NEW at, Execute(t, msg, at), UNCHANGED issued
  PROVE  /\ setBy' \in [Drives -> [Settings -> 0..issued]]
         /\ mode' \in [Drives -> Modes]
<1>1. number[t] \in 0..issued
  BY DEF TypeOK
<1>2. \A d \in Drives, s \in Settings : setBy[d][s] \in 0..issued
  BY DEF TypeOK
<1>3. setBy' \in [Drives -> [Settings -> 0..issued]]
  BY <1>1, <1>2 DEF Execute
<1>4. mode' \in [Drives -> Modes]
  BY DEF Execute, TypeOK
<1> QED BY <1>3, <1>4

LEMMA StepType ==
  ASSUME IndInv, NEW t \in Threads, Step(t)
  PROVE  TypeOK'
<1> USE LibAssumption DEF IndInv
<1>1. Onwards(t)
  BY StepGoesOn
<1>2. /\ todo' \in [Threads -> Seq(Steps)] /\ UNCHANGED jobVars
      /\ drive' \in [Threads -> Drives] /\ number' \in [Threads -> 0..issued']
      /\ issued' \in 0..MaxCommands /\ omitted' \in [Threads -> MoveOmissions]
  BY <1>1 DEF Onwards, Legal, Chain, TypeOK, Steps, jobVars
<1>3. Own(t) \in Controllers /\ drive[t] \in Drives /\ ~Idle(t)
  BY <1>1 DEF TypeOK, Own, Onwards
<1> USE DEF TypeOK, Steps
<1>4. CASE Lock(t)
  BY <1>2, <1>3, <1>4 DEF Lock, pollVars, libVars, jobVars, driveVars
<1>5. CASE Unlock(t)
  BY <1>2, <1>3, <1>5 DEF Unlock, pollVars, libVars, jobVars, driveVars, axisVars
<1>6. CASE OpenChannel(t)
  BY <1>2, <1>3, <1>6 DEF OpenChannel, OpenedAfter, jobVars, driveVars
<1>7. CASE LeaveChannel(t)
  BY <1>2, <1>3, <1>7 DEF LeaveChannel, libVars, jobVars, driveVars, axisVars
<1>8. CASE SelectChannel(t)
  BY <1>2, <1>3, <1>8 DEF SelectChannel, pollVars, jobVars, driveVars, axisVars
<1>9. CASE SelectFails(t) \/ AttemptFails(t)
  BY <1>2, <1>3, <1>9 DEF SelectFails, AttemptFails, pollVars, libVars, jobVars, driveVars,
                          axisVars
<1>10. CASE InitDeferred(t)
  <2>1. drive[t] \in configured
    BY <1>3, <1>10, AtWork DEF InitDeferred, At
  <2> QED BY <1>2, <1>3, <1>10, <2>1 DEF InitDeferred, pollVars, libVars, jobVars, driveVars
<1>11. CASE SetupAxis(t)
  BY <1>2, <1>3, <1>11 DEF SetupAxis, pollVars, jobVars, driveVars, axisVars
<1>12. CASE SelectAxis(t)
  BY <1>2, <1>3, <1>12 DEF SelectAxis, pollVars, jobVars, driveVars, axisVars
<1>13. CASE Succeed(t) \/ Fail(t)
  <2>1. /\ Pending(t) \in Messages /\ UNCHANGED <<lock, pollVars, libVars, configured, jobVars>>
        /\ needsReinit' \subseteq needsReinit \cup {drive[t]}
        /\ \E at : Execute(t, Pending(t), at)
    BY <1>13 DEF Succeed, Fail
  <2>2. drive[t] \in configured
    BY <1>3, <2>1, AtWork, StepNames
  <2>3. /\ setBy' \in [Drives -> [Settings -> 0..issued]]
        /\ mode' \in [Drives -> Modes]
    BY <2>1, ExecuteType DEF jobVars
  <2> QED BY <1>2, <2>1, <2>2, <2>3 DEF libVars, pollVars, jobVars
<1> HIDE DEF TypeOK
<1> QED BY <1>4, <1>5, <1>6, <1>7, <1>8, <1>9, <1>10, <1>11, <1>12, <1>13 DEF Step

LEMMA StepTodo ==
  ASSUME IndInv, NEW t \in Threads, Step(t)
  PROVE  TodoInv'
<1> USE LibAssumption DEF IndInv
<1>1. Onwards(t) /\ ~Idle(t)
  BY StepGoesOn DEF Onwards
<1>2. /\ \A u \in Threads : drive'[u] = drive[u]
      /\ \A u \in Threads \ {t} :
           /\ todo'[u] = todo[u] /\ Idle(u)' = Idle(u)
      /\ Idle(t)' = (todo'[t] = <<>>)
  BY <1>1, StepOthers DEF Onwards, jobVars
<1>3. configured \subseteq configured'
  BY DEF Step, Lock, Unlock, OpenChannel, LeaveChannel, SelectChannel, SelectFails, AttemptFails,
         InitDeferred, SetupAxis, SelectAxis, Succeed, Fail, axisVars
<1>4. ASSUME NEW u \in Threads, u # t
      PROVE  (Legal(todo[u]) /\ (~Idle(u) => drive[u] \in configured \/ Unconfigured(u)))'
  BY <1>2, <1>3, <1>4 DEF TodoInv, Unconfigured
<1>5. Idle(t)' \/ drive'[t] \in configured' \/ Unconfigured(t)'
  <2>1. CASE drive[t] \in configured
    BY <1>2, <1>3, <2>1
  <2>2. CASE Unconfigured(t)
    <3>1. todo'[t] = Tail(todo[t])
      BY <1>1, <2>2, UnconfiguredPending, StepNames DEF Onwards
    <3>2. CASE todo[t] = <<"unlock">>
      <4>1. Tail(<<"unlock">>) = <<>>
        BY EmptySeq
      <4> QED BY <1>2, <3>1, <3>2, <4>1
    <3>3. CASE todo[t] = InitJob /\ t = Iocsh
      <4>1. Pending(t) = "lock"
        BY <3>3 DEF Pending, InitJob
      <4>2. Lock(t)
        BY <4>1, StepNames DEF Step, OpenChannel, LeaveChannel, Unlock, SelectChannel, SelectFails,
           AttemptFails, InitDeferred, SetupAxis, SelectAxis, Succeed, Fail, At
      <4> QED BY <1>2, <3>3, <4>2 DEF Lock
    <3>4. CASE todo[t] \in {OpenJob, <<"open", "unlock">>}
      <4>1. OpenJob # InitJob /\ OpenJob # <<"unlock">>
            /\ <<"open", "unlock">> # InitJob /\ <<"open", "unlock">> # <<"unlock">>
        BY DEF OpenJob, InitJob
      <4> QED BY <2>2, <3>1, <3>4, <4>1, UnconfiguredPending DEF Unconfigured
    <3> QED BY <2>2, <3>2, <3>3, <3>4 DEF Unconfigured
  <2> QED BY <1>1, <2>1, <2>2 DEF TodoInv
<1>6. Legal(todo'[t])
  BY <1>1 DEF Onwards
<1> QED BY <1>4, <1>5, <1>6 DEF TodoInv

THEOREM Invariance == Spec => []IndInv
<1>1. IndInv /\ [Next]_vars => IndInv'
  <2> SUFFICES ASSUME IndInv, [Next]_vars
               PROVE  IndInv'
    OBVIOUS
  <2>1. CASE Handlers
    BY <2>1, HandlersStart, StartedInd, SkippedInd
  <2>2. ASSUME NEW t \in Threads, Step(t)
        PROVE  IndInv'
    BY <2>2, StepLock, StepType, StepTodo DEF IndInv
  <2>3. CASE UNCHANGED vars
    BY <2>3 DEF vars, pollVars, libVars, axisVars, driveVars, jobVars, IndInv, TypeOK, TodoInv,
                LockInv, Unconfigured, Idle, Own, Pending
  <2> QED BY <2>1, <2>2, <2>3 DEF Next
<1> QED BY <1>1, InitInd, PTL DEF Spec

\* Types, for any number of controllers, axes and commands.
THEOREM TypeCorrect == Spec => []TypeOK
BY Invariance, PTL DEF IndInv

-----------------------------------------------------------------------------
(* One controller: what has been selected under the lock stays selected *)

OneController == \A c, d \in Controllers : c = d

\* The axes of a controller have ids of their own.
UniqueIds ==
  \A d, e \in Drives : ControllerOf[d] = ControllerOf[e] /\ AxisId[d] = AxisId[e] => d = e

SelectedInv ==
  \A t \in Threads : ~Idle(t) =>
    /\ Pending(t) \in {"setup", "axis"} => activeCh = Own(t)
    /\ Pending(t) \in Messages /\ Own(t) \in opened =>
         activeCh = Own(t) /\ activeAxis[Own(t)] = AxisId[drive[t]]

LEMMA StartedSelected ==
  ASSUME IndInv, SelectedInv, NEW t \in Threads, NEW d \in Drives, NEW job, Started(t, d, job)
  PROVE  SelectedInv'
<1>1. /\ todo' = [todo EXCEPT ![t] = job] /\ drive' = [drive EXCEPT ![t] = d]
      /\ UNCHANGED <<opened, activeCh, activeAxis>> /\ Head(job) = "lock"
  BY DEF Started, Begin, Job, libVars
<1>2. Pending(t)' = "lock"
  BY <1>1 DEF Pending, IndInv, TypeOK
<1>3. ASSUME NEW u \in Threads, u # t
      PROVE  /\ Idle(u)' = Idle(u) /\ Own(u)' = Own(u) /\ Pending(u)' = Pending(u)
             /\ drive'[u] = drive[u]
  BY <1>1, <1>3 DEF Idle, Own, Pending, IndInv, TypeOK
<1> QED BY <1>1, <1>2, <1>3, StepNames DEF SelectedInv

LEMMA StepSelected ==
  ASSUME OneController, IndInv, SelectedInv, NEW t \in Threads, Step(t)
  PROVE  SelectedInv'
<1> USE LibAssumption DEF IndInv
<1>1. Onwards(t) /\ ~Idle(t)
  BY StepGoesOn DEF Onwards
<1>2. /\ \A u \in Threads : Own(u)' = Own(u) /\ drive'[u] = drive[u]
      /\ \A u \in Threads \ {t} : Idle(u)' = Idle(u) /\ Pending(u)' = Pending(u)
      /\ Idle(t)' = (todo'[t] = <<>>) /\ Pending(t)' = Head(todo'[t])
  BY <1>1, StepOthers DEF Onwards, jobVars
<1>3. \A u \in Threads : Own(u) = Own(t) /\ Own(u) \in Controllers
  BY DEF OneController, TypeOK, Own
<1>4. activeCh' \in {activeCh, Own(t)}
  BY DEF Step, Lock, Unlock, OpenChannel, LeaveChannel, SelectChannel, SelectFails, AttemptFails,
         InitDeferred, SetupAxis, SelectAxis, Succeed, Fail, libVars
<1>5. Pending(t) # "axis" => activeAxis' = activeAxis
  BY DEF Step, Lock, Unlock, OpenChannel, LeaveChannel, SelectChannel, SelectFails, AttemptFails,
         InitDeferred, SetupAxis, SelectAxis, Succeed, Fail, libVars, At
<1>6. Pending(t) # "open" => opened' = opened
  BY DEF Step, Lock, Unlock, OpenChannel, LeaveChannel, SelectChannel, SelectFails, AttemptFails,
         InitDeferred, SetupAxis, SelectAxis, Succeed, Fail, libVars, At
<1>7. Pending(t) = "axis" => /\ activeCh' = activeCh
                             /\ activeAxis' = [activeAxis EXCEPT ![activeCh] = AxisId[drive[t]]]
  BY StepNames
     DEF Step, Lock, Unlock, OpenChannel, LeaveChannel, SelectChannel, SelectFails, AttemptFails,
         InitDeferred, SetupAxis, SelectAxis, Succeed, Fail, At
<1>8. Pending(t) \in {"select", "attempt", "channel"} =>
        \/ SelectChannel(t) \/ (todo'[t] = EarlyReturn /\ Pending(t) # "attempt")
        \/ AttemptFails(t)
  BY StepNames
     DEF Step, Lock, Unlock, OpenChannel, LeaveChannel, SelectFails, InitDeferred, SetupAxis,
         SelectAxis, Succeed, Fail, At, TypeOK
<1>9. ASSUME NEW u \in Threads, u # t, ~Idle(u)'
      PROVE  (/\ Pending(u) \in {"setup", "axis"} => activeCh = Own(u)
              /\ Pending(u) \in Messages /\ Own(u) \in opened =>
                   activeCh = Own(u) /\ activeAxis[Own(u)] = AxisId[drive[u]])'
  <2>1. ~Idle(u) /\ Pending(u)' = Pending(u) /\ Own(u)' = Own(u) /\ drive'[u] = drive[u]
    BY <1>2, <1>9
  <2>2. Pending(u) \in {"setup", "axis"} => activeCh' = Own(u)
    BY <1>3, <1>4, <2>1 DEF SelectedInv
  <2>3. Pending(u) \in Messages => Pending(t) \notin {"axis", "open"}
    <3>1. CASE Pending(u) \in Messages /\ Pending(t) \in {"axis", "open"}
      <4>1. lock[Own(u)] = u /\ lock[Own(t)] = t
        BY <1>1, <1>3, <2>1, <3>1, StepNames DEF LockInv
      <4> QED BY <4>1, <1>3, <1>9
    <3> QED BY <3>1
  <2>4. Pending(u) \in Messages /\ Own(u) \in opened' =>
          activeCh' = Own(u) /\ activeAxis'[Own(u)] = AxisId[drive[u]]
    BY <1>3, <1>4, <1>5, <1>6, <2>1, <2>3 DEF SelectedInv
  <2> QED BY <2>1, <2>2, <2>4
<1>10. ASSUME ~Idle(t)'
       PROVE  (/\ Pending(t) \in {"setup", "axis"} => activeCh = Own(t)
               /\ Pending(t) \in Messages /\ Own(t) \in opened =>
                    activeCh = Own(t) /\ activeAxis[Own(t)] = AxisId[drive[t]])'
  <2>1. CASE todo'[t] = EarlyReturn
    <3>1. Pending(t)' = "unlock"
      BY <1>2, <2>1, UnlockOnly
    <3> QED BY <3>1, StepNames
  <2>2. CASE SelectChannel(t)
    <3>1. activeCh' = Own(t) /\ todo'[t] = Tail(todo[t]) /\ Pending(t) \notin Messages
          /\ Pending(t) \in {"select", "attempt", "channel"}
      BY <2>2, StepNames DEF SelectChannel, Proceed, TypeOK
    <3>2. Pending(t)' \notin Messages
      <4>1. CASE Follows(Pending(t), Pending(t)')
        BY <3>1, <4>1, StepNames DEF Follows
      <4>2. CASE todo'[t] = EarlyReturn
        BY <1>2, <4>2, UnlockOnly, StepNames
      <4>3. CASE Own(t) \notin opened
        BY <2>2, <4>3 DEF SelectChannel
      <4> QED BY <1>1, <1>2, <1>10, <4>1, <4>2, <4>3 DEF Onwards
    <3> QED BY <1>2, <3>1, <3>2
  <2>3. CASE AttemptFails(t)
    <3>1. Pending(t) = "attempt" /\ Own(t) \notin opened /\ todo'[t] = Tail(Tail(todo[t]))
      BY <2>3 DEF AttemptFails, At, TypeOK
    <3>2. Pending(t)' \notin {"setup", "axis"}
      <4>1. CASE Head(todo'[t]) \in Messages \cup {"select", "unlock"}
        BY <1>2, <4>1, StepNames
      <4>2. CASE todo'[t] = Tail(todo[t])
        <5> DEFINE rest == Tail(todo[t])
        <5>1. Tail(rest) = rest /\ rest \in Seq(Steps) /\ rest # <<>>
          BY <1>1, <1>2, <1>10, <3>1, <4>2 DEF Onwards, Legal, Chain
        <5> HIDE DEF rest
        <5>2. Len(Tail(rest)) = Len(rest) - 1 /\ Len(rest) \in Nat
          BY <5>1, HeadTailProperties, LenProperties
        <5> QED BY <5>1, <5>2
      <4> QED BY <1>1, <2>1, <3>1, <4>1, <4>2, StepNames DEF Onwards
    <3>3. Own(t)' \notin opened'
      BY <1>2, <1>6, <3>1
    <3> QED BY <3>2, <3>3
  <2>4. CASE Pending(t) \notin {"select", "attempt", "channel"} /\ todo'[t] # EarlyReturn
    <3>1. Follows(Pending(t), Pending(t)')
      BY <1>1, <1>2, <1>10, <2>4 DEF Onwards
    <3>2. CASE Pending(t) \in {"setup", "axis"}
      <4>1. activeCh = Own(t)
        BY <1>1, <3>2 DEF SelectedInv
      <4>2. CASE Pending(t) = "axis"
        BY <1>2, <1>3, <1>7, <4>1, <4>2 DEF TypeOK
      <4>3. CASE Pending(t) = "setup"
        BY <1>2, <1>4, <3>1, <4>1, <4>3, StepNames DEF Follows
      <4> QED BY <3>2, <4>2, <4>3
    <3>3. CASE Pending(t) \in Messages
      <4>1. Pending(t) \notin {"axis", "open"} /\ Pending(t)' \notin {"setup", "axis"}
        BY <3>1, <3>3, StepNames DEF Follows
      <4>2. Own(t) \in opened' => activeCh' = Own(t) /\ activeAxis'[Own(t)] = AxisId[drive[t]]
        BY <1>1, <1>4, <1>5, <1>6, <3>3, <4>1 DEF SelectedInv
      <4> QED BY <1>2, <4>1, <4>2
    <3>4. CASE Pending(t) \notin Messages \cup {"setup", "axis"}
      BY <2>4, <3>1, <3>4, StepNames DEF Follows
    <3> QED BY <3>2, <3>3, <3>4
  <2> QED BY <1>8, <2>1, <2>2, <2>3, <2>4
<1> QED BY <1>9, <1>10 DEF SelectedInv

THEOREM Selected ==
  ASSUME OneController
  PROVE  Spec => [](IndInv /\ SelectedInv)
<1>1. Init => SelectedInv
  BY DEF Init, SelectedInv, Idle
<1>2. IndInv /\ SelectedInv /\ [Next]_vars => SelectedInv'
  <2> SUFFICES ASSUME IndInv, SelectedInv, [Next]_vars
               PROVE  SelectedInv'
    OBVIOUS
  <2>1. CASE Handlers
    <3>1. CASE Skipped
      BY <3>1 DEF Skipped, libVars, jobVars, SelectedInv, Idle, Own, Pending
    <3> QED BY <2>1, <3>1, HandlersStart, StartedSelected
  <2>2. ASSUME NEW t \in Threads, Step(t)
        PROVE  SelectedInv'
    BY <2>2, StepSelected
  <2>3. CASE UNCHANGED vars
    BY <2>3 DEF vars, libVars, jobVars, SelectedInv, Idle, Own, Pending
  <2> QED BY <2>1, <2>2, <2>3 DEF Next
<1> QED BY <1>1, <1>2, Invariance, PTL DEF Spec

\* With one controller, whose axes have ids of their own, every message reaches the
\* drive of the axis whose handler sends it, and on a closed channel none: selections
\* outlive no lock, and no handler relies on one made under an earlier one.
THEOREM CallsReach ==
  ASSUME OneController, UniqueIds
  PROVE  Spec => []CallsReachOwnDrive
<1>1. IndInv /\ SelectedInv => CallsReachOwnDrive
  <2> SUFFICES ASSUME IndInv, SelectedInv,
                      NEW t \in Threads, ~Idle(t), Pending(t) \in Messages
               PROVE  /\ Target \subseteq {drive[t]}
                      /\ Own(t) \in opened => Target = {drive[t]}
    BY DEF CallsReachOwnDrive
  <2>1. CASE Own(t) \in opened
    <3>1. /\ activeCh = ControllerOf[drive[t]] /\ drive[t] \in Drives
          /\ activeAxis[activeCh] = AxisId[drive[t]]
      BY <2>1 DEF SelectedInv, Own, IndInv, TypeOK
    <3> QED BY <3>1 DEF Target, UniqueIds
  <2>2. CASE Own(t) \notin opened
    <3>1. Own(t) \in Controllers /\ opened \subseteq Controllers
      BY LibAssumption DEF Own, IndInv, TypeOK
    <3>2. opened = {} /\ activeCh = None
      BY <2>2, <3>1 DEF OneController, IndInv, TypeOK
    <3>3. Target = {}
      BY <3>2, LibAssumption DEF Target
    <3> QED BY <2>2, <3>3
  <2> QED BY <2>1, <2>2
<1> QED BY <1>1, Selected, PTL

-----------------------------------------------------------------------------
(* How the start-up script and the cycles proceed *)

Opening == {OpenJob, <<"open", "unlock">>}

\* What is left of InitJob after a step.
InitAfter(step) ==
  CASE step = "lock" -> <<"channel", "setup", "axis", "ENDINIT", "SCR", "EVENTS", "unlock">>
    [] step = "channel" -> <<"setup", "axis", "ENDINIT", "SCR", "EVENTS", "unlock">>
    [] step = "setup" -> <<"axis", "ENDINIT", "SCR", "EVENTS", "unlock">>
    [] step = "axis" -> <<"ENDINIT", "SCR", "EVENTS", "unlock">>
    [] step = "ENDINIT" -> <<"SCR", "EVENTS", "unlock">>
    [] OTHER -> <<"EVENTS", "unlock">>

\* What is left on the start-up script's thread: of OpenJob or of InitJob.
ScriptTodo ==
  Opening \cup {<<>>, <<"unlock">>, InitJob}
    \cup {InitAfter(step) : step \in {"lock", "channel", "setup", "axis", "ENDINIT", "SCR"}}

Quiet == Steps \ {"open"}

\* Before its constructor has tried to open the channel a controller has no handlers
\* and no configured axes, and a channel is opened only before the axes are polled.
StartInv ==
  /\ todo[Iocsh] \in ScriptTodo
  /\ todo[Iocsh] \in Opening => Own(Iocsh) \notin created
  /\ todo[Iocsh] = InitJob => Own(Iocsh) \in created
  /\ \A c \in Controllers \ created : Idle(c) /\ configured \cap AxesOf(c) = {}
  /\ \A c \in Controllers :
       /\ todo[c] \in Seq(Quiet) \cup Opening
       /\ todo[c] \in Opening => cycle[c] = AxesOf(c)

LEMMA QuietJobs ==
  /\ \A job \in {InitJob, PollJob, StopJob, StopHomingJob, ZeroJob, SetPositionJob, MerJob,
                 PowerJob, <<>>, <<"unlock">>} : job \in Seq(Quiet)
  /\ \A m \in Seq(Messages), power \in {<<>>, Power} : Locked(power \o m) \in Seq(Quiet)
<1> DEFINE sel == <<"lock", "select", "axis">>
           att == <<"lock", "attempt", "axis">>
           u == <<"unlock">>
<1>1. sel \in Seq(Quiet) /\ att \in Seq(Quiet) /\ u \in Seq(Quiet)
  BY DEF Quiet, Steps, Calls
<1>2. InitJob \in Seq(Quiet) /\ Power \in Seq(Quiet)
  BY DEF Quiet, Steps, Calls, InitJob, Power, Messages
<1>3. <<>> \in Seq(Quiet)
  BY EmptySeq
<1>4. \A m \in Seq(Messages) : m \in Seq(Quiet)
  <2>1. Messages \subseteq Quiet
    BY StepNames DEF Quiet, Steps
  <2> QED BY <2>1
<1>5. \A m : Locked(m) = (sel \o m) \o u /\ Attempted(m) = (att \o m) \o u
  BY DEF Locked, Attempted
<1> HIDE DEF sel, att, u
<1>6. ASSUME NEW m \in Seq(Quiet)
      PROVE  Locked(m) \in Seq(Quiet) /\ Attempted(m) \in Seq(Quiet)
  <2>1. sel \o m \in Seq(Quiet) /\ att \o m \in Seq(Quiet)
    BY <1>1
  <2>2. (sel \o m) \o u \in Seq(Quiet) /\ (att \o m) \o u \in Seq(Quiet)
    BY <1>1, <2>1
  <2> QED BY <1>5, <2>2
<1>7. ASSUME NEW m \in Seq(Messages), NEW power \in {<<>>, Power}
      PROVE  power \o m \in Seq(Quiet)
  <2>1. m \in Seq(Quiet) /\ power \in Seq(Quiet)
    BY <1>2, <1>3, <1>4
  <2> QED BY <2>1
<1>8. /\ <<"ENABLE_OFF">> \in Seq(Messages) /\ <<"STOP", "EVENTS">> \in Seq(Messages)
      /\ <<"SAP", "EVENTS">> \in Seq(Messages) /\ <<"MER">> \in Seq(Messages)
      /\ <<"POWER">> \in Seq(Messages) /\ <<"STOP">> \in Seq(Messages)
      /\ <<"SAP">> \in Seq(Messages)
  BY DEF Messages
<1>9. /\ PollJob \in Seq(Quiet) /\ StopJob \in Seq(Quiet) /\ StopHomingJob \in Seq(Quiet)
      /\ ZeroJob \in Seq(Quiet) /\ SetPositionJob \in Seq(Quiet) /\ MerJob \in Seq(Quiet)
      /\ PowerJob \in Seq(Quiet)
  BY <1>4, <1>6, <1>8 DEF PollJob, StopJob, StopHomingJob, ZeroJob, SetPositionJob, MerJob,
                          PowerJob
<1>10. \A m \in Seq(Messages), power \in {<<>>, Power} : Locked(power \o m) \in Seq(Quiet)
  BY <1>6, <1>7
<1> QED BY <1>1, <1>2, <1>3, <1>9, <1>10 DEF u

\* Every command sends messages; only Open and Cycle open.
LEMMA CommandsQuiet ==
  ASSUME NEW d, Move(d) \/ Jog(d) \/ Home(d) \/ Setting(d)
  PROVE  \E job \in Seq(Quiet) : Command(d, job) /\ Job(job)
<1>1. CASE Move(d)
  <2>1. PICK power \in {<<>>, Power}, omit \in MoveOmissions :
          Motion(d, Locked(power \o MoveMessages(omit)), omit)
    BY <1>1 DEF Move
  <2> QED BY <2>1, QuietJobs, ProfileMessages, JobsAreLegal DEF Motion
<1>2. CASE Jog(d)
  <2>1. PICK power \in {<<>>, Power}, omit \in JogOmissions :
          Motion(d, Locked(power \o JogMessages(omit)), omit)
    BY <1>2 DEF Jog
  <2> QED BY <2>1, QuietJobs, ProfileMessages, JobsAreLegal DEF Motion
<1>3. CASE Home(d)
  <2>1. PICK power \in {<<>>, Power}, before \in {<<>>, MerJob} :
          Motion(d, before \o Locked(power \o HomeMessages), {})
    BY <1>3 DEF Home
  <2> DEFINE home == Locked(power \o HomeMessages)
  <2>2. home \in Seq(Quiet) /\ before \in Seq(Quiet)
    BY QuietJobs, ProfileMessages
  <2>3. Command(d, before \o home) /\ Job(before \o home)
    BY <2>1, HomeJobs DEF Motion
  <2> HIDE DEF home
  <2>4. before \o home \in Seq(Quiet)
    BY <2>2
  <2> QED BY <2>3, <2>4
<1>4. CASE Setting(d)
  <2>1. MerJob \o ZeroJob \in Seq(Quiet)
    BY QuietJobs
  <2> QED BY <1>4, <2>1, QuietJobs, HomeJobs, JobsAreLegal DEF Setting
<1> QED BY <1>1, <1>2, <1>3, <1>4

LEMMA PollsQuiet ==
  ASSUME NEW d, Poll(d)
  PROVE  \E job \in Seq(Quiet) : Begin(PortThread(d), d, job)
<1>1. PICK zero \in {<<>>, ZeroJob} :
        Begin(PortThread(d), d,
              (IF d \in needsReinit THEN InitJob ELSE <<>>) \o PollJob \o zero)
  BY DEF Poll
<1>2. (IF d \in needsReinit THEN InitJob ELSE <<>>) \o PollJob \o zero \in Seq(Quiet)
  <2> DEFINE init == IF d \in needsReinit THEN InitJob ELSE <<>>
  <2>1. init \in Seq(Quiet) /\ PollJob \in Seq(Quiet) /\ zero \in Seq(Quiet)
    BY QuietJobs
  <2> HIDE DEF init
  <2>2. init \o PollJob \o zero \in Seq(Quiet)
    BY <2>1
  <2> QED BY <2>2 DEF init
<1> QED BY <1>1, <1>2

LEMMA HandlersStartInv ==
  ASSUME OneController, IndInv, StartInv, Handlers
  PROVE  StartInv'
<1> USE LibAssumption DEF IndInv, TypeOK
<1>1. PICK d \in Drives :
        \/ Open(d) \/ Configure(d) \/ Cycle(d) \/ Poll(d) \/ PollNothing(d)
        \/ Move(d) \/ Jog(d) \/ Home(d) \/ Setting(d)
  BY DEF Handlers
<1>2. /\ PortThread(d) \in Controllers /\ PortThread(d) = ControllerOf[d]
      /\ Iocsh \in Threads /\ PortThread(d) \in Threads /\ PortThread(d) # Iocsh
      /\ \A c \in Controllers : c = PortThread(d) /\ AxesOf(c)' = AxesOf(c)
  BY DEF PortThread, Threads, OneController, AxesOf
<1>3. CASE Open(d) \/ Configure(d)
  <2>1. PICK job \in {OpenJob, InitJob} :
          /\ Begin(Iocsh, d, job) /\ UNCHANGED pollVars
          /\ job = OpenJob => ControllerOf[d] \notin created
          /\ job = InitJob => ControllerOf[d] \in created
    <3>1. OpenJob # InitJob
      BY DEF OpenJob, InitJob
    <3> QED BY <1>3, <3>1 DEF Open, Configure
  <2>2. /\ todo'[Iocsh] = job /\ Own(Iocsh)' = ControllerOf[d]
        /\ \A c \in Controllers : todo'[c] = todo[c]
        /\ configured' = configured /\ created' = created /\ cycle' = cycle
    BY <1>2, <2>1 DEF Begin, axisVars, pollVars, Own
  <2>3. job \in ScriptTodo /\ (job \in Opening => job = OpenJob)
    BY <2>1 DEF ScriptTodo, Opening, OpenJob, InitJob
  <2> QED BY <1>2, <2>1, <2>2, <2>3 DEF StartInv, Idle
<1>4. ASSUME NEW job \in Seq(Quiet) \cup {OpenJob}, Begin(PortThread(d), d, job),
             PortThread(d) \in created, created' = created,
             job = OpenJob => cycle'[PortThread(d)] = AxesOf(PortThread(d))
      PROVE  StartInv'
  <2>1. /\ todo'[Iocsh] = todo[Iocsh] /\ Own(Iocsh)' = Own(Iocsh)
        /\ todo'[PortThread(d)] = job /\ configured' = configured
    BY <1>2, <1>4 DEF Begin, axisVars, Own
  <2>2. job \in Opening => job = OpenJob
    <3>1. <<"open", "unlock">> \notin Seq(Quiet)
      <4>1. <<"open", "unlock">>[1] \notin Quiet /\ Len(<<"open", "unlock">>) = 2
        BY DEF Quiet
      <4> QED BY <4>1
    <3> QED BY <1>4, <3>1 DEF Opening
  <2>3. Controllers \ created = {}
    BY <1>2, <1>4
  <2>4. job \in Seq(Quiet) \cup Opening
    BY <1>4 DEF Opening
  <2> QED BY <1>2, <1>4, <2>1, <2>2, <2>3, <2>4 DEF StartInv
<1>5. CASE Cycle(d)
  BY <1>2, <1>4, <1>5 DEF Cycle
<1>6. d \in configured => PortThread(d) \in created
  BY <1>2 DEF StartInv, AxesOf
<1>7. OpenJob \notin Seq(Quiet)
  <2>1. OpenJob[2] \notin Quiet /\ 2 \in 1 .. Len(OpenJob)
    BY DEF Quiet, OpenJob
  <2>2. \A r \in Seq(Quiet) : \A i \in 1 .. Len(r) : r[i] \in Quiet
    OBVIOUS
  <2> QED BY <2>1, <2>2
<1>8. CASE Poll(d)
  BY <1>2, <1>4, <1>6, <1>7, <1>8, PollsQuiet DEF Poll
<1>9. CASE PollNothing(d)
  <2>1. todo[PortThread(d)] = <<>> /\ <<>> \notin Opening
    BY <1>9 DEF PollNothing, Idle, Opening, OpenJob
  <2>2. /\ todo' = todo /\ created' = created /\ configured' = configured
        /\ Own(Iocsh)' = Own(Iocsh)
    BY <1>9 DEF PollNothing, axisVars, jobVars, Own
  <2> QED BY <1>2, <2>1, <2>2 DEF StartInv, Idle
<1>10. CASE Move(d) \/ Jog(d) \/ Home(d) \/ Setting(d)
  BY <1>2, <1>4, <1>6, <1>7, <1>10, CommandsQuiet DEF Command, pollVars
<1> QED BY <1>1, <1>3, <1>5, <1>8, <1>9, <1>10

\* What is left of the script's handler, step by step.
LEMMA ScriptTails ==
  /\ Head(OpenJob) = "lock" /\ Tail(OpenJob) = <<"open", "unlock">>
  /\ Head(<<"open", "unlock">>) = "open" /\ Tail(<<"open", "unlock">>) = <<"unlock">>
  /\ Head(<<"unlock">>) = "unlock" /\ Tail(<<"unlock">>) = <<>>
  /\ Head(InitJob) = "lock" /\ Tail(InitJob) = InitAfter("lock")
  /\ Head(InitAfter("lock")) = "channel" /\ Tail(InitAfter("lock")) = InitAfter("channel")
  /\ Head(InitAfter("channel")) = "setup" /\ Tail(InitAfter("channel")) = InitAfter("setup")
  /\ Head(InitAfter("setup")) = "axis" /\ Tail(InitAfter("setup")) = InitAfter("axis")
  /\ Head(InitAfter("axis")) = "ENDINIT" /\ Tail(InitAfter("axis")) = InitAfter("ENDINIT")
  /\ Head(InitAfter("ENDINIT")) = "SCR" /\ Tail(InitAfter("ENDINIT")) = InitAfter("SCR")
  /\ Head(InitAfter("SCR")) = "EVENTS" /\ Tail(InitAfter("SCR")) = <<"unlock">>
<1>1. Tail(<<"unlock">>) = <<>>
  BY EmptySeq
<1>2. /\ Head(OpenJob) = "lock" /\ Tail(OpenJob) = <<"open", "unlock">>
      /\ Head(<<"open", "unlock">>) = "open" /\ Tail(<<"open", "unlock">>) = <<"unlock">>
      /\ Head(<<"unlock">>) = "unlock"
  BY DEF OpenJob
<1>3. Head(InitJob) = "lock" /\ Tail(InitJob) = InitAfter("lock")
  BY DEF InitJob, InitAfter
<1>4. Head(InitAfter("lock")) = "channel" /\ Tail(InitAfter("lock")) = InitAfter("channel")
  BY DEF InitAfter
<1>5. Head(InitAfter("channel")) = "setup" /\ Tail(InitAfter("channel")) = InitAfter("setup")
  BY DEF InitAfter
<1>6. Head(InitAfter("setup")) = "axis" /\ Tail(InitAfter("setup")) = InitAfter("axis")
  BY DEF InitAfter
<1>7. Head(InitAfter("axis")) = "ENDINIT" /\ Tail(InitAfter("axis")) = InitAfter("ENDINIT")
  BY DEF InitAfter
<1>8. /\ Head(InitAfter("ENDINIT")) = "SCR" /\ Tail(InitAfter("ENDINIT")) = InitAfter("SCR")
      /\ Head(InitAfter("SCR")) = "EVENTS" /\ Tail(InitAfter("SCR")) = <<"unlock">>
  BY DEF InitAfter
<1> QED BY <1>1, <1>2, <1>3, <1>4, <1>5, <1>6, <1>7, <1>8

LEMMA ScriptGoesOn ==
  ASSUME IndInv, StartInv, Step(Iocsh)
  PROVE  /\ todo'[Iocsh] \in ScriptTodo \ {OpenJob, InitJob}
         /\ todo'[Iocsh] = <<"open", "unlock">> => todo[Iocsh] = OpenJob
         /\ Pending(Iocsh) = "open" => todo'[Iocsh] = <<"unlock">>
         /\ Pending(Iocsh) = "lock" => todo[Iocsh] \in {OpenJob, InitJob}
         /\ Pending(Iocsh) = "channel" /\ todo'[Iocsh] # <<"unlock">> =>
              Pending(Iocsh)' = "setup"
         /\ todo[Iocsh] = InitJob => Pending(Iocsh)' = "channel"
<1>1. Onwards(Iocsh) /\ todo[Iocsh] \in ScriptTodo /\ todo[Iocsh] # <<>>
  <2>1. Iocsh \in Threads
    BY DEF Threads
  <2> QED BY <2>1, StepGoesOn DEF Onwards, StartInv, Idle
<1>2. /\ Head(todo'[Iocsh]) = Pending(Iocsh)' /\ Head(todo[Iocsh]) = Pending(Iocsh)
      /\ \A m \in {"lock", "open", "channel", "setup", "axis", "unlock"} : m \notin Messages
      /\ Head(<<"unlock">>) = "unlock"
  BY StepNames DEF Pending
<1>3. Head(todo[Iocsh]) # "attempt" /\ Head(todo[Iocsh]) # "select"
  BY <1>1, ScriptTails DEF ScriptTodo, Opening
<1>4. todo'[Iocsh] = Tail(todo[Iocsh]) \/
      (todo'[Iocsh] = <<"unlock">> /\ Pending(Iocsh) \in Messages \cup {"channel"})
  BY <1>1, <1>2, <1>3, UnlockOnly DEF Onwards
<1>5. ASSUME NEW p \in ScriptTodo, p # <<>>
      PROVE  /\ p \notin {OpenJob, InitJob} => Tail(p) # <<"open", "unlock">>
             /\ Tail(p) \in ScriptTodo \ {OpenJob, InitJob}
  <2>1. /\ \A step : InitAfter(step) \notin {<<"open", "unlock">>, OpenJob, InitJob}
        /\ \A r \in {<<>>, <<"unlock">>, <<"open", "unlock">>} : r \notin {OpenJob, InitJob}
        /\ <<>> # <<"open", "unlock">> /\ <<"unlock">> # <<"open", "unlock">>
    <3>1. ASSUME NEW step
          PROVE  InitAfter(step) \notin {<<"open", "unlock">>, OpenJob, InitJob}
      <4>1. InitAfter(step) # <<"open", "unlock">>
        BY DEF InitAfter
      <4>2. InitAfter(step) # OpenJob
        BY DEF InitAfter, OpenJob
      <4>3. InitAfter(step) # InitJob
        BY DEF InitAfter, InitJob
      <4> QED BY <4>1, <4>2, <4>3
    <3>2. /\ <<>> \notin {OpenJob, InitJob} /\ <<"unlock">> \notin {OpenJob, InitJob}
          /\ <<"open", "unlock">> \notin {OpenJob, InitJob}
      BY DEF OpenJob, InitJob
    <3> QED BY <3>1, <3>2
  <2>2. /\ <<>> \in ScriptTodo /\ <<"unlock">> \in ScriptTodo
        /\ <<"open", "unlock">> \in ScriptTodo
        /\ \A step \in {"lock", "channel", "setup", "axis", "ENDINIT", "SCR"} :
              InitAfter(step) \in ScriptTodo
    BY DEF ScriptTodo, Opening
  <2>3. CASE p \in {OpenJob, InitJob, <<"unlock">>, <<"open", "unlock">>}
    BY <2>1, <2>2, <2>3, ScriptTails
  <2>4. CASE p \notin {OpenJob, InitJob, <<"unlock">>, <<"open", "unlock">>}
    <3>1. PICK step \in {"lock", "channel", "setup", "axis", "ENDINIT", "SCR"} :
            p = InitAfter(step)
      BY <1>5, <2>4 DEF ScriptTodo, Opening
    <3> QED BY <2>1, <2>2, <3>1, ScriptTails
  <2> QED BY <2>3, <2>4
<1>6. todo'[Iocsh] \in ScriptTodo \ {OpenJob, InitJob}
  <2>1. <<"unlock">> \in ScriptTodo \ {OpenJob, InitJob}
    BY DEF ScriptTodo, OpenJob, InitJob
  <2> QED BY <1>1, <1>4, <1>5, <2>1
<1>7. todo'[Iocsh] = <<"open", "unlock">> => todo[Iocsh] = OpenJob
  <2>1. Tail(InitJob) # <<"open", "unlock">>
    BY ScriptTails DEF InitAfter
  <2> QED BY <1>1, <1>4, <1>5, <2>1
<1>8. CASE todo[Iocsh] \in {OpenJob, <<"open", "unlock">>, <<"unlock">>, InitJob}
  <2>1. /\ Pending(Iocsh) \in {"lock", "open", "unlock"}
        /\ Pending(Iocsh) = "open" => Tail(todo[Iocsh]) = <<"unlock">>
        /\ Pending(Iocsh) = "lock" => todo[Iocsh] \in {OpenJob, InitJob}
    BY <1>2, <1>8, ScriptTails
  <2>2. Pending(Iocsh) # "channel" /\ todo'[Iocsh] = Tail(todo[Iocsh])
    BY <1>2, <1>4, <2>1
  <2>3. todo[Iocsh] = InitJob => Pending(Iocsh)' = "channel"
    BY <1>2, <2>2, ScriptTails
  <2> QED BY <1>6, <1>7, <2>1, <2>2, <2>3
<1>9. CASE todo[Iocsh] \notin {OpenJob, <<"open", "unlock">>, <<"unlock">>, InitJob}
  <2>1. PICK step \in {"lock", "channel", "setup", "axis", "ENDINIT", "SCR"} :
          todo[Iocsh] = InitAfter(step)
    BY <1>1, <1>9 DEF ScriptTodo, Opening
  <2>2. /\ Pending(Iocsh) \notin {"open", "lock"}
        /\ Pending(Iocsh) = "channel" => Tail(todo[Iocsh]) = InitAfter("channel")
    BY <1>2, <2>1, ScriptTails
  <2>3. Pending(Iocsh) = "channel" /\ todo'[Iocsh] # <<"unlock">> => Pending(Iocsh)' = "setup"
    BY <1>2, <1>4, <2>2, ScriptTails
  <2> QED BY <1>6, <1>7, <1>9, <2>2, <2>3
<1> QED BY <1>8, <1>9

\* What is left on the port thread.
LEMMA PortGoesOn ==
  ASSUME IndInv, StartInv, NEW c \in Controllers, Step(c)
  PROVE  /\ todo'[c] \in Seq(Quiet) \cup {<<"open", "unlock">>}
         /\ todo'[c] = <<"open", "unlock">> => todo[c] = OpenJob
         /\ Pending(c) = "open" => todo[c] = <<"open", "unlock">> /\ todo'[c] = <<"unlock">>
<1>1. c \in Threads
  BY DEF Threads
<1>2. Onwards(c) /\ todo[c] # <<>>
  BY <1>1, StepGoesOn DEF Onwards, Idle
<1>3. CASE todo[c] \in Opening
  <2>1. Pending(c) \in {"lock", "open"} /\ Tail(todo[c]) \in {<<"open", "unlock">>, <<"unlock">>}
        /\ (Pending(c) = "open" => todo[c] = <<"open", "unlock">> /\ Tail(todo[c]) = <<"unlock">>)
        /\ (Tail(todo[c]) = <<"open", "unlock">> => todo[c] = OpenJob)
    <3>1. <<"open", "unlock">> # <<"unlock">>
      OBVIOUS
    <3> QED BY <1>3, <3>1, ScriptTails DEF Opening, Pending
  <2>2. todo'[c] = Tail(todo[c])
    BY <1>2, <2>1, StepNames DEF Onwards
  <2> QED BY <2>1, <2>2, QuietJobs
<1>4. CASE todo[c] \in Seq(Quiet)
  <2>1. Tail(todo[c]) \in Seq(Quiet) /\ Pending(c) \in Quiet
    BY <1>2, <1>4 DEF Pending
  <2>2. Tail(todo[c]) # <<>> => Tail(Tail(todo[c])) \in Seq(Quiet)
    BY <2>1
  <2>3. todo'[c] \in Seq(Quiet)
    BY <1>2, <2>1, <2>2, QuietJobs, UnlockOnly DEF Onwards
  <2>4. <<"open", "unlock">> \notin Seq(Quiet)
    <3>1. <<"open", "unlock">>[1] \notin Quiet /\ Len(<<"open", "unlock">>) = 2
      BY DEF Quiet
    <3> QED BY <3>1
  <2> QED BY <2>1, <2>3, <2>4 DEF Quiet
<1> QED BY <1>3, <1>4 DEF StartInv

LEMMA StepStart ==
  ASSUME OneController, IndInv, StartInv, NEW t \in Threads, Step(t)
  PROVE  StartInv'
<1> USE LibAssumption DEF IndInv
<1>1. Onwards(t) /\ ~Idle(t)
  BY StepGoesOn DEF Onwards
<1>2. /\ \A u \in Threads : Own(u)' = Own(u) /\ Own(u) \in Controllers
      /\ \A u \in Threads \ {t} : todo'[u] = todo[u]
      /\ Iocsh \in Threads /\ Controllers \subseteq Threads
      /\ \A c, e \in Controllers : c = e /\ AxesOf(c)' = AxesOf(c)
  BY <1>1, StepOthers DEF Threads, OneController, Own, TypeOK, AxesOf
<1>3. /\ cycle' = cycle
      /\ Pending(t) = "open" => created' = created \cup {Own(t)}
      /\ Pending(t) # "open" => created' = created
      /\ configured' = configured \/ (t = Iocsh /\ todo[t] = InitJob)
  BY StepNames
     DEF Step, Lock, Unlock, OpenChannel, LeaveChannel, SelectChannel, SelectFails, AttemptFails,
         InitDeferred, SetupAxis, SelectAxis, Succeed, Fail, At, pollVars, axisVars
<1>4. CASE t = Iocsh
  <2>1. \A c \in Controllers : todo'[c] = todo[c]
    BY <1>2, <1>4
  <2>2. todo'[Iocsh] \in Opening => todo[Iocsh] = OpenJob /\ Pending(t) = "lock"
    BY <1>4, ScriptGoesOn DEF Opening, Pending, OpenJob
  <2>3. todo'[Iocsh] \in Opening => Own(Iocsh)' \notin created'
    BY <1>2, <1>3, <1>4, <2>2 DEF StartInv, Opening
  <2>4. ASSUME NEW c \in Controllers \ created'
        PROVE  Idle(c)' /\ configured' \cap AxesOf(c)' = {}
    <3>1. c \in Controllers \ created
      BY <1>3, <2>4
    <3>2. configured' = configured
      BY <1>2, <1>3, <3>1 DEF StartInv
    <3> QED BY <1>2, <2>1, <3>1, <3>2 DEF StartInv, Idle
  <2>5. todo'[Iocsh] \in ScriptTodo /\ todo'[Iocsh] # InitJob
    BY <1>4, ScriptGoesOn
  <2> QED BY <1>2, <1>3, <2>1, <2>3, <2>4, <2>5 DEF StartInv
<1>5. CASE t # Iocsh
  <2>1. t \in Controllers /\ todo'[Iocsh] = todo[Iocsh] /\ configured' = configured
    BY <1>2, <1>3, <1>5 DEF Threads
  <2>2. t \in created /\ created' = created
    <3>1. t \in created
      BY <1>1, <2>1 DEF StartInv
    <3> QED BY <1>2, <1>3, <2>1, <3>1
  <2>3. Controllers \ created' = {}
    BY <1>2, <2>1, <2>2
  <2>4. /\ todo'[t] \in Seq(Quiet) \cup Opening
        /\ todo'[t] \in Opening => todo[t] \in Opening
    <3>1. \A s \in Seq(Quiet) : s \notin Opening
      <4>1. <<"open", "unlock">>[1] \notin Quiet /\ Len(<<"open", "unlock">>) = 2
            /\ OpenJob[2] \notin Quiet /\ Len(OpenJob) = 3
        BY DEF Quiet, OpenJob
      <4> QED BY <4>1 DEF Opening
    <3> QED BY <2>1, <3>1, PortGoesOn DEF Opening
  <2> QED BY <1>2, <1>3, <2>1, <2>2, <2>3, <2>4 DEF StartInv
<1> QED BY <1>4, <1>5

LEMMA InitStart ==
  ASSUME Init
  PROVE  StartInv
<1>1. <<>> \in Seq(Quiet)
  BY EmptySeq
<1>2. <<>> \in ScriptTodo /\ <<>> \notin Opening /\ <<>> # InitJob
  BY DEF ScriptTodo, Opening, OpenJob, InitJob
<1> QED BY <1>1, <1>2 DEF Init, StartInv, Idle, Threads

\* With one controller, the script and the cycles of polls start in that order: the
\* channel is tried before any axis is configured, and before the axes of a cycle are
\* polled.
THEOREM StartsInOrder ==
  ASSUME OneController
  PROVE  Spec => []StartInv
<1>1. IndInv /\ StartInv /\ [Next]_vars => StartInv'
  <2> SUFFICES ASSUME IndInv, StartInv, [Next]_vars
               PROVE  StartInv'
    OBVIOUS
  <2>1. CASE UNCHANGED vars
    BY <2>1 DEF vars, pollVars, jobVars, axisVars, StartInv, Own, Idle, AxesOf
  <2> QED BY <2>1, HandlersStartInv, StepStart DEF Next
<1> QED BY <1>1, InitStart, Invariance, PTL DEF Spec

-----------------------------------------------------------------------------
(* One setup file: what TS_SetupAxis has merged stays right for every axis *)

OneSetup == \A d, e \in Drives : ZipVariables[d] = ZipVariables[e]

Merged(c) == \A d \in Drives : varMap[c] = SetupMap(d)

\* An axis's initialisation has come up to merging its setup, or is next in a poll.
Loading(t) == ~Idle(t) /\ Pending(t) \in {"channel", "setup"}
AboutToLoad(t) == Len(todo[t]) > 1 /\ todo[t][1] = "lock" /\ todo[t][2] = "channel"

\* What goes on between the opening of the channel and the first merged setup: the
\* axes wait for the polls of the cycle to initialise them, and no message is sent.
Early(c) ==
  /\ \/ todo[c] \in Opening \cup {<<>>, <<"unlock">>}
     \/ Loading(c) \/ AboutToLoad(c)
     \/ ~Idle(c) /\ Pending(c) = "lock" /\ Loading(Iocsh)
  /\ todo[Iocsh] \in {<<>>, <<"unlock">>, InitJob} \/ Loading(Iocsh)
  /\ Loading(Iocsh) \/ Loading(c) \/ AboutToLoad(c) \/ configured \subseteq needsReinit \cap cycle[c]

MapInv ==
  /\ varMap \in [Controllers -> {Defaults} \cup {SetupMap(d) : d \in Drives}]
  /\ \A c \in opened : Merged(c) \/ Early(c)

\* Merging a setup again changes nothing, and the result is the setup's.
LEMMA MergeSetup ==
  ASSUME OneSetup, NEW d \in Drives,
         NEW map \in {Defaults} \cup {SetupMap(e) : e \in Drives}
  PROVE  Merge(map, SetupMap(d)) = SetupMap(d)
<1>1. Merge(Defaults, SetupMap(d)) = SetupMap(d)
  BY DEF Merge, SetupMap
<1>2. \A e \in Drives : SetupMap(e) = SetupMap(d)
  BY DEF SetupMap, OneSetup
<1>3. Merge(SetupMap(d), SetupMap(d)) = SetupMap(d)
  BY DEF Merge, SetupMap
<1> QED BY <1>1, <1>2, <1>3

\* In that time no thread sends.
LEMMA EarlyPending ==
  ASSUME OneController, IndInv, StartInv, NEW t \in Threads, Early(Own(t)), ~Idle(t)
  PROVE  Pending(t) \in {"lock", "open", "unlock", "channel", "setup"}
<1>1. Own(t) \in Controllers
  BY LibAssumption DEF IndInv, TypeOK, Own
<1>2. CASE t = Iocsh
  <2>1. todo[t] \in {<<"unlock">>, InitJob} \/ Loading(t)
    BY <1>2 DEF Early, Idle
  <2> QED BY <2>1, ScriptTails DEF Loading, Pending
<1>3. CASE t # Iocsh
  <2>1. t = Own(t)
    BY <1>1, <1>3 DEF Threads, OneController
  <2>2. CASE todo[t] \in Opening \cup {<<>>, <<"unlock">>}
    BY <2>2, ScriptTails DEF Opening, Pending, Idle
  <2>3. CASE AboutToLoad(t)
    BY <2>3 DEF AboutToLoad, Pending
  <2> QED BY <2>1, <2>2, <2>3 DEF Early, Loading
<1> QED BY <1>2, <1>3

LEMMA HandlersMap ==
  ASSUME OneController, IndInv, StartInv, MapInv, Handlers
  PROVE  MapInv'
<1> USE LibAssumption DEF IndInv
<1>1. PICK d \in Drives :
        \/ Open(d) \/ Configure(d) \/ Cycle(d) \/ Poll(d) \/ PollNothing(d)
        \/ Move(d) \/ Jog(d) \/ Home(d) \/ Setting(d)
  BY DEF Handlers
<1>2. UNCHANGED <<varMap, opened, configured, needsReinit>>
  <2>1. Skipped \/ \E t \in Threads, e \in Drives : \E job : Begin(t, e, job)
    BY HandlersStart DEF Started
  <2> QED BY <2>1 DEF Skipped, Begin, libVars, axisVars
<1> SUFFICES ASSUME NEW c \in opened, ~Merged(c)
             PROVE  Early(c)'
  BY <1>2 DEF MapInv, Merged
<1>3. Early(c) /\ c \in Controllers /\ c # Iocsh /\ c \in Threads /\ Iocsh \in Threads
      /\ c \in created
  BY DEF MapInv, TypeOK, Threads
<1>4. \A e \in Drives : ControllerOf[e] = c /\ PortThread(e) = c /\ e \in AxesOf(c)
  BY <1>3 DEF OneController, PortThread, AxesOf
<1>5. CASE Open(d)
  BY <1>3, <1>4, <1>5 DEF Open
<1>6. CASE Configure(d)
  <2>1. /\ Idle(Iocsh) /\ todo'[Iocsh] = InitJob /\ todo'[c] = todo[c] /\ cycle' = cycle
    BY <1>3, <1>6 DEF Configure, Begin, TypeOK, pollVars
  <2>2. ~Loading(Iocsh) /\ Loading(c)' = Loading(c) /\ AboutToLoad(c)' = AboutToLoad(c)
    BY <2>1 DEF Loading, AboutToLoad, Idle, Pending
  <2> QED BY <1>2, <1>3, <2>1, <2>2 DEF Early
<1>7. ASSUME Idle(c), todo'[Iocsh] = todo[Iocsh]
      PROVE  /\ Loading(Iocsh)' = Loading(Iocsh) /\ ~Loading(c) /\ ~AboutToLoad(c)
             /\ (todo[Iocsh] \in {<<>>, <<"unlock">>, InitJob} \/ Loading(Iocsh))'
             /\ Loading(Iocsh) \/ configured \subseteq needsReinit \cap cycle[c]
  <2>1. /\ Loading(Iocsh)' = Loading(Iocsh) /\ ~Loading(c)
    BY <1>7 DEF Loading, Idle, Pending
  <2>2. ~AboutToLoad(c)
    BY <1>7, EmptySeq DEF Idle, AboutToLoad
  <2> QED BY <1>3, <1>7, <2>1, <2>2 DEF Early
<1>8. CASE Cycle(d)
  <2>1. /\ Idle(c) /\ todo'[c] = OpenJob /\ todo'[Iocsh] = todo[Iocsh]
        /\ cycle' = [cycle EXCEPT ![c] = AxesOf(c)]
    BY <1>3, <1>4, <1>8 DEF Cycle, Begin, TypeOK
  <2>2. cycle'[c] = AxesOf(c) /\ configured \subseteq AxesOf(c)
    BY <1>3, <1>4, <2>1 DEF TypeOK
  <2>3. OpenJob \in Opening
    BY DEF Opening
  <2> QED BY <1>2, <1>7, <2>1, <2>2, <2>3 DEF Early
<1>9. CASE PollNothing(d)
  <2>1. /\ Idle(c) /\ todo' = todo /\ d \notin configured
        /\ cycle' = [cycle EXCEPT ![c] = @ \ {d}]
    BY <1>3, <1>4, <1>9 DEF PollNothing
  <2>2. cycle'[c] = cycle[c] \ {d}
    BY <1>3, <2>1 DEF TypeOK
  <2> QED BY <1>2, <1>7, <2>1, <2>2 DEF Early, Idle
<1>10. ASSUME NEW job, Begin(c, d, job), Loading(Iocsh), Job(job)
       PROVE  Early(c)'
  <2>1. /\ Idle(c) /\ todo'[c] = job /\ todo'[Iocsh] = todo[Iocsh]
    BY <1>3, <1>10 DEF Begin, TypeOK
  <2>2. ~Idle(c)' /\ Pending(c)' = "lock"
    BY <1>10, <2>1 DEF Idle, Pending, Job
  <2> QED BY <1>7, <1>10, <2>1, <2>2 DEF Early
<1>11. CASE Poll(d)
  <2>1. PICK zero \in {<<>>, ZeroJob} :
          Begin(c, d, (IF d \in needsReinit THEN InitJob ELSE <<>>) \o PollJob \o zero)
    BY <1>4, <1>11 DEF Poll
  <2>2. CASE Loading(Iocsh)
    BY <1>10, <2>1, <2>2, PollJobs
  <2>3. CASE ~Loading(Iocsh)
    <3> DEFINE rest == PollJob \o zero
    <3>1. Idle(c) /\ todo'[Iocsh] = todo[Iocsh] /\ d \in configured
      BY <1>3, <1>11, <2>1 DEF Begin, TypeOK, Poll
    <3>2. d \in needsReinit
      BY <1>7, <2>3, <3>1
    <3>3. todo'[c] = (InitJob \o PollJob) \o zero
      BY <1>3, <2>1, <3>2 DEF Begin, TypeOK
    <3>4. /\ InitJob \in Seq(Quiet) /\ PollJob \in Seq(Quiet) /\ zero \in Seq(Quiet)
      BY QuietJobs
    <3>5. Len(InitJob) = 8 /\ InitJob[1] = "lock" /\ InitJob[2] = "channel"
      BY DEF InitJob
    <3>6. /\ Len(InitJob \o PollJob) >= 8 /\ InitJob \o PollJob \in Seq(Quiet)
          /\ (InitJob \o PollJob)[1] = "lock" /\ (InitJob \o PollJob)[2] = "channel"
      <4>1. \A p, q \in Seq(Quiet) :
              Len(p) >= 8 => /\ Len(p \o q) >= 8 /\ p \o q \in Seq(Quiet)
                             /\ (p \o q)[1] = p[1] /\ (p \o q)[2] = p[2]
        OBVIOUS
      <4>2. InitJob \in Seq(Quiet) /\ PollJob \in Seq(Quiet) /\ Len(InitJob) >= 8
        BY <3>4, <3>5
      <4> QED BY <4>1, <4>2, <3>5
    <3> DEFINE long == InitJob \o PollJob
    <3>7. long \in Seq(Quiet) /\ Len(long) >= 8 /\ long[1] = "lock" /\ long[2] = "channel"
      BY <3>6
    <3> HIDE DEF long
    <3>8. Len(long \o zero) > 1 /\ (long \o zero)[1] = "lock" /\ (long \o zero)[2] = "channel"
      BY <3>4, <3>7
    <3>9. AboutToLoad(c)'
      BY <3>3, <3>8 DEF AboutToLoad, long
    <3> QED BY <1>7, <3>1, <3>9 DEF Early
  <2> QED BY <2>2, <2>3
<1>12. CASE Move(d) \/ Jog(d) \/ Home(d) \/ Setting(d)
  <2>1. PICK job \in Seq(Quiet) : Command(d, job) /\ Job(job)
    BY <1>12, CommandsQuiet
  <2>2. Idle(c) /\ todo'[Iocsh] = todo[Iocsh] /\ d \in configured /\ cycle[c] = {}
    BY <1>3, <1>4, <2>1 DEF Command, Begin, TypeOK
  <2>3. Loading(Iocsh)
    BY <1>7, <2>2
  <2> QED BY <1>4, <1>10, <2>1, <2>3 DEF Command
<1> QED BY <1>1, <1>5, <1>6, <1>8, <1>9, <1>11, <1>12

\* The channel opens: of no configured axis yet, or before a cycle polls them all.
LEMMA OpenEarly ==
  ASSUME OneController, IndInv, StartInv, NEW c \in Controllers, c \notin opened,
         NEW t \in {c, Iocsh}, OpenChannel(t), Step(t), Own(t) = c, Own(Iocsh) = c
  PROVE  Early(c)'
<1> USE LibAssumption DEF IndInv
<1>1. /\ Iocsh \in Threads /\ c \in Threads /\ c # Iocsh /\ At(t, "open")
      /\ \A d \in Drives : d \in AxesOf(c)
      /\ configured' = configured /\ cycle' = cycle /\ configured \subseteq Drives
      /\ needsReinit' = needsReinit \cup (configured \cap AxesOf(c))
      /\ todo' = [todo EXCEPT ![t] = Tail(todo[t])]
  BY DEF OpenChannel, Threads, TypeOK, AxesOf, OneController, Proceed
<1>2. CASE t = Iocsh
  <2>1. todo'[Iocsh] = <<"unlock">> /\ todo'[c] = todo[c]
    BY <1>1, <1>2, ScriptGoesOn DEF At, TypeOK
  <2>2. todo[Iocsh] = <<"open", "unlock">>
    <3>1. todo[Iocsh] \in ScriptTodo /\ Head(todo[Iocsh]) = "open" /\ todo[Iocsh] # <<>>
      BY <1>1, <1>2 DEF StartInv, At, Pending, Idle
    <3> QED BY <3>1, ScriptTails DEF ScriptTodo, Opening
  <2>3. c \notin created
    BY <2>2 DEF StartInv, Opening
  <2>4. todo[c] = <<>> /\ configured = {}
    BY <1>1, <2>3 DEF StartInv, Idle
  <2> QED BY <1>1, <2>1, <2>4 DEF Early
<1>3. CASE t = c
  <2>1. /\ todo[c] = <<"open", "unlock">> /\ todo'[c] = <<"unlock">> /\ todo'[Iocsh] = todo[Iocsh]
    BY <1>1, <1>3, PortGoesOn DEF At, TypeOK
  <2>2. cycle[c] = AxesOf(c) /\ c \in created
    BY <1>1, <1>3, <2>1 DEF StartInv, Opening, At
  <2>3. Idle(Iocsh) \/ Pending(Iocsh) = "lock"
    <3>1. lock[c] = c
      BY <1>1, <1>3 DEF LockInv, At
    <3> QED BY <1>1, <3>1 DEF LockInv
  <2>4. todo[Iocsh] \in {<<>>, <<"unlock">>, InitJob}
    <3>1. CASE Idle(Iocsh)
      BY <3>1 DEF Idle
    <3>2. CASE ~Idle(Iocsh) /\ Head(todo[Iocsh]) = "lock"
      <4>1. todo[Iocsh] \in {OpenJob, InitJob}
        BY <3>2, ScriptTails DEF StartInv, ScriptTodo, Opening, Idle
      <4>2. todo[Iocsh] # OpenJob
        BY <2>2 DEF StartInv, Opening
      <4> QED BY <4>1, <4>2
    <3> QED BY <2>3, <3>1, <3>2 DEF Pending
  <2>5. configured' \subseteq needsReinit' \cap cycle'[c]
    BY <1>1, <2>2
  <2> QED BY <2>1, <2>4, <2>5 DEF Early
<1> QED BY <1>2, <1>3

LEMMA StepEarly ==
  ASSUME OneController, IndInv, StartInv, NEW c \in opened, Early(c), NEW t \in {c, Iocsh},
         Step(t), ~SetupAxis(t), Own(t) = c, Own(Iocsh) = c, Own(c) = c
  PROVE  Early(c)'
<1> USE LibAssumption DEF IndInv
<1>1. /\ c \in Controllers /\ Iocsh \in Threads /\ c \in Threads /\ c # Iocsh /\ t \in Threads
  BY DEF Threads, TypeOK
<1>2. Onwards(t) /\ ~Idle(t) /\ todo[t] # <<>>
  BY <1>1, StepGoesOn DEF Onwards, Idle
<1>3. /\ \A u \in Threads \ {t} : todo'[u] = todo[u]
      /\ Idle(t)' = (todo'[t] = <<>>) /\ Pending(t)' = Head(todo'[t])
  BY <1>1, <1>2, StepOthers
<1>4. Pending(t) \in {"lock", "open", "unlock", "channel", "setup"}
  BY <1>1, <1>2, EarlyPending
<1>5. Pending(t) # "setup"
  BY <1>4, StepNames
     DEF Step, Lock, Unlock, OpenChannel, LeaveChannel, SelectChannel, SelectFails, AttemptFails,
       InitDeferred, SelectAxis, Succeed, Fail, At
<1>6. /\ UNCHANGED needsReinit /\ cycle' = cycle
      /\ configured' = configured \/ (t = Iocsh /\ todo[t] = InitJob)
      /\ todo'[t] = Tail(todo[t])
      /\ Pending(t) = "lock" => lock[c] = None
  BY <1>1, <1>4, StepNames
     DEF Step, Lock, Unlock, OpenChannel, LeaveChannel, SelectChannel, SelectFails, AttemptFails,
       InitDeferred, SelectAxis, Succeed, Fail, At, pollVars, axisVars, libVars, Proceed, LockFree,
       TypeOK
<1>7. Pending(t) = "channel" => Loading(t)'
  <2>1. ASSUME Pending(t) = "channel"
        PROVE  ~Idle(t)' /\ Pending(t)' = "setup"
    <3>1. todo'[t] # EarlyReturn \/ todo'[t] = Tail(todo[t])
      BY <1>6
    <3>2. todo'[t] # <<>> /\ Follows("channel", Head(todo'[t]))
      BY <1>2, <1>6, <2>1, StepNames DEF Onwards
    <3> QED BY <1>3, <3>2, StepNames DEF Follows
  <2> QED BY <2>1 DEF Loading
<1>8. CASE t = Iocsh
  <2>1. /\ Loading(c)' = Loading(c) /\ AboutToLoad(c)' = AboutToLoad(c) /\ todo'[c] = todo[c]
        /\ Idle(c)' = Idle(c) /\ Pending(c)' = Pending(c)
    BY <1>1, <1>3, <1>8 DEF Loading, AboutToLoad, Idle, Pending
  <2>2. CASE todo[Iocsh] = <<"unlock">>
    <3>1. todo'[Iocsh] = <<>> /\ ~Loading(Iocsh) /\ configured' = configured
      <4>1. <<"unlock">> # InitJob
        BY DEF InitJob
      <4> QED BY <1>6, <1>8, <2>2, <4>1, ScriptTails DEF Loading, Pending
    <3> QED BY <1>6, <2>1, <3>1 DEF Early
  <2>3. CASE todo[Iocsh] = InitJob
    <3>1. Head(todo'[Iocsh]) = "channel" /\ todo'[Iocsh] # <<>> /\ ~Loading(Iocsh)
      <4>1. InitAfter("lock") # <<>>
        BY DEF InitAfter
      <4> QED BY <1>6, <1>8, <2>3, <4>1, ScriptTails DEF Loading, Pending
    <3>2. Loading(Iocsh)'
      BY <1>3, <1>8, <3>1 DEF Loading
    <3> QED BY <2>1, <3>1, <3>2 DEF Early
  <2>4. CASE Loading(Iocsh)
    BY <1>5, <1>7, <1>8, <2>1, <2>4 DEF Early, Loading
  <2> QED BY <1>2, <1>8, <2>2, <2>3, <2>4 DEF Early
<1>9. CASE t = c
  <2>1. /\ Loading(Iocsh)' = Loading(Iocsh) /\ todo'[Iocsh] = todo[Iocsh]
        /\ configured' = configured
    BY <1>1, <1>3, <1>6, <1>9 DEF Loading, Idle, Pending
  <2>2. CASE todo[c] \in Opening \cup {<<"unlock">>}
    <3>1. todo'[c] \in Opening \cup {<<>>, <<"unlock">>} /\ ~Loading(c)
      BY <1>6, <1>9, <2>2, ScriptTails DEF Opening, Loading, Pending
    <3>2. ~AboutToLoad(c)
      <4>1. OpenJob[2] = "open" /\ Len(<<"unlock">>) = 1 /\ <<"open", "unlock">>[1] = "open"
        BY DEF OpenJob
      <4> QED BY <2>2, <4>1 DEF Opening, AboutToLoad
    <3> QED BY <1>6, <2>1, <3>1, <3>2 DEF Early
  <2>3. CASE Loading(c)
    BY <1>5, <1>7, <1>9, <2>1, <2>3 DEF Early, Loading
  <2>4. CASE AboutToLoad(c)
    <3> DEFINE s == todo[c]
    <3>1. s \in Seq(Steps) /\ Len(s) > 1 /\ s[2] = "channel"
      BY <1>1, <2>4 DEF AboutToLoad, TypeOK, Steps
    <3>2. todo'[c] = Tail(s)
      BY <1>6, <1>9
    <3> HIDE DEF s
    <3>3. Len(Tail(s)) > 0 /\ Tail(s)[1] = "channel" /\ Tail(s) \in Seq(Steps)
      BY <3>1
    <3>4. Tail(s) # <<>> /\ Head(Tail(s)) = "channel"
      <4> DEFINE r == Tail(s)
      <4>1. r \in Seq(Steps) /\ Len(r) > 0 /\ r[1] = "channel"
        BY <3>3
      <4> HIDE DEF r
      <4>2. r # <<>> /\ Head(r) = "channel"
        BY <4>1, EmptySeq
      <4> QED BY <4>2 DEF r
    <3>5. Loading(c)'
      BY <1>3, <1>9, <3>2, <3>4 DEF Loading
    <3> QED BY <2>1, <3>5 DEF Early
  <2>5. ~(Pending(c) = "lock" /\ Loading(Iocsh))
    <3>1. Loading(Iocsh) => lock[c] = Iocsh
      BY <1>1 DEF Loading, LockInv
    <3> QED BY <1>1, <1>6, <1>9, <3>1 DEF Threads
  <2> QED BY <1>2, <1>9, <2>2, <2>3, <2>4, <2>5 DEF Early
<1> QED BY <1>8, <1>9

LEMMA StepMap ==
  ASSUME OneController, OneSetup, IndInv, SelectedInv, StartInv, MapInv, NEW t \in Threads, Step(t)
  PROVE  MapInv'
<1> USE LibAssumption DEF IndInv
<1>1. Onwards(t) /\ ~Idle(t)
  BY StepGoesOn DEF Onwards
<1>2. /\ \A u \in Threads : Own(u)' = Own(u) /\ drive'[u] = drive[u]
      /\ \A u \in Threads \ {t} : todo'[u] = todo[u]
      /\ Idle(t)' = (todo'[t] = <<>>) /\ Pending(t)' = Head(todo'[t])
  BY <1>1, StepOthers DEF Onwards, jobVars
<1>3. Own(t) = ControllerOf[drive[t]] /\ drive[t] \in Drives /\ Own(t) \in Controllers
  BY DEF Own, TypeOK
<1>4. CASE SetupAxis(t)
  <2>1. /\ Pending(t) = "setup" /\ opened' = opened
        /\ varMap' = [varMap EXCEPT ![activeCh] = Merge(@, SetupMap(drive[t]))]
    BY <1>4 DEF SetupAxis, At
  <2>2. activeCh = Own(t)
    BY <1>1, <2>1 DEF SelectedInv
  <2>3. Merge(varMap[Own(t)], SetupMap(drive[t])) = SetupMap(drive[t])
    BY <1>3, MergeSetup DEF MapInv
  <2>4. varMap' = [varMap EXCEPT ![Own(t)] = SetupMap(drive[t])]
    BY <2>1, <2>2, <2>3
  <2>5. \A d \in Drives : SetupMap(drive[t]) = SetupMap(d)
    BY <1>3 DEF SetupMap, OneSetup
  <2>6. \A c \in Controllers : varMap'[c] = SetupMap(drive[t])
    BY <1>3, <2>4 DEF MapInv, OneController
  <2>7. varMap' \in [Controllers -> {Defaults} \cup {SetupMap(d) : d \in Drives}]
    BY <1>3, <2>4 DEF MapInv
  <2>8. opened \subseteq Controllers
    BY DEF TypeOK
  <2> QED BY <2>1, <2>5, <2>6, <2>7, <2>8 DEF MapInv, Merged
<1>5. CASE ~SetupAxis(t)
  <2>1. varMap' = varMap
    BY <1>5
       DEF Step, Lock, Unlock, OpenChannel, LeaveChannel, SelectChannel, SelectFails, AttemptFails,
         InitDeferred, SelectAxis, Succeed, Fail, libVars
  <2>2. SUFFICES ASSUME NEW c \in opened', ~Merged(c)
                 PROVE  Early(c)'
    BY <2>1 DEF MapInv, Merged
  <2>3. /\ Own(t) = c /\ c \in Controllers /\ c # Iocsh /\ c \in Threads /\ Iocsh \in Threads
        /\ opened' \subseteq Controllers /\ (t = Iocsh \/ t = c) /\ Own(Iocsh) = c /\ Own(c) = c
    <3>1. opened' \subseteq Controllers
      BY StepType DEF TypeOK
    <3> QED BY <1>3, <3>1 DEF OneController, Threads, Own, TypeOK
  <2>4. CASE c \in opened
    BY <1>1, <1>2, <1>5, <2>2, <2>3, <2>4, StepEarly DEF MapInv
  <2>5. CASE c \notin opened
    <3>1. OpenChannel(t)
      BY <1>5, <2>2, <2>5
         DEF Step, Lock, Unlock, LeaveChannel, SelectChannel, SelectFails, AttemptFails,
           InitDeferred, SelectAxis, Succeed, Fail, libVars
    <3> QED BY <2>2, <2>3, <2>5, <3>1, OpenEarly
  <2> QED BY <2>4, <2>5
<1> QED BY <1>4, <1>5

\* With one controller and one setup file for its axes, as in the start-up scripts, a
\* name is always resolved as the setup file says, also while the next axis is being
\* configured, and when the channel opens only after the axes have been configured.
THEOREM NamesResolved ==
  ASSUME OneController, OneSetup
  PROVE  Spec => [](IndInv /\ ResolvedFromOwnSetup)
<1>1. Init => MapInv
  BY DEF Init, MapInv
<1>2. IndInv /\ SelectedInv /\ StartInv /\ MapInv /\ [Next]_vars => MapInv'
  <2> SUFFICES ASSUME IndInv, SelectedInv, StartInv, MapInv, [Next]_vars
               PROVE  MapInv'
    OBVIOUS
  <2>1. CASE UNCHANGED vars
    BY <2>1 DEF vars, pollVars, libVars, jobVars, axisVars, MapInv, Merged, Early, Loading,
                AboutToLoad, Idle, Pending
  <2> QED BY <2>1, HandlersMap, StepMap DEF Next
<1>3. IndInv /\ SelectedInv /\ StartInv /\ MapInv => ResolvedFromOwnSetup
  <2> SUFFICES ASSUME IndInv, SelectedInv, StartInv, MapInv, NEW t \in Threads, ~Idle(t),
                      Pending(t) \in ByName \cup {"ENABLE_OFF"}, Own(t) \in opened
               PROVE  Address(varMap[activeCh], Pending(t)) = OwnAddress(drive[t], Pending(t))
    BY DEF ResolvedFromOwnSetup
  <2>1. Pending(t) \in Messages /\ drive[t] \in Drives
    BY DEF Messages, MotionMessages, IndInv, TypeOK
  <2>2. activeCh = Own(t)
    BY <2>1 DEF SelectedInv
  <2>3. Merged(Own(t))
    BY <2>1, EarlyPending, StepNames DEF MapInv
  <2>4. varMap[activeCh] = SetupMap(drive[t])
    BY <2>1, <2>2, <2>3 DEF Merged
  <2> QED BY <2>4 DEF OwnAddress, Address, SetupMap, Merge
<1> QED BY <1>1, <1>2, <1>3, Selected, StartsInOrder, PTL DEF Spec
=============================================================================
