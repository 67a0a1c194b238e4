------------------------ MODULE TmlController_proofs ------------------------
(***************************************************************************)
(* Safety of TmlController for every number of axes, descriptors, setup    *)
(* slots and outages.  Only the registry invariant makes the rest true:    *)
(* because TS_SelectChannel() never fails, no step closes the channel, so  *)
(* ensureChannel() can only ever replace a channel that was never opened   *)
(* and finds no initialised axis and no setup slot to lose.                *)
(***************************************************************************)
EXTENDS TmlController, TLAPS

\* Without a channel nothing has been loaded or initialised.
ClosedIsFresh ==
  channelFd = None =>
    /\ setups = 0
    /\ \A a \in Axes : setupIdx[a] = None /\ ~acked[a]

\* An axis that configure() has not reached, or is working on, is untouched.
UnconfiguredIsFresh ==
  \A a \in Axes :
    ~configured[a] \/ BeingConfigured(a) =>
      setupIdx[a] = None /\ ~needsReinit[a] /\ ~acked[a]

\* poll() has initialised axis a and not yet cleared needsReinit_.
JustInitialised(a) == pc = "reinitDone" /\ cur = a /\ status = "success"

\* needsReinit_ tells, but for the gap between unlock and assignment in poll(),
\* whether ENDINIT has been acknowledged on this channel.
FlagTellsInit ==
  \A a \in Axes :
    /\ needsReinit[a] => (acked[a] <=> JustInitialised(a))
    /\ configured[a] /\ ~needsReinit[a] /\ ~BeingConfigured(a) => acked[a]

\* Where the poller is inside its deferred initialisation.
PollerPlace ==
  /\ pc \in {"reinit", "reinitDone"} =>
       configured[cur] /\ needsReinit[cur] /\ channelFd # None
  /\ pc = "reinitDone" => status \in {"success", "error"}
  /\ ipc = "locked" => configured[iax]

IndInv ==
  /\ TypeOK
  /\ ChannelRegistered
  /\ SetupSlotsOwned
  /\ ClosedIsFresh
  /\ UnconfiguredIsFresh
  /\ FlagTellsInit
  /\ PollerPlace

-----------------------------------------------------------------------------
\* The constructor's two outcomes satisfy the invariant.
LEMMA InitEstablishes == Init => IndInv
  BY ConstantsAssumption
  DEF Init, IndInv, TypeOK, ChannelRegistered, SetupSlotsOwned, ClosedIsFresh,
      UnconfiguredIsFresh, FlagTellsInit, PollerPlace, BeingConfigured, JustInitialised,
      Axes, Slots, None, PollPcs, Statuses

\* With the channel registered, selectAxis() either fails on the spot or
\* succeeds in Tier 1: it changes nothing at all.
LEMMA SelectAxisIsPure ==
  ASSUME IndInv, NEW a \in Axes, NEW st, selectAxis(a, st)
  PROVE  /\ UNCHANGED <<connVars, axisVars, setups>>
         /\ st \in {"success", "error"}
  BY ConstantsAssumption
  DEF IndInv, TypeOK, ChannelRegistered, selectAxis, TS_SelectChannel, connVars, axisVars, initVars, None

\* reinitAxis() gives an axis without a slot the next free one, which no other
\* axis holds, and touches no other axis's drive; what it returns is whether
\* ENDINIT was acknowledged, which it can be only over a live connection.
LEMMA ReinitAxisKeepsSlots ==
  ASSUME TypeOK, SetupSlotsOwned, NEW a \in Axes, NEW st, reinitAxis(a, st)
  PROVE  /\ SetupSlotsOwned'
         /\ setups' \in 0..MaxSetups
         /\ setupIdx' \in [Axes -> Slots \cup {None}]
         /\ \A b \in Axes \ {a} : setupIdx'[b] = setupIdx[b] /\ executed'[b] = executed[b]
         /\ acked' = [acked EXCEPT ![a] = @ \/ st = "success"]
         /\ executed' \in [Axes -> Nat]
         /\ ackLosses' \in 0..MaxAckLosses
         /\ st \in {"success", "error"}
         /\ st = "success" => Responds(a)
<1> DEFINE load == setupIdx[a] = None /\ CanLoadSetup
<1> USE ConstantsAssumption DEF TypeOK, None
<1>1. /\ setups' = IF load THEN setups + 1 ELSE setups
      /\ setupIdx' = IF load THEN [setupIdx EXCEPT ![a] = setups] ELSE setupIdx
  BY DEF reinitAxis, SetupAndInit
<1>2. setups' \in 0..MaxSetups
  BY <1>1 DEF CanLoadSetup
<1>3. setupIdx' \in [Axes -> Slots \cup {None}]
  BY <1>1 DEF CanLoadSetup, Slots
<1>4. \A b \in Axes \ {a} : setupIdx'[b] = setupIdx[b]
  BY <1>1
<1>5. SetupSlotsOwned'
  <2>1. CASE ~load
    BY <2>1, <1>1 DEF SetupSlotsOwned
  <2>2. CASE load
    <3>1. setupIdx'[a] = setups /\ setups' = setups + 1
      BY <2>2, <1>1
    <3>2. \A s \in 0 .. (setups' - 1) : \E x \in Axes : setupIdx'[x] = s
      <4> SUFFICES ASSUME NEW s \in 0 .. (setups' - 1)
                   PROVE  \E x \in Axes : setupIdx'[x] = s
        OBVIOUS
      <4>1. CASE s = setups
        BY <4>1, <3>1
      <4>2. CASE s # setups
        <5>1. PICK x \in Axes : setupIdx[x] = s
          BY <4>2, <3>1 DEF SetupSlotsOwned
        <5> QED BY <5>1, <1>4, <2>2
      <4> QED BY <4>1, <4>2
    <3>3. \A x \in Axes : setupIdx'[x] # None => setupIdx'[x] < setups'
      BY <3>1, <1>3, <1>4 DEF SetupSlotsOwned, Slots
    <3>4. \A x, y \in Axes : setupIdx'[x] = setupIdx'[y] /\ setupIdx'[x] # None => x = y
      BY <3>1, <1>3, <1>4 DEF SetupSlotsOwned, Slots
    <3> QED BY <3>2, <3>3, <3>4 DEF SetupSlotsOwned
  <2> QED BY <2>1, <2>2
<1>6. acked' = [acked EXCEPT ![a] = @ \/ st = "success"]
  BY DEF reinitAxis, SetupAndInit
<1>7. /\ executed' \in [Axes -> Nat]
      /\ \A b \in Axes \ {a} : executed'[b] = executed[b]
      /\ ackLosses' \in 0..MaxAckLosses
      /\ st \in {"success", "error"}
      /\ st = "success" => Responds(a)
  BY DEF reinitAxis, SetupAndInit, DriveInitialisation, MaxSends
<1> QED BY <1>2, <1>3, <1>4, <1>5, <1>6, <1>7

\* A step that leaves the channel, the axes' flags and the poller's and the
\* iocsh thread's places alone keeps the invariant, if it keeps the types.
LEMMA FrameKeeps ==
  ASSUME IndInv, TypeOK',
         UNCHANGED <<channelFd, channels, activeCh, configured, setupIdx, needsReinit,
                     acked, setups, pc, cur, status, ipc, iax>>
  PROVE  IndInv'
  BY DEF IndInv, ChannelRegistered, SetupSlotsOwned, ClosedIsFresh, UnconfiguredIsFresh,
         FlagTellsInit, PollerPlace, BeingConfigured, JustInitialised

\* NextAxis leads to a place from which the poller assumes nothing.
LEMMA NextAxisPlace ==
  ASSUME cur \in Axes, NextAxis
  PROVE  cur' \in Axes /\ pc' \in {"idle", "check"}
  BY ConstantsAssumption DEF NextAxis, Axes

-----------------------------------------------------------------------------
\* The steps of the poller.
LEMMA ControllerPollKeeps ==
  ASSUME IndInv, ControllerPoll
  PROVE  IndInv'
<1> USE ConstantsAssumption DEF IndInv, None
<1>1. UNCHANGED <<configured, setups, commsError, status, iocshVars, envVars>>
      /\ pc = "idle" /\ pc' = "check" /\ cur' = 0 /\ LockFree
  BY DEF ControllerPoll, ensureChannel, OpenAttempt, axisVars, initVars
<1>2. CASE UNCHANGED <<channelFd, channels, activeCh, axisVars>> /\ age' \in 0..2
                       /\ connOk' \in {-1, 0, 1}
  <2>1. TypeOK'
    <3>1. UNCHANGED <<setupIdx, needsReinit, countdown, backoff, acked, executed, ackLosses>>
      BY <1>2 DEF axisVars, initVars
    <3>2. UNCHANGED <<ipc, iax, openable, broken, alive, linkLosses, driveLosses>>
      BY <1>1 DEF iocshVars, envVars
    <3>3. cur' \in Axes /\ pc' \in PollPcs
      BY <1>1 DEF Axes, PollPcs
    <3> QED BY <1>1, <1>2, <3>1, <3>2, <3>3 DEF TypeOK
  <2> QED
    BY <1>1, <1>2, <2>1 DEF axisVars, initVars, iocshVars, ChannelRegistered, SetupSlotsOwned,
       ClosedIsFresh, UnconfiguredIsFresh, FlagTellsInit, PollerPlace, BeingConfigured,
       JustInitialised
<1>3. CASE channelFd = None /\ RetryDue /\ CanOpen /\ OpenAttempt
  <2>1. PICK fd \in Fds : TS_OpenChannel(fd) /\ channelFd' = fd
    BY <1>3 DEF OpenAttempt
  <2>2. setups = 0 /\ \A a \in Axes : setupIdx[a] = None
    BY <1>3 DEF ClosedIsFresh
  <2>3. channelFd' \in Fds /\ channels' = {channelFd'} /\ activeCh' = channelFd'
    BY <1>3, <2>1 DEF TS_OpenChannel, ChannelRegistered
  <2>4. /\ setupIdx' = [a \in Axes |-> None]
        /\ acked' = [a \in Axes |-> FALSE]
        /\ UNCHANGED <<executed, ackLosses>>
        /\ needsReinit' = [a \in Axes |-> configured[a] \/ needsReinit[a]]
        /\ countdown' \in [Axes -> 0..MaxBackoff]
        /\ backoff' \in [Axes -> 1..MaxBackoff]
        /\ age' = 0 /\ connOk' = 1
    BY <1>3, <2>2 DEF OpenAttempt, MarkForReinit, TypeOK
  <2>5. TypeOK'
    <3>1. UNCHANGED <<ipc, iax, openable, broken, alive, linkLosses, driveLosses>>
      BY <1>1 DEF iocshVars, envVars
    <3>2. cur' \in Axes /\ pc' \in PollPcs
      BY <1>1 DEF Axes, PollPcs
    <3>3. channels' \in SUBSET Fds /\ setupIdx' \in [Axes -> Slots \cup {None}]
          /\ acked' \in [Axes -> BOOLEAN] /\ needsReinit' \in [Axes -> BOOLEAN]
      BY <2>3, <2>4 DEF TypeOK
    <3> QED BY <1>1, <2>3, <2>4, <3>1, <3>2, <3>3 DEF TypeOK
  <2>6. ChannelRegistered' /\ ClosedIsFresh'
    BY <2>3 DEF ChannelRegistered, ClosedIsFresh
  <2>7. SetupSlotsOwned'
    BY <1>1, <2>2, <2>4 DEF SetupSlotsOwned
  <2>8. UnconfiguredIsFresh'
    BY <1>1, <2>4 DEF UnconfiguredIsFresh, BeingConfigured, iocshVars, LockFree
  <2>9. FlagTellsInit'
    BY <1>1, <2>4 DEF FlagTellsInit, BeingConfigured, JustInitialised, iocshVars
  <2>10. PollerPlace'
    BY <1>1 DEF PollerPlace, iocshVars
  <2> QED BY <2>5, <2>6, <2>7, <2>8, <2>9, <2>10
<1> QED
  BY <1>2, <1>3
  DEF ControllerPoll, ensureChannel, OpenAttempt, connVars, axisVars, initVars, TypeOK

LEMMA PollCheckKeeps ==
  ASSUME IndInv, PollCheck
  PROVE  IndInv'
<1> USE DEF IndInv, initVars
<1>1. /\ UNCHANGED <<channelFd, connOk, age, channels, activeCh, configured, setupIdx,
                     needsReinit, backoff, initVars, setups, status, ipc, iax, envVars>>
      /\ pc = "check"
  BY DEF PollCheck, connVars, iocshVars
<1>2. commsError' \in [Axes -> BOOLEAN] /\ countdown' \in [Axes -> 0..MaxBackoff]
  BY ConstantsAssumption DEF PollCheck, TypeOK
<1>3. /\ cur' \in Axes
      /\ \/ pc' \in {"idle", "check", "select"}
         \/ /\ pc' = "reinit" /\ cur' = cur
            /\ configured[cur] /\ needsReinit[cur] /\ channelFd # None
  BY NextAxisPlace DEF PollCheck, TypeOK
<1>4. TypeOK'
  BY <1>1, <1>2, <1>3 DEF TypeOK, envVars, PollPcs
<1> QED
  BY <1>1, <1>3, <1>4
  DEF ChannelRegistered, SetupSlotsOwned, ClosedIsFresh, UnconfiguredIsFresh, FlagTellsInit,
      PollerPlace, BeingConfigured, JustInitialised

LEMMA PollReinitKeeps ==
  ASSUME IndInv, PollReinit
  PROVE  IndInv'
<1> USE DEF IndInv
<1>1. /\ UNCHANGED <<channelFd, connOk, age, channels, configured, needsReinit, countdown,
                     backoff, commsError, cur, ipc, iax, envVars>>
      /\ pc = "reinit" /\ pc' = "reinitDone" /\ LockFree /\ cur \in Axes
  BY DEF PollReinit, iocshVars, TypeOK
<1>2. activeCh' = activeCh
  BY DEF PollReinit, ChannelRegistered, TS_SelectChannel
<1>3. PICK st \in {"success", "error"} : reinitAxis(cur, st) /\ status' = st
  BY DEF PollReinit
<1>4. /\ SetupSlotsOwned'
      /\ setups' \in 0..MaxSetups
      /\ setupIdx' \in [Axes -> Slots \cup {None}]
      /\ \A b \in Axes \ {cur} : setupIdx'[b] = setupIdx[b]
      /\ acked' = [acked EXCEPT ![cur] = @ \/ st = "success"]
      /\ executed' \in [Axes -> Nat] /\ ackLosses' \in 0..MaxAckLosses
  BY <1>1, <1>3, ReinitAxisKeepsSlots
<1>5. configured[cur] /\ needsReinit[cur] /\ channelFd # None /\ ~acked[cur]
  BY <1>1 DEF PollerPlace, FlagTellsInit, JustInitialised
<1>6. TypeOK'
  BY <1>1, <1>2, <1>3, <1>4 DEF TypeOK, envVars, PollPcs, Statuses
<1>7. ChannelRegistered' /\ ClosedIsFresh'
  BY <1>1, <1>2, <1>5 DEF ChannelRegistered, ClosedIsFresh
<1>8. UnconfiguredIsFresh'
  BY <1>1, <1>4, <1>5 DEF UnconfiguredIsFresh, BeingConfigured
<1>9. FlagTellsInit'
  BY <1>1, <1>3, <1>4, <1>5 DEF FlagTellsInit, JustInitialised, BeingConfigured, TypeOK
<1>10. PollerPlace'
  BY <1>1, <1>3, <1>5 DEF PollerPlace
<1> QED BY <1>4, <1>6, <1>7, <1>8, <1>9, <1>10

LEMMA PollReinitDoneKeeps ==
  ASSUME IndInv, PollReinitDone
  PROVE  IndInv'
<1> USE DEF IndInv, initVars
<1>1. /\ UNCHANGED <<channelFd, connOk, age, channels, activeCh, configured, setupIdx,
                     initVars, setups, status, ipc, iax, envVars>>
      /\ pc = "reinitDone" /\ cur \in Axes
      /\ configured[cur] /\ needsReinit[cur] /\ status \in {"success", "error"}
      /\ ~BeingConfigured(cur)
  BY DEF PollReinitDone, connVars, iocshVars, TypeOK, PollerPlace, UnconfiguredIsFresh
<1>2. /\ commsError' \in [Axes -> BOOLEAN]
      /\ countdown' \in [Axes -> 0..MaxBackoff]
      /\ backoff' \in [Axes -> 1..MaxBackoff]
  BY ConstantsAssumption DEF PollReinitDone, NextBackoff, TypeOK
<1>3. CASE status = "error"
  <2>1. cur' \in Axes /\ pc' \in {"idle", "check"} /\ needsReinit' = needsReinit
    BY <1>1, <1>3, NextAxisPlace DEF PollReinitDone
  <2>2. TypeOK'
    BY <1>1, <1>2, <2>1 DEF TypeOK, envVars, PollPcs
  <2> QED
    BY <1>1, <1>3, <2>1, <2>2
    DEF ChannelRegistered, SetupSlotsOwned, ClosedIsFresh, UnconfiguredIsFresh,
        FlagTellsInit, PollerPlace, BeingConfigured, JustInitialised
<1>4. CASE status = "success"
  <2>1. /\ needsReinit' = [needsReinit EXCEPT ![cur] = FALSE]
        /\ pc' = "select" /\ cur' = cur
    BY <1>4 DEF PollReinitDone, InitSucceeded
  <2>2. TypeOK'
    BY <1>1, <1>2, <2>1 DEF TypeOK, envVars, PollPcs
  <2>3. UnconfiguredIsFresh'
    BY <1>1, <2>1 DEF UnconfiguredIsFresh, BeingConfigured, TypeOK
  <2>4. FlagTellsInit'
    BY <1>1, <1>4, <2>1 DEF FlagTellsInit, BeingConfigured, JustInitialised, TypeOK
  <2> QED
    BY <1>1, <2>1, <2>2, <2>3, <2>4
    DEF ChannelRegistered, SetupSlotsOwned, ClosedIsFresh, PollerPlace
<1> QED BY <1>1, <1>3, <1>4

LEMMA PollSelectKeeps ==
  ASSUME IndInv, PollSelect
  PROVE  IndInv'
<1> USE DEF IndInv
<1>1. PICK st \in {"success", "error"} :
        /\ selectAxis(cur, st)
        /\ status' = IF st = "success" /\ ~Responds(cur) THEN "readFailed" ELSE st
  BY DEF PollSelect
<1>2. UNCHANGED <<connVars, axisVars, setups>>
  BY <1>1, SelectAxisIsPure DEF TypeOK
<1>3. UNCHANGED <<commsError, cur, ipc, iax, envVars>> /\ pc = "select" /\ pc' = "publish"
  BY DEF PollSelect, iocshVars
<1>4. TypeOK'
  BY <1>1, <1>2, <1>3 DEF TypeOK, connVars, axisVars, initVars, envVars, PollPcs, Statuses
<1> QED
  BY <1>2, <1>3, <1>4
  DEF connVars, axisVars, initVars, ChannelRegistered, SetupSlotsOwned, ClosedIsFresh,
      UnconfiguredIsFresh, FlagTellsInit, PollerPlace, BeingConfigured, JustInitialised

LEMMA PollPublishKeeps ==
  ASSUME IndInv, PollPublish
  PROVE  IndInv'
<1> USE DEF IndInv
<1>1. /\ UNCHANGED <<connVars, axisVars, setups, status, ipc, iax, envVars>>
      /\ pc = "publish" /\ cur' \in Axes /\ pc' \in {"idle", "check"}
  BY NextAxisPlace DEF PollPublish, iocshVars, TypeOK
<1>2. commsError' \in [Axes -> BOOLEAN]
  BY DEF PollPublish, CommsAfterPoll, TypeOK
<1>3. TypeOK'
  BY <1>1, <1>2 DEF TypeOK, connVars, axisVars, initVars, envVars, PollPcs
<1> QED
  BY <1>1, <1>3
  DEF connVars, axisVars, initVars, ChannelRegistered, SetupSlotsOwned, ClosedIsFresh,
      UnconfiguredIsFresh, FlagTellsInit, PollerPlace, BeingConfigured, JustInitialised

-----------------------------------------------------------------------------
\* Commands and configure().
LEMMA CommandKeeps ==
  ASSUME IndInv, NEW a \in Axes, Command(a)
  PROVE  IndInv'
<1>1. UNCHANGED <<connVars, axisVars, setups>>
  BY SelectAxisIsPure DEF Command
<1>2. UNCHANGED <<commsError, pc, cur, status, ipc, iax, envVars>>
  BY DEF Command, pollVars, iocshVars
<1>3. TypeOK'
  BY <1>1, <1>2 DEF IndInv, TypeOK, connVars, axisVars, initVars, envVars
<1> QED BY <1>1, <1>2, <1>3, FrameKeeps DEF connVars, axisVars, initVars

LEMMA ConfigureLockKeeps ==
  ASSUME IndInv, NEW a \in Axes, ConfigureLock(a)
  PROVE  IndInv'
<1> USE DEF IndInv, initVars
<1>1. /\ UNCHANGED <<connVars, setupIdx, needsReinit, countdown, backoff, initVars, setups,
                     commsError, pc, cur, status, envVars>>
      /\ ipc = "idle" /\ ~configured[a]
      /\ configured' = [configured EXCEPT ![a] = TRUE]
      /\ ipc' = "locked" /\ iax' = a
  BY DEF ConfigureLock, pollVars
<1>2. TypeOK'
  BY <1>1 DEF TypeOK, connVars, envVars
<1>3. UnconfiguredIsFresh' /\ FlagTellsInit'
  BY <1>1 DEF UnconfiguredIsFresh, FlagTellsInit, BeingConfigured, JustInitialised, TypeOK
<1>4. PollerPlace'
  BY <1>1 DEF PollerPlace, TypeOK, connVars
<1> QED
  BY <1>1, <1>2, <1>3, <1>4 DEF connVars, ChannelRegistered, SetupSlotsOwned, ClosedIsFresh

LEMMA ConfigureInitKeeps ==
  ASSUME IndInv, ConfigureInit
  PROVE  IndInv'
<1> USE DEF IndInv, initVars
<1>1. /\ UNCHANGED <<channelFd, connOk, age, channels, configured, commsError, pc, cur,
                     status, iax, envVars>>
      /\ ipc = "locked" /\ ipc' \in {"idle", "publish"} /\ iax \in Axes
  BY DEF ConfigureInit, pollVars, TypeOK
<1>2. BeingConfigured(iax) /\ configured[iax] /\ ~needsReinit[iax] /\ ~acked[iax]
  BY <1>1 DEF BeingConfigured, UnconfiguredIsFresh, PollerPlace
<1>3. activeCh' = activeCh
  BY DEF ConfigureInit, ChannelRegistered, TS_SelectChannel
<1>4. CASE channelFd = None
  <2>1. /\ needsReinit' = [needsReinit EXCEPT ![iax] = TRUE]
        /\ countdown' \in [Axes -> 0..MaxBackoff]
        /\ backoff' \in [Axes -> 1..MaxBackoff]
        /\ UNCHANGED <<setups, setupIdx, initVars>>
    BY <1>4, ConstantsAssumption DEF ConfigureInit, ConfigureChannelDown, TypeOK
  <2>2. TypeOK'
    BY <1>1, <1>3, <2>1 DEF TypeOK, envVars
  <2>3. UnconfiguredIsFresh'
    BY <1>1, <1>2, <2>1 DEF UnconfiguredIsFresh, BeingConfigured, TypeOK
  <2>4. FlagTellsInit'
    BY <1>1, <1>2, <1>4, <2>1
    DEF FlagTellsInit, BeingConfigured, JustInitialised, PollerPlace, TypeOK
  <2>5. PollerPlace'
    BY <1>1, <1>2, <2>1 DEF PollerPlace, TypeOK
  <2> QED
    BY <1>1, <1>3, <2>1, <2>2, <2>3, <2>4, <2>5
    DEF ChannelRegistered, SetupSlotsOwned, ClosedIsFresh
<1>5. CASE channelFd # None
  <2>1. PICK st \in {"success", "error"} :
          /\ reinitAxis(iax, st)
          /\ needsReinit' = [needsReinit EXCEPT ![iax] = (st = "error")]
    BY <1>5 DEF ConfigureInit
  <2>2. UNCHANGED <<countdown, backoff>>
    BY <1>5 DEF ConfigureInit
  <2>3. /\ SetupSlotsOwned'
        /\ setups' \in 0..MaxSetups
        /\ setupIdx' \in [Axes -> Slots \cup {None}]
        /\ \A b \in Axes \ {iax} : setupIdx'[b] = setupIdx[b]
        /\ acked' = [acked EXCEPT ![iax] = @ \/ st = "success"]
        /\ executed' \in [Axes -> Nat] /\ ackLosses' \in 0..MaxAckLosses
    BY <1>1, <2>1, ReinitAxisKeepsSlots
  <2>4. TypeOK'
    BY <1>1, <1>3, <2>1, <2>2, <2>3 DEF TypeOK, envVars
  <2>5. UnconfiguredIsFresh'
    BY <1>1, <1>2, <2>1, <2>3 DEF UnconfiguredIsFresh, BeingConfigured, TypeOK
  <2>6. ~(pc = "reinitDone" /\ cur = iax)
    BY <1>2 DEF PollerPlace
  <2>7. FlagTellsInit'
    <3>1. \A b \in Axes \ {iax} : needsReinit'[b] = needsReinit[b] /\ acked'[b] = acked[b]
      BY <2>1, <2>3 DEF TypeOK
    <3>2. needsReinit'[iax] = (st = "error") /\ acked'[iax] = (st = "success")
      BY <1>1, <1>2, <2>1, <2>3 DEF TypeOK
    <3> QED
      BY <1>1, <2>1, <2>3, <2>6, <3>1, <3>2
      DEF FlagTellsInit, BeingConfigured, JustInitialised
  <2>8. PollerPlace'
    BY <1>1, <1>2, <1>5, <2>1 DEF PollerPlace, TypeOK
  <2> QED
    BY <1>1, <1>3, <1>5, <2>3, <2>4, <2>5, <2>7, <2>8 DEF ChannelRegistered, ClosedIsFresh
<1> QED BY <1>4, <1>5

LEMMA ConfigurePublishKeeps ==
  ASSUME IndInv, ConfigurePublish
  PROVE  IndInv'
<1> USE DEF IndInv
<1>1. /\ UNCHANGED <<connVars, axisVars, setups, pc, cur, status, iax, envVars>>
      /\ ipc = "publish" /\ ipc' = "idle"
      /\ commsError' = [commsError EXCEPT ![iax] = TRUE]
  BY DEF ConfigurePublish, pollVars
<1>2. TypeOK'
  BY <1>1 DEF TypeOK, connVars, axisVars, initVars, envVars
<1> QED
  BY <1>1, <1>2
  DEF connVars, axisVars, initVars, ChannelRegistered, SetupSlotsOwned, ClosedIsFresh,
      UnconfiguredIsFresh, FlagTellsInit, PollerPlace, BeingConfigured, JustInitialised

-----------------------------------------------------------------------------
\* The environment touches nothing the invariant relates.
LEMMA EnvironmentKeeps ==
  ASSUME IndInv,
         \/ Tick \/ LinkDown \/ LinkUp
         \/ \E a \in Axes : DriveDown(a)
         \/ \E a \in Axes : DriveUp(a)
  PROVE  IndInv'
<1>1. UNCHANGED <<channelFd, channels, activeCh, axisVars, setups, pollVars, iocshVars>>
  BY DEF Tick, LinkDown, LinkUp, DriveDown, DriveUp, driverVars, connVars
<1>2. TypeOK'
  <2> USE ConstantsAssumption
      DEF IndInv, TypeOK, driverVars, connVars, axisVars, initVars, pollVars, iocshVars, envVars
  <2>1. CASE Tick
    BY <2>1 DEF Tick
  <2>2. CASE LinkDown
    <3>1. linkLosses' \in 0..MaxLinkLosses /\ broken' \in SUBSET Fds /\ openable' = FALSE
      BY <2>2 DEF LinkDown
    <3>2. UNCHANGED <<driverVars, alive, driveLosses>>
      BY <2>2 DEF LinkDown
    <3> QED BY <3>1, <3>2
  <2>3. CASE LinkUp
    BY <2>3 DEF LinkUp
  <2>4. CASE \E a \in Axes : DriveDown(a)
    BY <2>4 DEF DriveDown
  <2>5. CASE \E a \in Axes : DriveUp(a)
    BY <2>5 DEF DriveUp
  <2> QED BY <2>1, <2>2, <2>3, <2>4, <2>5
<1> QED BY <1>1, <1>2, FrameKeeps DEF axisVars, initVars, pollVars, iocshVars

-----------------------------------------------------------------------------
LEMMA NextKeeps == IndInv /\ [Next]_vars => IndInv'
<1> SUFFICES ASSUME IndInv, [Next]_vars
             PROVE  IndInv'
  OBVIOUS
<1>1. CASE PollStep
  BY <1>1, ControllerPollKeeps, PollCheckKeeps, PollReinitKeeps, PollReinitDoneKeeps,
     PollSelectKeeps, PollPublishKeeps DEF PollStep
<1>2. CASE \E a \in Axes : Command(a)
  BY <1>2, CommandKeeps
<1>3. CASE \E a \in Axes : ConfigureLock(a)
  BY <1>3, ConfigureLockKeeps
<1>4. CASE ConfigureInit
  BY <1>4, ConfigureInitKeeps
<1>5. CASE ConfigurePublish
  BY <1>5, ConfigurePublishKeeps
<1>6. CASE \/ Tick \/ LinkDown \/ LinkUp
           \/ \E a \in Axes : DriveDown(a)
           \/ \E a \in Axes : DriveUp(a)
  BY <1>6, EnvironmentKeeps
<1>7. CASE UNCHANGED vars
  <2>1. TypeOK'
    BY <1>7 DEF vars, connVars, axisVars, initVars, pollVars, iocshVars, envVars, IndInv, TypeOK
  <2> QED
    BY <1>7, <2>1, FrameKeeps DEF vars, connVars, axisVars, initVars, pollVars, iocshVars
<1> QED BY <1>1, <1>2, <1>3, <1>4, <1>5, <1>6, <1>7 DEF Next

\* The inductive invariant holds in every behaviour.
THEOREM Invariance == Spec => []IndInv
  BY InitEstablishes, NextKeeps, PTL DEF Spec

\* Every variable keeps its type, the backoff its cap.
THEOREM TypeCorrect == Spec => []TypeOK
<1>1. IndInv => TypeOK
  BY DEF IndInv
<1> QED BY <1>1, Invariance, PTL

\* TS_SelectChannel() on the open channel never fails: the reconnect tiers of
\* selectAxis() are dead code, and no descriptor is ever leaked.
THEOREM SelectChannelNeverFails == Spec => []ChannelRegistered
<1>1. IndInv => ChannelRegistered
  BY DEF IndInv
<1> QED BY <1>1, Invariance, PTL

\* No setup slot is leaked or shared, however often initialisation is retried.
THEOREM NoSetupLeak == Spec => []SetupSlotsOwned
<1>1. IndInv => SetupSlotsOwned
  BY DEF IndInv
<1> QED BY <1>1, Invariance, PTL

\* What the driver takes for an initialised axis is one.
THEOREM ReadyMeansInitialised == Spec => []ReadyIsInitialised
<1>1. IndInv => ReadyIsInitialised
  BY DEF IndInv, FlagTellsInit, ReadyIsInitialised, BeingConfigured
<1> QED BY <1>1, Invariance, PTL

\* Attempts to open the channel are at least 10 s apart: only ensureChannel()
\* makes one, since Tier 3 is never reached.
THEOREM RateLimited == Spec => OpenRateLimited
<1>1. IndInv /\ [Next]_vars => [age' < age => age = 2]_vars
  <2> SUFFICES ASSUME IndInv, Next, age' < age
               PROVE  age = 2
    OBVIOUS
  <2>1. CASE ControllerPoll
    BY <2>1 DEF ControllerPoll, ensureChannel, RetryDue, connVars, IndInv, TypeOK
  <2>2. CASE PollSelect \/ \E a \in Axes : Command(a)
    <3>1. age' = age
      BY <2>2, SelectAxisIsPure DEF PollSelect, Command, connVars, IndInv, TypeOK
    <3> QED BY <3>1 DEF IndInv, TypeOK
  <2>3. CASE ~ControllerPoll /\ ~PollSelect /\ ~(\E a \in Axes : Command(a))
    <3>1. age' = age \/ age' = age + 1
      BY <2>3
      DEF Next, PollStep, PollCheck, PollReinit, PollReinitDone, PollPublish, ConfigureLock,
          ConfigureInit, ConfigurePublish, Tick, LinkDown, LinkUp, DriveDown, DriveUp,
          driverVars, connVars
    <3> QED BY <3>1 DEF IndInv, TypeOK
  <2> QED BY <2>1, <2>2, <2>3
<1> QED BY <1>1, Invariance, PTL DEF Spec, OpenRateLimited

-----------------------------------------------------------------------------
(* The refinement of TmlLifecycle *)

\* CONN_STATUS says whether a channel was ever opened, and nothing else; only
\* the open channel can have lost its peer.
ConnInv ==
  /\ connOk = IF channelFd = None THEN 0 ELSE 1
  /\ broken \subseteq channels

LEMMA InitConn == Init => ConnInv
  BY ConstantsAssumption DEF Init, ConnInv, None

\* The steps that attempt no open and lose no peer keep what ConnInv relates.
LEMMA SilentSteps ==
  ASSUME IndInv,
         \/ PollCheck \/ PollReinitDone \/ PollSelect \/ PollPublish
         \/ \E a \in Axes : Command(a)
         \/ ConfigurePublish \/ Tick \/ LinkUp
         \/ \E a \in Axes : DriveDown(a)
         \/ \E a \in Axes : DriveUp(a)
  PROVE  UNCHANGED <<channelFd, connOk, channels, broken, configured, acked, executed>>
<1>1. CASE PollSelect \/ \E a \in Axes : Command(a)
  BY <1>1, SelectAxisIsPure
  DEF PollSelect, Command, connVars, axisVars, initVars, envVars, IndInv, TypeOK
<1>2. CASE PollCheck \/ PollReinitDone \/ PollPublish \/ ConfigurePublish
  BY <1>2
  DEF PollCheck, PollReinitDone, PollPublish, ConfigurePublish, connVars, axisVars, initVars, envVars
<1>3. CASE \/ Tick \/ LinkUp
           \/ \E a \in Axes : DriveDown(a)
           \/ \E a \in Axes : DriveUp(a)
  BY <1>3 DEF Tick, LinkUp, DriveDown, DriveUp, driverVars, connVars, axisVars, initVars, envVars
<1> QED BY <1>1, <1>2, <1>3

\* What the poll of the controller does to the channel: it opens the first one,
\* over a peer that is there, or it leaves things as they are.
LEMMA ControllerPollOpens ==
  ASSUME IndInv, ConnInv, ControllerPoll
  PROVE  /\ UNCHANGED <<configured, acked, executed, broken>>
         /\ \/ UNCHANGED <<channelFd, connOk, channels>>
            \/ /\ channelFd = None
               /\ channelFd' \in Fds \ broken /\ channels' = {channelFd'} /\ connOk' = 1
<1> USE ConstantsAssumption DEF IndInv, None
<1>1. UNCHANGED <<configured, broken>>
  BY DEF ControllerPoll, ensureChannel, OpenAttempt, axisVars, initVars, envVars
<1>2. CASE ~(channelFd = None /\ RetryDue)
  BY <1>1, <1>2 DEF ControllerPoll, ensureChannel, connVars, axisVars, initVars
<1>3. CASE channelFd = None /\ RetryDue /\ ~CanOpen
  BY <1>1, <1>3 DEF ControllerPoll, ensureChannel, OpenAttempt, axisVars, initVars, ConnInv
<1>4. CASE channelFd = None /\ RetryDue /\ CanOpen
  <2>1. OpenAttempt
    BY <1>4 DEF ControllerPoll, ensureChannel
  <2>2. channels = {} /\ broken = {}
    BY <1>4 DEF ChannelRegistered, ConnInv
  <2>3. PICK fd \in Fds : TS_OpenChannel(fd) /\ channelFd' = fd
    BY <1>4, <2>1 DEF OpenAttempt
  <2>4. UNCHANGED <<acked, executed>>
    <3>1. \A a \in Axes : ~acked[a]
      BY <1>4 DEF ClosedIsFresh
    <3>2. acked' = [a \in Axes |-> FALSE] /\ executed' = executed
      BY <1>4, <2>1 DEF OpenAttempt
    <3> QED BY <3>1, <3>2 DEF TypeOK
  <2>5. connOk' = 1
    BY <1>4, <2>1 DEF OpenAttempt
  <2> QED BY <1>1, <1>4, <2>2, <2>3, <2>4, <2>5 DEF TS_OpenChannel
<1> QED BY <1>2, <1>3, <1>4

\* ENDINIT goes to an axis that has acknowledged none, and one that is
\* acknowledged was sent over a connection whose peer is there.
LEMMA PollReinitInitialises ==
  ASSUME IndInv, PollReinit
  PROVE  /\ UNCHANGED <<channelFd, connOk, channels, broken, configured>>
         /\ cur \in Axes /\ configured[cur] /\ ~acked[cur]
         /\ channelFd # None
         /\ \A b \in Axes \ {cur} : executed'[b] = executed[b]
         /\ \/ acked' = acked
            \/ /\ acked' = [acked EXCEPT ![cur] = TRUE]
               /\ channelFd \notin broken
<1> USE DEF IndInv
<1>1. /\ UNCHANGED <<channelFd, connOk, channels, broken, configured>>
      /\ cur \in Axes /\ pc = "reinit"
  BY DEF PollReinit, envVars, TypeOK
<1>2. configured[cur] /\ channelFd # None /\ ~acked[cur]
  BY <1>1 DEF PollerPlace, FlagTellsInit, JustInitialised
<1>3. activeCh' = channelFd
  BY DEF PollReinit, ChannelRegistered, TS_SelectChannel
<1>4. PICK st \in {"success", "error"} : reinitAxis(cur, st)
  BY DEF PollReinit
<1>5. /\ acked' = [acked EXCEPT ![cur] = @ \/ st = "success"]
      /\ \A b \in Axes \ {cur} : executed'[b] = executed[b]
      /\ st = "success" => channelFd \notin broken
  BY <1>1, <1>3, <1>4, ReinitAxisKeepsSlots DEF Responds
<1> QED BY <1>1, <1>2, <1>4, <1>5 DEF TypeOK

LEMMA ConfigureInitInitialises ==
  ASSUME IndInv, ConfigureInit
  PROVE  /\ UNCHANGED <<channelFd, connOk, channels, broken, configured>>
         /\ iax \in Axes /\ configured[iax] /\ ~acked[iax]
         /\ \A b \in Axes \ {iax} : executed'[b] = executed[b]
         /\ \/ acked' = acked
            \/ /\ acked' = [acked EXCEPT ![iax] = TRUE]
               /\ channelFd # None /\ channelFd \notin broken
<1> USE DEF IndInv
<1>1. /\ UNCHANGED <<channelFd, connOk, channels, broken, configured>>
      /\ iax \in Axes /\ ipc = "locked"
  BY DEF ConfigureInit, envVars, TypeOK
<1>2. configured[iax] /\ ~acked[iax]
  BY <1>1 DEF PollerPlace, UnconfiguredIsFresh, BeingConfigured
<1>3. CASE channelFd = None
  BY <1>1, <1>2, <1>3 DEF ConfigureInit, initVars
<1>4. CASE channelFd # None
  <2>1. activeCh' = channelFd
    BY <1>4 DEF ConfigureInit, ChannelRegistered, TS_SelectChannel
  <2>2. PICK st \in {"success", "error"} : reinitAxis(iax, st)
    BY <1>4 DEF ConfigureInit
  <2>3. /\ acked' = [acked EXCEPT ![iax] = @ \/ st = "success"]
        /\ \A b \in Axes \ {iax} : executed'[b] = executed[b]
        /\ st = "success" => channelFd \notin broken
    BY <1>1, <2>1, <2>2, ReinitAxisKeepsSlots DEF Responds
  <2> QED BY <1>1, <1>2, <1>4, <2>2, <2>3 DEF TypeOK
<1> QED BY <1>3, <1>4

\* A drive that has acknowledged an ENDINIT executes no other on the channel:
\* whoever sends one has just found needsReinit_ set, or the axis untouched.
THEOREM NoRepeatAfterAck == Spec => NoInitAfterAck
<1>1. IndInv /\ [Next]_vars => [\A a \in Axes : executed'[a] > executed[a] => ~acked[a]]_vars
  <2> SUFFICES ASSUME IndInv, Next, NEW a \in Axes, executed'[a] > executed[a]
               PROVE  ~acked[a]
    OBVIOUS
  <2>1. executed[a] \in Nat
    BY DEF IndInv, TypeOK
  <2>2. CASE executed' = executed
    BY <2>1, <2>2
  <2>3. CASE PollReinit
    BY <2>1, <2>3, PollReinitInitialises
  <2>4. CASE ConfigureInit
    BY <2>1, <2>4, ConfigureInitInitialises
  <2>5. CASE ControllerPoll
    BY <2>2, <2>5 DEF ControllerPoll, ensureChannel, OpenAttempt, axisVars, initVars
  <2>6. CASE \/ LinkDown \/ \E x \in Axes : ConfigureLock(x)
    BY <2>2, <2>6 DEF LinkDown, ConfigureLock, driverVars, axisVars, initVars
  <2> QED BY <2>2, <2>3, <2>4, <2>5, <2>6, SilentSteps DEF Next, PollStep
<1> QED BY <1>1, Invariance, PTL DEF Spec, NoInitAfterAck

LEMMA NextConn == IndInv /\ ConnInv /\ [Next]_vars => ConnInv'
<1> SUFFICES ASSUME IndInv, ConnInv, [Next]_vars
             PROVE  ConnInv'
  OBVIOUS
<1>1. CASE UNCHANGED <<channelFd, connOk, channels, broken>>
  BY <1>1 DEF ConnInv
<1>2. CASE ControllerPoll
  BY <1>2, ControllerPollOpens, ConstantsAssumption DEF ConnInv, None, IndInv, ChannelRegistered
<1>3. CASE LinkDown
  BY <1>3 DEF LinkDown, driverVars, connVars, ConnInv
<1>4. CASE \E a \in Axes : ConfigureLock(a)
  BY <1>1, <1>4 DEF ConfigureLock, connVars, envVars
<1>5. CASE UNCHANGED vars
  BY <1>1, <1>5 DEF vars, connVars, envVars
<1> QED
  BY <1>1, <1>2, <1>3, <1>4, <1>5, SilentSteps, PollReinitInitialises, ConfigureInitInitialises
  DEF Next, PollStep

\* CONN_STATUS is OK exactly from the first successful open on.
LEMMA ConnInvariance == Spec => []ConnInv
  BY Invariance, InitConn, NextConn, PTL DEF Spec

LEMMA LifecycleInit == Init => Lifecycle!Init
<1> SUFFICES ASSUME Init PROVE Lifecycle!Init
  OBVIOUS
<1>1. \/ channelFd = None /\ connOk = 0
      \/ channelFd # None /\ channelFd \notin broken /\ connOk = 1
  BY ConstantsAssumption DEF Init, None
<1>2. \A a \in Axes : ~configured[a]
  BY DEF Init
<1> QED BY <1>1, <1>2 DEF Lifecycle!Init

\* Every step of the controller is a step of the lifecycle or none.
LEMMA LifecycleStep ==
  IndInv /\ ConnInv /\ [Next]_vars => [Lifecycle!Next]_(Lifecycle!vars)
<1> SUFFICES ASSUME IndInv, ConnInv, [Next]_vars
             PROVE  Lifecycle!Next \/ UNCHANGED Lifecycle!vars
  OBVIOUS
<1>1. CASE UNCHANGED <<channelFd, connOk, broken, configured, acked>>
  BY <1>1 DEF Lifecycle!vars
<1>2. CASE ControllerPoll
  <2>1. CASE UNCHANGED <<channelFd, connOk>>
    BY <1>1, <1>2, <2>1, ControllerPollOpens
  <2>2. CASE channelFd = None /\ channelFd' \in Fds \ broken /\ connOk' = 1
    <3>1. channelFd' # None
      BY <2>2, ConstantsAssumption DEF None
    <3> QED
      BY <1>2, <2>2, <3>1, ControllerPollOpens DEF Lifecycle!Next, Lifecycle!Open
  <2> QED BY <1>2, <2>1, <2>2, ControllerPollOpens
<1>3. ASSUME NEW a \in Axes, configured[a], ~acked[a],
             UNCHANGED <<channelFd, connOk, broken, configured>>,
             acked' = [acked EXCEPT ![a] = TRUE],
             channelFd # None, channelFd \notin broken
      PROVE  Lifecycle!Initialise(a)
  <2> DEFINE stage == [x \in Axes |-> IF ~configured[x] THEN "unconfigured"
                                     ELSE IF acked[x] THEN "ready" ELSE "pending"]
  <2>1. /\ \A x \in Axes \ {a} : acked'[x] = acked[x]
        /\ acked'[a] /\ configured' = configured
    BY <1>3 DEF IndInv, TypeOK
  <2>2. stage' = [stage EXCEPT ![a] = "ready"]
    <3>1. \A x \in Axes : stage'[x] = IF x = a THEN "ready" ELSE stage[x]
      BY <1>3, <2>1
    <3> QED BY <3>1
  <2>3. stage[a] = "pending"
    BY <1>3
  <2> QED BY <1>3, <2>2, <2>3 DEF Lifecycle!Initialise
<1>4. CASE PollReinit
  BY <1>1, <1>3, <1>4, PollReinitInitialises DEF Lifecycle!Next
<1>5. CASE ConfigureInit
  BY <1>1, <1>3, <1>5, ConfigureInitInitialises DEF Lifecycle!Next
<1>6. ASSUME NEW a \in Axes, ConfigureLock(a)
      PROVE  Lifecycle!Configure(a)
  <2>1. /\ UNCHANGED <<channelFd, connOk, broken, acked>>
        /\ ~configured[a] /\ configured' = [configured EXCEPT ![a] = TRUE]
    BY <1>6 DEF ConfigureLock, connVars, initVars, envVars
  <2>2. ~acked[a]
    BY <2>1 DEF IndInv, UnconfiguredIsFresh
  <2> QED BY <2>1, <2>2 DEF Lifecycle!Configure, IndInv, TypeOK
<1>7. CASE LinkDown
  <2>1. /\ UNCHANGED <<channelFd, connOk, configured, acked>>
        /\ broken' = broken \cup channels
    BY <1>7 DEF LinkDown, driverVars, connVars, axisVars, initVars
  <2>2. CASE channelFd = None \/ channelFd \in broken
    BY <2>1, <2>2 DEF Lifecycle!vars
  <2>3. CASE channelFd # None /\ channelFd \notin broken
    <3>1. channelFd \in broken'
      BY <2>1, <2>3 DEF IndInv, ChannelRegistered
    <3> QED BY <2>1, <2>3, <3>1 DEF Lifecycle!Next, Lifecycle!Drop
  <2> QED BY <2>2, <2>3
<1>8. CASE UNCHANGED vars
  BY <1>1, <1>8 DEF vars, connVars, axisVars, initVars, envVars
<1> QED
  BY <1>1, <1>2, <1>4, <1>5, <1>6, <1>7, <1>8, SilentSteps
  DEF Next, PollStep, Lifecycle!Next

\* The safety part of ImplementsLifecycle: whatever the peer, the drives, the
\* commands and st.cmd do, the channel is opened once and never given up,
\* CONN_STATUS tells only that it was opened, and an axis becomes ready
\* once, over a connection whose peer is there.
THEOREM LifecycleRefinement ==
  Spec => Lifecycle!Init /\ [][Lifecycle!Next]_(Lifecycle!vars)
  BY Invariance, ConnInvariance, LifecycleInit, LifecycleStep, PTL DEF Spec
=============================================================================
