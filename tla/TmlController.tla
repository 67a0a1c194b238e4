--------------------------- MODULE TmlController ---------------------------
(***************************************************************************)
(* The connection and the initialisation side of the TML motor driver      *)
(* (technosoftSup/src/drvTmlMotor.cpp and the channel and setup registries *)
(* of tmlSerial.cpp): one TmlController, its NumAxes axes, and the three   *)
(* activities that touch this state.                                       *)
(*                                                                         *)
(*   poller   the asynMotorController thread.  One cycle holds the asyn    *)
(*            port lock, calls TmlController::poll() and then poll() of    *)
(*            every axis in turn.                                          *)
(*   command  a record write (move, home, stop, CNEN, ...), which needs    *)
(*            the port lock too and so never runs inside a poll cycle.     *)
(*   iocsh    the thread that executes st.cmd.  TmlAxisConfig takes        *)
(*            tmlLock_ but NOT the port lock: it interleaves with the      *)
(*            poller, which is already running.                            *)
(*                                                                         *)
(* Code between tmlLock_.lock() and unlock() is one step; code outside     *)
(* the lock is a step of its own.  configure() is split inside its locked  *)
(* part as well, because poll() reads configured_ and needsReinit_ without *)
(* the lock.                                                               *)
(*                                                                         *)
(* activated_, powered_, stopping_ and TML_ACTIVE guard nothing here; they *)
(* are the state of module TmlAxis.                                        *)
(***************************************************************************)
EXTENDS Integers

CONSTANTS
  NumAxes,        \* numAxes of TmlControllerConfig
  Fds,            \* descriptors the OS may return, one per g_channels slot
  MaxSetups,      \* MAX_SETUPS: slots of g_setups
  MaxBackoff,     \* the cap of reinitBackoff_ (30 in the code)
  MaxLinkLosses,  \* bound: how often the serial/TCP peer goes away
  MaxDriveLosses, \* bound: how often a drive stops answering
  MaxAckLosses    \* bound: ENDINITs that a drive executes while the ACK is lost

Axes == 0 .. (NumAxes - 1)
Slots == 0 .. (MaxSetups - 1)
None == -1        \* channelFd_ < 0, setupIdx_ < 0, no axis

ASSUME ConstantsAssumption ==
  /\ NumAxes \in Nat \ {0}
  /\ MaxSetups \in Nat
  /\ MaxBackoff \in Nat \ {0}
  /\ MaxLinkLosses \in Nat
  /\ MaxDriveLosses \in Nat
  /\ MaxAckLosses \in Nat
  /\ Fds \subseteq Nat

VARIABLES
  channelFd,     \* TmlController::channelFd_
  connOk,        \* connOk_: -1 unknown, 0 BAD, 1 OK (CONN_STATUS)
  age,           \* time since lastReconnect_: 0 "< 3 s", 1 "< 10 s", 2 ">= 10 s"
  channels,      \* fds registered in g_channels
  activeCh,      \* fd of g_activeCh
  setups,        \* number of g_setups slots inUse: no slot is ever freed, so the
                 \* slots in use are 0 .. setups - 1
  configured,    \* per axis: configured_
  setupIdx,      \* per axis: setupIdx_
  needsReinit,   \* per axis: needsReinit_
  countdown,     \* per axis: reinitCountdown_
  backoff,       \* per axis: reinitBackoff_
  commsError,    \* per axis: motorStatusCommsError_ as published
  acked,         \* per axis: an ENDINIT was acknowledged on this channel (history)
  executed,      \* per axis: ENDINITs the drive has executed (history)
  ackLosses,     \* ENDINITs executed while the ACK was lost (environment)
  pc,            \* the poller's place in its cycle
  cur,           \* the axis it is polling
  status,        \* what the last locked region of poll() returned
  ipc,           \* the iocsh thread's place in configure()
  iax,           \* the axis it is configuring
  openable,      \* the device path can be opened (environment)
  broken,        \* fds whose peer has gone away (environment)
  alive,         \* per axis: the drive answers (environment)
  linkLosses, driveLosses

connVars == <<channelFd, connOk, age, channels, activeCh>>
initVars == <<acked, executed, ackLosses>>
axisVars == <<configured, setupIdx, needsReinit, countdown, backoff, initVars>>
pollVars == <<pc, cur, status>>
iocshVars == <<ipc, iax>>
envVars == <<openable, broken, alive, linkLosses, driveLosses>>
vars == <<connVars, axisVars, setups, commsError, pollVars, iocshVars, envVars>>

PollPcs == {"idle", "check", "reinit", "reinitDone", "select", "publish"}
Statuses == {"none", "success", "error", "readFailed"}

TypeOK ==
  /\ channelFd \in Fds \cup {None}
  /\ connOk \in {-1, 0, 1}
  /\ age \in 0..2
  /\ channels \in SUBSET Fds
  /\ activeCh \in Fds \cup {None}
  /\ setups \in 0..MaxSetups
  /\ configured \in [Axes -> BOOLEAN]
  /\ setupIdx \in [Axes -> Slots \cup {None}]
  /\ needsReinit \in [Axes -> BOOLEAN]
  /\ countdown \in [Axes -> 0..MaxBackoff]
  /\ backoff \in [Axes -> 1..MaxBackoff]
  /\ commsError \in [Axes -> BOOLEAN]
  /\ acked \in [Axes -> BOOLEAN]
  /\ executed \in [Axes -> Nat]
  /\ ackLosses \in 0..MaxAckLosses
  /\ pc \in PollPcs
  /\ cur \in Axes
  /\ status \in Statuses
  /\ ipc \in {"idle", "locked", "publish"}
  /\ iax \in Axes
  /\ openable \in BOOLEAN
  /\ broken \in SUBSET Fds
  /\ alive \in [Axes -> BOOLEAN]
  /\ linkLosses \in 0..MaxLinkLosses
  /\ driveLosses \in 0..MaxDriveLosses

-----------------------------------------------------------------------------
(* tmlSerial.cpp: channels and setups *)

\* TS_OpenChannel: a free slot and a device that opens; registers the channel
\* and selects it.  The OS returns the lowest free descriptor; the code only
\* ever compares descriptors for equality.
CanOpen == openable /\ channels # Fds

TS_OpenChannel(fd) ==
  /\ CanOpen
  /\ fd \in Fds \ channels /\ \A free \in Fds \ channels : fd <= free
  /\ channels' = channels \cup {fd}
  /\ activeCh' = fd

\* TS_SelectChannel(fd) for fd >= 0: TRUE iff fd is a registered channel.  The
\* channel's descriptor is compared, the connection itself is not tested.
TS_SelectChannel(fd) == fd \in channels

\* TS_LoadSetup: the first free slot, or an error when there is none.
CanLoadSetup == setups < MaxSetups

\* An axis answers on the active channel.
Responds(a) == activeCh' \notin broken /\ alive[a]

\* Three attempts of TS_DriveInitialisation, two writes of sendMessage() in each.
MaxSends == 6

\* TS_DriveInitialisation: ENDINIT is sent until it is acknowledged, MaxSends
\* times at most.  The drive executes every one that reaches it, `lost` of them
\* with the acknowledgement lost.
DriveInitialisation(a, reachable, st) ==
  \E lost \in 0..MaxSends :
    /\ ackLosses' = ackLosses + lost /\ ackLosses' <= MaxAckLosses
    /\ \/ /\ reachable /\ lost < MaxSends
          /\ st = "success"
          /\ executed' = [executed EXCEPT ![a] = @ + lost + 1]
       \/ /\ reachable <=> lost > 0
          /\ st = "error"
          /\ executed' = [executed EXCEPT ![a] = @ + lost]

\* The body of reinitAxis, `load` telling whether TS_LoadSetup is called.
\* ENDINIT decides the result; the diagnostics and the SCR and MER_MASK writes
\* after it never fail the call.
SetupAndInit(a, load, st) ==
  /\ setups' = IF load /\ CanLoadSetup THEN setups + 1 ELSE setups
  /\ setupIdx' = IF load /\ CanLoadSetup
                   THEN [setupIdx EXCEPT ![a] = setups] ELSE setupIdx
  /\ DriveInitialisation(a, (~load \/ CanLoadSetup) /\ Responds(a), st)
  /\ acked' = [acked EXCEPT ![a] = @ \/ st = "success"]

\* Mutant: the setup file is loaded again on every retry.
reinitAxis_AlwaysLoads(a, st) == SetupAndInit(a, TRUE, st)

\* TmlAxis::reinitAxis, with the status it returns: the setup slot is loaded
\* only when the axis has none.
reinitAxis(a, st) == SetupAndInit(a, setupIdx[a] = None, st)

-----------------------------------------------------------------------------
(* TmlController *)

Init ==
  /\ openable \in BOOLEAN
  /\ broken = {}
  \* A drive that is off at the start has stopped answering before the first step.
  /\ alive = [a \in Axes |-> TRUE]
  /\ linkLosses = 0 /\ driveLosses = 0
  \* The constructor opens the channel and stamps lastReconnect_ either way.
  /\ age = 0
  /\ IF openable /\ Fds # {}
       THEN /\ channelFd \in Fds /\ \A fd \in Fds : channelFd <= fd
            /\ channels = {channelFd} /\ activeCh = channelFd /\ connOk = 1
       ELSE /\ channelFd = None /\ channels = {} /\ activeCh = None /\ connOk = 0
  /\ setups = 0
  /\ configured = [a \in Axes |-> FALSE]
  /\ setupIdx = [a \in Axes |-> None]
  /\ needsReinit = [a \in Axes |-> FALSE]
  /\ countdown = [a \in Axes |-> 0]
  /\ backoff = [a \in Axes |-> 1]
  /\ commsError = [a \in Axes |-> FALSE]
  /\ acked = [a \in Axes |-> FALSE]
  /\ executed = [a \in Axes |-> 0]
  /\ ackLosses = 0
  /\ pc = "idle" /\ cur = 0 /\ status = "none"
  /\ ipc = "idle" /\ iax = 0

\* tmlLock_ is held across steps only by configure().
LockFree == ipc # "locked"

\* Every axis that `who` selects restarts its initialisation from nothing.
MarkForReinit(who) ==
  /\ setupIdx' = [a \in Axes |-> IF a \in who THEN None ELSE setupIdx[a]]
  /\ needsReinit' = [a \in Axes |-> a \in who \/ needsReinit[a]]
  /\ countdown' = [a \in Axes |-> IF a \in who THEN 0 ELSE countdown[a]]
  /\ backoff' = [a \in Axes |-> IF a \in who THEN 1 ELSE backoff[a]]

\* Mutant: the cooldown of selectAxis() (3 s) used for the open retries.
RetryDue_ShortCooldown == age > 0

\* At least 10 s since lastReconnect_.
RetryDue == age = 2

\* One attempt to open the channel; when it succeeds, every configured axis
\* must redo its setup on the new channel.
OpenAttempt ==
  /\ age' = 0
  /\ IF ~CanOpen
       THEN /\ connOk' = 0
            /\ UNCHANGED <<channelFd, channels, activeCh, axisVars>>
       ELSE /\ \E fd \in Fds : TS_OpenChannel(fd) /\ channelFd' = fd
            /\ connOk' = 1
            /\ MarkForReinit({a \in Axes : configured[a]})
            /\ acked' = [a \in Axes |-> FALSE]
            /\ UNCHANGED <<configured, executed, ackLosses>>

\* Mutant: the early return for an open channel is missing.
ensureChannel_NoOpenCheck ==
  IF RetryDue THEN OpenAttempt ELSE UNCHANGED <<connVars, axisVars>>

\* TmlController::ensureChannel.
ensureChannel ==
  IF channelFd = None /\ RetryDue THEN OpenAttempt ELSE UNCHANGED <<connVars, axisVars>>

\* selectAxis, Tier 3: close (the fd was just found unregistered, so nothing
\* is closed), reopen, mark the other axes for lazy re-initialisation and
\* initialise the calling axis now.
Reconnect(a, st) ==
  /\ age' = 0
  /\ UNCHANGED configured
  /\ IF ~CanOpen
       THEN /\ channelFd' = None /\ connOk' = 0 /\ st = "error"
            /\ UNCHANGED <<channels, activeCh, setups, setupIdx, needsReinit,
                           countdown, backoff, initVars>>
       ELSE LET ok == st = "success"
                other(x) == x # a /\ configured[x]
                restart(x) == other(x) \/ (x = a /\ ~ok)
            IN  /\ \E fd \in Fds : TS_OpenChannel(fd) /\ channelFd' = fd
                /\ connOk' = 1
                /\ DriveInitialisation(a, CanLoadSetup /\ Responds(a), st)
                /\ setups' = IF CanLoadSetup THEN setups + 1 ELSE setups
                /\ setupIdx' = [x \in Axes |->
                     IF x = a /\ CanLoadSetup THEN setups
                     ELSE IF x = a \/ other(x) THEN None ELSE setupIdx[x]]
                /\ needsReinit' = [x \in Axes |-> IF x = a THEN ~ok
                                                   ELSE other(x) \/ needsReinit[x]]
                /\ countdown' = [x \in Axes |-> IF other(x) THEN 0
                                                 ELSE IF restart(x) THEN 1 ELSE countdown[x]]
                /\ backoff' = [x \in Axes |-> IF restart(x) THEN 1 ELSE backoff[x]]
                /\ acked' = [x \in Axes |-> x = a /\ ok]

\* TmlAxis::selectAxis with the status it returns.  TS_SelectAxis after it fails
\* only when no channel is active, which Tier 1 excludes.
selectAxis(a, st) ==
  \/ /\ ~configured[a] \/ channelFd = None
     /\ st = "error"
     /\ UNCHANGED <<connVars, axisVars, setups>>
  \/ /\ configured[a] /\ channelFd # None /\ TS_SelectChannel(channelFd)   \* Tier 1
     /\ st = "success"
     /\ activeCh' = channelFd
     /\ UNCHANGED <<channelFd, connOk, age, channels, axisVars, setups>>
  \/ /\ configured[a] /\ channelFd # None /\ ~TS_SelectChannel(channelFd)
     /\ IF age = 0
          THEN /\ st = "error"                                                \* Tier 2
               /\ UNCHANGED <<connVars, axisVars, setups>>
          ELSE Reconnect(a, st)                                               \* Tier 3

-----------------------------------------------------------------------------
(* The poller *)

\* On to the next axis; after the last one the port lock is released.
NextAxis ==
  IF cur + 1 \in Axes
    THEN cur' = cur + 1 /\ pc' = "check"
    ELSE cur' = 0 /\ pc' = "idle"

\* TmlController::poll().
ControllerPoll ==
  /\ pc = "idle" /\ LockFree
  /\ ensureChannel
  /\ pc' = "check" /\ cur' = 0
  /\ UNCHANGED <<setups, commsError, status, iocshVars, envVars>>

\* TmlAxis::poll() up to its first lock: what configured_, needsReinit_ and the
\* backoff say, read without tmlLock_.
PollCheck ==
  /\ pc = "check"
  /\ LET a == cur
         skip == ~configured[a]
         down == needsReinit[a] /\ channelFd = None
         wait == needsReinit[a] /\ channelFd # None /\ countdown[a] > 0
     IN  /\ commsError' = IF ~skip /\ (down \/ wait)
                            THEN [commsError EXCEPT ![a] = TRUE] ELSE commsError
         /\ countdown' = IF ~skip /\ wait
                           THEN [countdown EXCEPT ![a] = @ - 1] ELSE countdown
         /\ IF skip \/ down \/ wait
              THEN NextAxis
              ELSE pc' = (IF needsReinit[a] THEN "reinit" ELSE "select") /\ cur' = cur
  /\ UNCHANGED <<connVars, configured, setupIdx, needsReinit, backoff, initVars,
                 setups, status, iocshVars, envVars>>

\* The locked part of the deferred initialisation.
PollReinit ==
  /\ pc = "reinit" /\ LockFree
  /\ activeCh' = IF TS_SelectChannel(channelFd) THEN channelFd ELSE activeCh
  /\ \E st \in {"success", "error"} : reinitAxis(cur, st) /\ status' = st
  /\ pc' = "reinitDone"
  /\ UNCHANGED <<channelFd, connOk, age, channels, configured, needsReinit, countdown,
                 backoff, commsError, cur, iocshVars, envVars>>

\* Mutant: the clamp after the doubling is missing.
NextBackoff_NoClamp(b) == IF b < MaxBackoff THEN 2 * b ELSE b

\* reinitBackoff_ after a failure: doubled below the cap, then clamped to it.
NextBackoff(b) == IF 2 * b < MaxBackoff THEN 2 * b ELSE MaxBackoff

\* Mutant: needsReinit_ is left set.
InitSucceeded_KeepsFlag(a) == UNCHANGED needsReinit

InitSucceeded(a) == needsReinit' = [needsReinit EXCEPT ![a] = FALSE]

\* What poll() does with reinitAxis()'s result, after the unlock.
PollReinitDone ==
  /\ pc = "reinitDone"
  /\ commsError' = [commsError EXCEPT ![cur] = status = "error"]
  /\ IF status = "error"
       THEN /\ countdown' = [countdown EXCEPT ![cur] = backoff[cur]]
            /\ backoff' = [backoff EXCEPT ![cur] = NextBackoff(@)]
            /\ NextAxis
            /\ UNCHANGED needsReinit
       ELSE /\ InitSucceeded(cur)
            /\ pc' = "select" /\ cur' = cur
            /\ UNCHANGED <<countdown, backoff>>
  /\ UNCHANGED <<connVars, configured, setupIdx, initVars, setups, status, iocshVars, envVars>>

\* The locked part of the regular poll: selectAxis(), then the register reads,
\* which succeed when the drive answers.
PollSelect ==
  /\ pc = "select" /\ LockFree
  /\ \E st \in {"success", "error"} :
       /\ selectAxis(cur, st)
       /\ status' = IF st = "success" /\ ~Responds(cur) THEN "readFailed" ELSE st
  /\ pc' = "publish"
  /\ UNCHANGED <<commsError, cur, iocshVars, envVars>>

\* Mutant: an error once published is never taken back.
CommsAfterPoll_Sticky(a) == commsError[a] \/ status # "success"

\* Mutant: failed register reads publish no error.
CommsAfterPoll_SelectOnly(a) == status = "error"

\* motorStatusCommsError_ after a poll: selectAxis() failed, or TPOS or SRL
\* could not be read.
CommsAfterPoll(a) == status # "success"

\* What the regular poll publishes, after the unlock.
PollPublish ==
  /\ pc = "publish"
  /\ commsError' = [commsError EXCEPT ![cur] = CommsAfterPoll(cur)]
  /\ NextAxis
  /\ UNCHANGED <<connVars, axisVars, setups, status, iocshVars, envVars>>

PollStep ==
  \/ ControllerPoll
  \/ PollCheck
  \/ PollReinit
  \/ PollReinitDone
  \/ PollSelect
  \/ PollPublish

-----------------------------------------------------------------------------
(* Record writes: every command starts with selectAxis() *)

Command(a) ==
  /\ pc = "idle" /\ LockFree
  /\ configured[a]
  /\ \E st \in {"success", "error"} : selectAxis(a, st)
  /\ UNCHANGED <<commsError, pollVars, iocshVars, envVars>>

-----------------------------------------------------------------------------
(* TmlAxisConfig on the iocsh thread, once per axis *)

\* The axis's fields are set, tmlLock_ is taken and configured_ becomes true.
ConfigureLock(a) ==
  /\ ipc = "idle" /\ ~configured[a]
  /\ configured' = [configured EXCEPT ![a] = TRUE]
  /\ ipc' = "locked" /\ iax' = a
  /\ UNCHANGED <<connVars, setupIdx, needsReinit, countdown, backoff, initVars, setups,
                 commsError, pollVars, envVars>>

\* Mutant: the axis is left to TmlController::poll() alone.
ConfigureChannelDown_NoFlag == UNCHANGED <<needsReinit, countdown, backoff>>

\* configure() with the channel down: the axis waits for its deferred
\* initialisation.
ConfigureChannelDown ==
  /\ needsReinit' = [needsReinit EXCEPT ![iax] = TRUE]
  /\ countdown' = [countdown EXCEPT ![iax] = 0]
  /\ backoff' = [backoff EXCEPT ![iax] = 1]

\* The rest of the locked part: nothing but flags while the channel is down,
\* the whole initialisation otherwise.
ConfigureInit ==
  /\ ipc = "locked"
  /\ IF channelFd = None
       THEN /\ ConfigureChannelDown
            /\ UNCHANGED <<activeCh, setups, setupIdx, initVars>>
       ELSE /\ activeCh' = IF TS_SelectChannel(channelFd) THEN channelFd ELSE activeCh
            /\ \E st \in {"success", "error"} :
                 /\ reinitAxis(iax, st)
                 /\ needsReinit' = [needsReinit EXCEPT ![iax] = (st = "error")]
            /\ UNCHANGED <<countdown, backoff>>
  /\ ipc' = IF channelFd = None THEN "publish" ELSE "idle"
  /\ UNCHANGED <<channelFd, connOk, age, channels, configured, commsError, pollVars, iax,
                 envVars>>

\* The channel-down path of configure() publishes a comms error after the
\* unlock, whatever the poller has achieved in the meantime.
ConfigurePublish ==
  /\ ipc = "publish"
  /\ ipc' = "idle"
  /\ commsError' = [commsError EXCEPT ![iax] = TRUE]
  /\ UNCHANGED <<connVars, axisVars, setups, pollVars, iax, envVars>>

-----------------------------------------------------------------------------
(* The environment *)

\* Time passes for the two reconnect limits.
Tick ==
  /\ age < 2
  /\ age' = age + 1
  /\ UNCHANGED <<channelFd, connOk, channels, activeCh, axisVars, setups, commsError,
                 pollVars, iocshVars, envVars>>

driverVars == <<connVars, axisVars, setups, commsError, pollVars, iocshVars>>

\* The peer goes away: connections to it are dead for good, new ones fail.
LinkDown ==
  /\ openable /\ linkLosses < MaxLinkLosses
  /\ openable' = FALSE
  /\ broken' = broken \cup channels
  /\ linkLosses' = linkLosses + 1
  /\ UNCHANGED <<driverVars, alive, driveLosses>>

LinkUp ==
  /\ ~openable
  /\ openable' = TRUE
  /\ UNCHANGED <<driverVars, broken, alive, linkLosses, driveLosses>>

DriveDown(a) ==
  /\ alive[a] /\ driveLosses < MaxDriveLosses
  /\ alive' = [alive EXCEPT ![a] = FALSE]
  /\ driveLosses' = driveLosses + 1
  /\ UNCHANGED <<driverVars, openable, broken, linkLosses>>

DriveUp(a) ==
  /\ ~alive[a]
  /\ alive' = [alive EXCEPT ![a] = TRUE]
  /\ UNCHANGED <<driverVars, openable, broken, linkLosses, driveLosses>>

-----------------------------------------------------------------------------
Next ==
  \/ PollStep
  \/ \E a \in Axes : Command(a)
  \/ \E a \in Axes : ConfigureLock(a)
  \/ ConfigureInit
  \/ ConfigurePublish
  \/ Tick
  \/ LinkDown
  \/ LinkUp
  \/ \E a \in Axes : DriveDown(a)
  \/ \E a \in Axes : DriveUp(a)

\* The poller thread runs for ever, a configure() that has started finishes,
\* time passes, and outages end.  Nothing is assumed of commands, of how many
\* axes st.cmd configures, or of when something breaks.
Fairness ==
  /\ WF_vars(PollStep)
  /\ WF_vars(ConfigureInit)
  /\ WF_vars(ConfigurePublish)
  /\ WF_vars(Tick)
  /\ WF_vars(LinkUp)
  /\ \A a \in Axes : WF_vars(DriveUp(a))

Spec == Init /\ [][Next]_vars /\ Fairness

-----------------------------------------------------------------------------
(* Properties *)

\* The channel registry holds exactly the controller's channel, and it is the
\* active one: TS_SelectChannel(channelFd_) never fails, no descriptor leaks.
\* Hence Tiers 2 and 3 of selectAxis() are never reached.
ChannelRegistered ==
  /\ channels = {channelFd} \ {None}
  /\ activeCh = channelFd

\* Every setup slot in use belongs to exactly one axis: retries, reopened
\* channels and the race between configure() and the poller lose no slot of
\* the MAX_SETUPS ("avoids slot leak on repeated retries", reinitAxis).
SetupSlotsOwned ==
  /\ \A s \in 0 .. (setups - 1) : \E a \in Axes : setupIdx[a] = s
  /\ \A a \in Axes : setupIdx[a] # None => setupIdx[a] < setups
  /\ \A a, b \in Axes : setupIdx[a] = setupIdx[b] /\ setupIdx[a] # None => a = b

\* configure() is at work on axis a.
BeingConfigured(a) == ipc = "locked" /\ iax = a

\* An axis the driver takes for initialised has had its ENDINIT acknowledged on
\* the present channel.
ReadyIsInitialised ==
  \A a \in Axes :
    configured[a] /\ ~needsReinit[a] /\ ~BeingConfigured(a) => acked[a]

\* Once a drive has acknowledged its ENDINIT it executes no other on that
\* channel: neither a retry, nor the poller after configure(), nor configure()
\* after the poller sends one (the "TS_DriveInitialisation storm" selectAxis() is
\* built to avoid).  Before that it may execute several: sendMessage(),
\* TS_DriveInitialisation() and poll() all send again when the ACK is lost.
NoInitAfterAck ==
  [][\A a \in Axes : executed'[a] > executed[a] => ~acked[a]]_vars

\* Two attempts to open the channel are at least 10 s apart.
OpenRateLimited == [][age' < age => age = 2]_vars

\* While the open channel lasts, an axis that is configured ends up initialised
\* with its comms error cleared for good: the backoff never strands it, and a
\* late publication of configure() is overwritten by the poller.
Recovers ==
  <>[](broken = {}) =>
    \A a \in Axes : <>[](configured[a] => ~needsReinit[a] /\ ~commsError[a])

\* A dropped connection is visible for ever as a comms error of every
\* configured axis.
DropSurfaces ==
  \A a \in Axes : (channelFd \in broken /\ configured[a]) ~> [](commsError[a])

\* README "Channel reconnect": a channel that "drops later" shows
\* CONN_STATUS=BAD, the state from which ensureChannel() reopens it.
DropDetected == channelFd \in broken ~> connOk = 0

\* The controller keeps what TmlLifecycle promises of the connection and of the
\* initialisation of the axes, whatever the peer, the drives, the commands and
\* st.cmd do, and in whatever order.
Lifecycle == INSTANCE TmlLifecycle WITH
  connection <- IF channelFd = None THEN "closed"
                ELSE IF channelFd \in broken THEN "dropped" ELSE "open",
  status <- IF connOk = 1 THEN "OK" ELSE "BAD",
  stage <- [a \in Axes |-> IF ~configured[a] THEN "unconfigured"
                           ELSE IF acked[a] THEN "ready" ELSE "pending"]
ImplementsLifecycle == Lifecycle!Spec

=============================================================================
