------------------------------- MODULE TmlLib -------------------------------
(***************************************************************************)
(* The TS_* interface (technosoftSup/src/tmlSerial.cpp) as the driver uses *)
(* it: calls name neither a channel nor a drive, they go to the process's  *)
(* active channel and to the axis selected there, and resolve the names of *)
(* variables in that channel's one map.                                    *)
(*                                                                         *)
(* A controller has a port thread, on which its commands and its cycles of *)
(* polls exclude each other by the asyn port lock; one iocsh thread makes  *)
(* the controllers and configures the axes.  A handler is the sequence of  *)
(* what it still has to do (todo): the calls it makes and, within          *)
(* tmlLock_, the messages it sends, each of them one step.  A channel may  *)
(* fail to open, and selectAxis() with it, until a cycle has opened it; a  *)
(* request may fail, executed or not, and one that succeeds has been       *)
(* executed (TmlRequest).                                                  *)
(*                                                                         *)
(* The drive's registers are tagged with the number of the command that    *)
(* wrote them.  An open channel stays registered and a setup file is       *)
(* loaded once per axis (TmlController).                                   *)
(***************************************************************************)
EXTENDS Naturals, Sequences, FiniteSets

CONSTANTS
  Controllers,
  Iocsh,         \* the thread that runs the start-up script
  Drives,        \* the configured axes and their drives
  ControllerOf,  \* the channel a drive is on
  AxisId,        \* axisId of TmlAxisConfig
  None,          \* no channel, no axis, no thread
  Defaults,      \* registerDefaults(): addresses of the names compiled in
  ZipVariables,  \* variables.cfg in the setup file of an axis; empty if unreadable
  Firmware,      \* the address at which a drive has a motion register
  MaxCommands    \* bound: motion commands

\* The motion registers written by name, and all the settings UPD! puts in force.
ByName == {"CACC", "CSPD", "CPOS"}
Settings == ByName \cup {"REF", "MODE", "TUM"}

ASSUME LibAssumption ==
  /\ Iocsh \notin Controllers /\ None \notin Controllers \cup {Iocsh}
  /\ ControllerOf \in [Drives -> Controllers]
  /\ ByName \subseteq DOMAIN Defaults
  /\ MaxCommands \in Nat

Threads == Controllers \cup {Iocsh}

VARIABLES
  lock,        \* tmlLock_ of a controller: the thread that holds it
  created,     \* controllers whose constructor has tried to open the channel
  cycle,       \* the axes a controller's poll cycle has still to poll
  opened,      \* channelFd_ >= 0
  activeCh,    \* g_activeCh
  activeAxis,  \* activeAxisId_ of a channel
  varMap,      \* the variable map of a channel
  configured,  \* configured_
  needsReinit, \* needsReinit_
  todo,        \* what the handler on a thread still has to do
  drive,       \* the axis it is a method of
  number,      \* the number of its motion command
  omitted,     \* the settings this command does not write, their value being zero
  issued,      \* motion commands so far
  setBy,       \* the command that last wrote a setting of a drive
  mode         \* position (PP3) or speed (SP1) profile

pollVars == <<created, cycle>>
libVars == <<opened, activeCh, activeAxis, varMap>>
axisVars == <<configured, needsReinit>>
driveVars == <<setBy, mode>>
jobVars == <<drive, number, omitted, issued>>
vars == <<lock, pollVars, libVars, axisVars, todo, jobVars, driveVars>>

-----------------------------------------------------------------------------
(* Variable maps *)

\* Mutant: an address already known is kept.
Merge_KeepsOld(map, other) ==
  [n \in DOMAIN map \cup DOMAIN other |-> IF n \in DOMAIN map THEN map[n] ELSE other[n]]

\* TmlVariableMap::merge: the other map's addresses take precedence.
Merge(map, other) ==
  [n \in DOMAIN map \cup DOMAIN other |-> IF n \in DOMAIN other THEN other[n] ELSE map[n]]

\* TS_LoadSetup: the map of an axis's setup, built-in defaults overridden by its
\* file.
SetupMap(d) == Merge(Defaults, ZipVariables[d])

\* getAddress; an unknown name has none.
Address(map, n) == IF n \in DOMAIN map THEN {map[n]} ELSE {}

-----------------------------------------------------------------------------
(* Handlers *)

Modes == {"PP3", "SP1"}
MotionMessages == ByName \cup Modes \cup {"REF", "TUM", "UPD"}
Messages ==
  MotionMessages \cup {"ENDINIT", "SCR", "POWER", "EVENTS", "STOP", "SAP", "MER", "ENABLE_OFF"}
Calls == {"lock", "unlock", "open", "select", "attempt", "channel", "setup", "axis"}

\* Under the lock, after selectAxis(); stop() and the zeroing of a homed axis go on
\* when it fails ("attempt").
Locked(messages) == <<"lock", "select", "axis">> \o messages \o <<"unlock">>
Attempted(messages) == <<"lock", "attempt", "axis">> \o messages \o <<"unlock">>

\* What a profile may omit: a speed or an acceleration of zero is not written.
MoveOmissions == SUBSET {"CACC", "CSPD"}
JogOmissions == SUBSET {"CACC"}

Unless(omit, setting) == IF setting \in omit THEN <<>> ELSE <<setting>>

\* TS_MoveAbsolute and TS_MoveRelative; TS_MoveVelocity.  Before them the events are
\* disarmed, after them one is armed for a move and for a homing, whose speed and
\* acceleration are never zero.
MoveMessages(omit) ==
  <<"EVENTS">> \o Unless(omit, "CACC") \o Unless(omit, "CSPD")
    \o <<"CPOS", "REF", "PP3", "TUM", "UPD", "EVENTS">>
JogMessages(omit) == <<"EVENTS">> \o Unless(omit, "CACC") \o <<"CSPD", "SP1", "UPD">>
HomeMessages == JogMessages({}) \o <<"EVENTS">>

\* powerOn() and powerOff() select again, unless there is nothing to do.
Power == <<"select", "axis", "POWER">>

\* The constructor and TmlController::poll(); configure() and the retried
\* initialisation.
OpenJob == <<"lock", "open", "unlock">>
InitJob == <<"lock", "channel", "setup", "axis", "ENDINIT", "SCR", "EVENTS", "unlock">>

PollJob == Locked(<<"ENABLE_OFF">>)
StopJob == Attempted(<<"STOP">>)
StopHomingJob == Attempted(<<"STOP", "EVENTS">>)
ZeroJob == Attempted(<<"SAP", "EVENTS">>)
SetPositionJob == Locked(<<"SAP">>)
MerJob == Locked(<<"MER">>)
PowerJob == Locked(<<"POWER">>)

Init ==
  /\ lock = [c \in Controllers |-> None]
  /\ created = {} /\ cycle = [c \in Controllers |-> {}]
  /\ opened = {} /\ activeCh = None
  /\ activeAxis = [c \in Controllers |-> None]
  /\ varMap = [c \in Controllers |-> Defaults]
  /\ configured = {} /\ needsReinit = {}
  /\ todo = [t \in Threads |-> <<>>]
  /\ drive \in [Threads -> Drives]
  /\ number = [t \in Threads |-> 0] /\ issued = 0
  /\ omitted = [t \in Threads |-> {}]
  /\ setBy = [d \in Drives |-> [s \in Settings |-> 0]]
  /\ mode = [d \in Drives |-> "PP3"]

Idle(t) == todo[t] = <<>>

\* A thread takes up a handler of axis d.
Begin(t, d, job) ==
  /\ Idle(t)
  /\ todo' = [todo EXCEPT ![t] = job]
  /\ drive' = [drive EXCEPT ![t] = d]
  /\ UNCHANGED <<lock, libVars, axisVars, driveVars>>

NoCommand == UNCHANGED <<number, omitted, issued>>

AxesOf(c) == {d \in Drives : ControllerOf[d] = c}

\* TmlControllerConfig, of the controller of d; its last act is to start the poller.
Open(d) ==
  /\ ControllerOf[d] \notin created
  /\ Begin(Iocsh, d, OpenJob) /\ NoCommand
  /\ UNCHANGED pollVars

\* TmlAxisConfig.  configured_ is set under the lock, before the first call.
Configure(d) ==
  /\ ControllerOf[d] \in created /\ d \notin configured
  /\ Begin(Iocsh, d, InitJob) /\ NoCommand
  /\ UNCHANGED pollVars

PortThread(d) == ControllerOf[d]

\* TmlController::poll(): a cycle, which has the port lock until each axis is polled.
Cycle(d) ==
  /\ ControllerOf[d] \in created /\ cycle[ControllerOf[d]] = {}
  /\ Begin(PortThread(d), d, OpenJob) /\ NoCommand
  /\ cycle' = [cycle EXCEPT ![ControllerOf[d]] = AxesOf(ControllerOf[d])]
  /\ UNCHANGED created

\* poll() of an axis of the cycle, with the initialisation it retries and the
\* completion of a homing ...
Poll(d) ==
  /\ d \in cycle[ControllerOf[d]] /\ d \in configured
  /\ d \in needsReinit => ControllerOf[d] \in opened
  /\ \E zero \in {<<>>, ZeroJob} :
       Begin(PortThread(d), d, (IF d \in needsReinit THEN InitJob ELSE <<>>) \o PollJob \o zero)
  /\ cycle' = [cycle EXCEPT ![ControllerOf[d]] = @ \ {d}]
  /\ NoCommand /\ UNCHANGED created

\* ... or without a call: an axis that is not configured, or that waits for its
\* channel.  (One that waits for its backoff is as if there were no cycle.)
PollNothing(d) ==
  /\ d \in cycle[ControllerOf[d]] /\ Idle(PortThread(d))
  /\ d \notin configured \/ (d \in needsReinit /\ ControllerOf[d] \notin opened)
  /\ cycle' = [cycle EXCEPT ![ControllerOf[d]] = @ \ {d}]
  /\ UNCHANGED <<lock, created, libVars, axisVars, todo, jobVars, driveVars>>

\* A command, of a configured axis and between the cycles.
Command(d, job) ==
  /\ d \in configured /\ cycle[ControllerOf[d]] = {}
  /\ Begin(PortThread(d), d, job)
  /\ UNCHANGED pollVars

Motion(d, job, omit) ==
  /\ issued < MaxCommands
  /\ Command(d, job)
  /\ issued' = issued + 1 /\ number' = [number EXCEPT ![PortThread(d)] = issued + 1]
  /\ omitted' = [omitted EXCEPT ![PortThread(d)] = omit]

\* move(), moveVelocity() and home(), with or without the power stage to switch on.
Move(d) ==
  \E power \in {<<>>, Power}, omit \in MoveOmissions :
    Motion(d, Locked(power \o MoveMessages(omit)), omit)
Jog(d) ==
  \E power \in {<<>>, Power}, omit \in JogOmissions :
    Motion(d, Locked(power \o JogMessages(omit)), omit)

\* From forceHome(), after the lock under which it reads MER.
Home(d) ==
  \E power \in {<<>>, Power}, before \in {<<>>, MerJob} :
    Motion(d, before \o Locked(power \o HomeMessages), {})

\* stop(); setPosition(); forceHome() at the limit; setClosedLoop().
Setting(d) ==
  /\ \E job \in {StopJob, StopHomingJob, SetPositionJob, MerJob \o ZeroJob, PowerJob} :
       Command(d, job)
  /\ NoCommand

-----------------------------------------------------------------------------
(* What a handler does next *)

Pending(t) == Head(todo[t])
At(t, step) == ~Idle(t) /\ Pending(t) = step
Own(t) == ControllerOf[drive[t]]

Proceed(t) == todo' = [todo EXCEPT ![t] = Tail(@)]

\* Mutant: tmlLock_ is not waited for.
LockFree_Always(t) == TRUE

LockFree(t) == lock[Own(t)] = None

\* tmlLock_.lock(); configure() marks the axis right after it.
Lock(t) ==
  /\ At(t, "lock") /\ LockFree(t)
  /\ lock' = [lock EXCEPT ![Own(t)] = t]
  /\ configured' = configured \cup (IF t = Iocsh /\ todo[t] = InitJob THEN {drive[t]} ELSE {})
  /\ Proceed(t)
  /\ UNCHANGED <<pollVars, libVars, needsReinit, jobVars, driveVars>>

Unlock(t) ==
  /\ At(t, "unlock")
  /\ lock' = [lock EXCEPT ![Own(t)] = None]
  /\ Proceed(t)
  /\ UNCHANGED <<pollVars, libVars, axisVars, jobVars, driveVars>>

\* Mutant: the descriptor is not stored.
OpenedAfter_Kept(t) == opened

OpenedAfter(t) == opened \cup {Own(t)}

\* TS_OpenChannel selects the new channel, and ensureChannel() has the axes initialise
\* again ...
OpenChannel(t) ==
  /\ At(t, "open") /\ Own(t) \notin opened
  /\ opened' = OpenedAfter(t) /\ activeCh' = Own(t)
  /\ needsReinit' = needsReinit \cup (configured \cap AxesOf(Own(t)))
  /\ created' = created \cup {Own(t)}
  /\ Proceed(t)
  /\ UNCHANGED <<lock, cycle, activeAxis, varMap, configured, jobVars, driveVars>>

\* ... or fails, is not due yet, or has nothing to do.
LeaveChannel(t) ==
  /\ At(t, "open")
  /\ created' = created \cup {Own(t)}
  /\ Proceed(t)
  /\ UNCHANGED <<lock, cycle, libVars, axisVars, jobVars, driveVars>>

\* TS_SelectChannel, of selectAxis() or before an initialisation.
SelectChannel(t) ==
  /\ ~Idle(t) /\ Pending(t) \in {"select", "attempt", "channel"} /\ Own(t) \in opened
  /\ activeCh' = Own(t)
  /\ Proceed(t)
  /\ UNCHANGED <<lock, pollVars, opened, activeAxis, varMap, axisVars, jobVars, driveVars>>

\* Every early return of a handler under the lock unlocks first.
EarlyReturn == <<"unlock">>

\* selectAxis() fails on a closed channel, and ends the handler ...
SelectFails(t) ==
  /\ At(t, "select") /\ Own(t) \notin opened
  /\ todo' = [todo EXCEPT ![t] = EarlyReturn]
  /\ UNCHANGED <<lock, pollVars, libVars, axisVars, jobVars, driveVars>>

\* ... or not, and what was selected before stays selected.
AttemptFails(t) ==
  /\ At(t, "attempt") /\ Own(t) \notin opened
  /\ todo' = [todo EXCEPT ![t] = Tail(Tail(@))]
  /\ UNCHANGED <<lock, pollVars, libVars, axisVars, jobVars, driveVars>>

\* configure() with the channel closed leaves the initialisation to poll().
InitDeferred(t) ==
  /\ At(t, "channel") /\ Own(t) \notin opened
  /\ needsReinit' = needsReinit \cup {drive[t]}
  /\ todo' = [todo EXCEPT ![t] = EarlyReturn]
  /\ UNCHANGED <<lock, pollVars, libVars, configured, jobVars, driveVars>>

\* TS_SetupAxis merges the whole setup into the channel's map.
SetupAxis(t) ==
  /\ At(t, "setup")
  /\ varMap' = [varMap EXCEPT ![activeCh] = Merge(@, SetupMap(drive[t]))]
  /\ Proceed(t)
  /\ UNCHANGED <<lock, pollVars, opened, activeCh, activeAxis, axisVars, jobVars, driveVars>>

SelectAxis(t) ==
  /\ At(t, "axis")
  /\ activeAxis' = [activeAxis EXCEPT ![activeCh] = AxisId[drive[t]]]
  /\ Proceed(t)
  /\ UNCHANGED <<lock, pollVars, opened, activeCh, varMap, axisVars, jobVars, driveVars>>

\* The drives that take the message: those on the active channel that have the
\* active axis's id.
Target == {d \in Drives : ControllerOf[d] = activeCh /\ AxisId[d] = activeAxis[activeCh]}

\* The settings of drive d a message writes: one by name goes to the address the
\* channel's map gives the name, whatever the drive has there.
Written(d, msg) ==
  IF msg \in ByName THEN {s \in ByName : Firmware[d][s] \in Address(varMap[activeCh], msg)}
  ELSE IF msg \in Modes THEN {"MODE"} ELSE {msg} \cap Settings

\* The settings in force in the drive's mode.
InForce(d) == IF mode[d] = "SP1" THEN {"CACC", "CSPD", "MODE"} ELSE Settings

\* The drives that execute a message take it over.
Execute(t, msg, at) ==
  /\ setBy' = [d \in Drives |-> [s \in Settings |->
       IF d \in at /\ s \in Written(d, msg) THEN number[t] ELSE setBy[d][s]]]
  /\ mode' = [d \in Drives |-> IF d \in at /\ msg \in Modes THEN msg ELSE mode[d]]

\* The messages whose failure ends the handler: TS_Move* "goto fail", without UPD!;
\* powerOn(); TS_DriveInitialisation, after which the axis stays to be initialised.
Decisive == MotionMessages \cup {"POWER", "ENDINIT"}

\* Mutant: the sequence goes on after a message that failed.
AfterFailure_GoesOn(t) == Tail(todo[t])

\* The other results are ignored.
AfterFailure(t) ==
  IF Pending(t) \in Decisive THEN EarlyReturn ELSE Tail(todo[t])

\* A name the map does not have is refused without a message.
Refused(t) ==
  Pending(t) = "ENABLE_OFF" /\ Address(varMap[activeCh], "ENABLE_OFF") = {}

\* The request succeeds, executed ...
Succeed(t) ==
  /\ ~Idle(t) /\ Pending(t) \in Messages /\ ~Refused(t)
  /\ Target # {}
  /\ Execute(t, Pending(t), Target)
  /\ Proceed(t)
  /\ needsReinit' = needsReinit \ (IF Pending(t) = "ENDINIT" THEN {drive[t]} ELSE {})
  /\ UNCHANGED <<lock, pollVars, libVars, configured, jobVars>>

\* ... or fails, executed or not.
Fail(t) ==
  /\ ~Idle(t) /\ Pending(t) \in Messages
  /\ \E at \in IF Refused(t) THEN {{}} ELSE {{}, Target} : Execute(t, Pending(t), at)
  /\ todo' = [todo EXCEPT ![t] = AfterFailure(t)]
  /\ needsReinit' = needsReinit \cup (IF Pending(t) = "ENDINIT" THEN {drive[t]} ELSE {})
  /\ UNCHANGED <<lock, pollVars, libVars, configured, jobVars>>

-----------------------------------------------------------------------------
Handlers ==
  \E d \in Drives :
    \/ Open(d) \/ Configure(d) \/ Cycle(d) \/ Poll(d) \/ PollNothing(d)
    \/ Move(d) \/ Jog(d) \/ Home(d) \/ Setting(d)

Step(t) ==
  \/ Lock(t) \/ Unlock(t)
  \/ OpenChannel(t) \/ LeaveChannel(t)
  \/ SelectChannel(t) \/ SelectFails(t) \/ AttemptFails(t) \/ InitDeferred(t)
  \/ SetupAxis(t) \/ SelectAxis(t)
  \/ Succeed(t) \/ Fail(t)

Next == Handlers \/ \E t \in Threads : Step(t)

Spec == Init /\ [][Next]_vars

-----------------------------------------------------------------------------
(* Properties *)

TypeOK ==
  /\ lock \in [Controllers -> Threads \cup {None}]
  /\ created \subseteq Controllers /\ cycle \in [Controllers -> SUBSET Drives]
  /\ opened \subseteq created /\ activeCh \in opened \cup {None}
  /\ activeAxis \in [Controllers -> {AxisId[d] : d \in Drives} \cup {None}]
  /\ configured \subseteq Drives /\ needsReinit \subseteq configured
  /\ todo \in [Threads -> Seq(Messages \cup Calls)]
  /\ drive \in [Threads -> Drives]
  /\ number \in [Threads -> 0..issued] /\ issued \in 0..MaxCommands
  /\ omitted \in [Threads -> MoveOmissions]
  /\ setBy \in [Drives -> [Settings -> 0..issued]]
  /\ mode \in [Drives -> Modes]

\* The header comment of drvTmlMotor.cpp: "The TML communication layer is NOT
\* thread-safe; every call is serialized through tmlLock_".  A message of a handler
\* goes to the drive of the handler's axis and to no other, whatever other handlers
\* have selected before it, between its locked parts, or meanwhile; on a closed channel
\* (stop() sends there too) it goes to none.
CallsReachOwnDrive ==
  \A t \in Threads : ~Idle(t) /\ Pending(t) \in Messages =>
    /\ Target \subseteq {drive[t]}
    /\ Own(t) \in opened => Target = {drive[t]}

\* UPD! puts a mode, a position, a speed or an acceleration of another command in force
\* only where the command gave zero, which the TS_Move* calls take for "leave it":
\* whichever messages failed, of this command or of earlier ones.
InheritsOnlyLeftOut ==
  \A t \in Threads : At(t, "UPD") =>
    \A d \in Target : \A s \in InForce(d) : setBy[d][s] = number[t] \/ s \in omitted[t]

\* What the setup file of an axis makes of a name.
OwnAddress(d, n) ==
  Address(IF n \in DOMAIN ZipVariables[d] THEN ZipVariables[d] ELSE Defaults, n)

\* TS_SetupAxis: "This overrides the default TML manual addresses with the correct
\* firmware-specific addresses from the .t.zip setup file."  A name is resolved as
\* the setup file of the axis in use says.
ResolvedFromOwnSetup ==
  \A t \in Threads :
    ~Idle(t) /\ Pending(t) \in ByName \cup {"ENABLE_OFF"} /\ Own(t) \in opened =>
      Address(varMap[activeCh], Pending(t)) = OwnAddress(drive[t], Pending(t))

=============================================================================
