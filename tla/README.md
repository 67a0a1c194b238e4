# TLA+ models of the Technosoft TML motor driver

The repository is an EPICS motor driver (asyn, model 3) for Technosoft drives:
`technosoftSup/src/drvTmlMotor.cpp` is the driver proper, `tmlSerial.cpp` a
reimplementation of the vendor's TML library on a serial or TCP line. This
directory holds TLA+ models of both, TLC configurations for small instances, and
TLAPS proofs for every instance. Line numbers below are of the repository.

    tlc -workers 2 -config axis.cfg MC_TmlAxis      # model-check one configuration
    tlapm TmlController_proofs.tla                  # check the proofs

## 1. The system

| Component | State | Operations | Shares with |
|---|---|---|---|
| `TmlController` (`drvTmlMotor.cpp` 94-365) | `channelFd_`, `lastReconnect_`, `CONN_STATUS`, `tmlLock_` | constructor opens the channel; `ensureChannel()` reopens it, at most every 10 s; `poll()` | its axes; the registries of `tmlSerial.cpp` |
| `TmlAxis`, initialisation (370-745, 1176-1240) | `configured_`, `setupIdx_`, `needsReinit_`, `reinitCountdown_`, `reinitBackoff_` | `configure()`, `reinitAxis()`, `selectAxis()` with its three tiers, first part of `poll()` | `TmlController`, setup slots, active channel |
| `TmlAxis`, motion (300-365, 747-1480) | `powered_`, `homingActive_`, `homingMoveSeen_`, `homingTowardLSP_`, `stopping_`, the published parameters | `move`, `moveVelocity`, `home`, `forceHome`, `stop`, `setPosition`, `setClosedLoop`, `writeInt32`, rest of `poll()` | the drive, by `TS_*` calls |
| `TmlChannel` (`tmlSerial.cpp` 892-1270) | descriptor, receive buffer | `sendMessage`, `waitAck`, `receiveMessage`, `readData16/32`, `writeData16/32` | the line and all drives on it |
| `TS_*` interface (`tmlSerial.cpp` 1280-2145) | `g_channels`, `g_setups`, `g_activeCh`, `g_lastError`, the channel's variable map | open, select, set-up, motion, power, event, MER calls | every controller of the process |
| Frame codec | none | `serialiseMessage`, `deserialiseMessage`, `checksum`, fixed point 16.16 (805-890, 1276-1290) | `TmlChannel` |
| Zip and variable file reader | variable map | `zipExtractFile`, `loadFromZip` (157-410) | `TS_*` |
| Line set-up | termios, socket | `TmlChannel::open`, `configurePort`, `connectTcp` | operating system |
| Records (`Db/*.db`) | record fields | issue the commands above | asyn |
| Simulator, diagnostic scripts, IOC, screens | none that the driver shares | run by hand | the line |

Threads. The asynMotorController poller thread runs `TmlController::poll()` and
then every axis's `poll()` under the asyn port lock. Record writes take the port
lock too, so commands and poll cycles exclude each other. The iocsh thread runs
`TmlAxisConfig` without the port lock; it takes only `tmlLock_`, while the poller
is already running, and the poller reads some fields without `tmlLock_`.

What is hard here:

* `configure()` racing the poller; retries of an initialisation that must not
  reset a drive in motion nor use up the 16 setup slots (`TmlController`);
* a drive that moves on between any two messages: motion-complete is also what it
  shows before a motion and after a power cut; latched limit bits; events that
  outlive the homing that armed them; flags of the driver that must follow the
  drive (`TmlAxis`);
* acknowledgements that carry no address and no number, timeouts and a blind
  retry, late answers (`TmlChannel`);
* calls that name neither channel nor drive, made by two threads; a motion that
  takes seven messages, any of which may fail; one variable map for axes of
  different setups (`TmlLib`);
* answers to be found among the padding bytes of a serial bridge (`TmlFrame`).

What makes each component correct:

* `TmlController` and the initialisation: the controller's channel is the registered
  and active one; a slot belongs to one axis; an axis counts as initialised only when its
  drive has acknowledged an ENDINIT on the present channel, and executes none after
  that; opens are rate limited; after an outage every axis recovers. More the code does
  not give: an ENDINIT whose acknowledgement is lost is executed and sent again.
* `TmlAxis`: an event does not outlive its homing; a stopped axis stays reported
  stopped; homed means standing on the switch at 0; flags and reported motion
  follow the drive; a homing ends.
* `TmlChannel`: an answer is that of the request, or at worst an earlier one's; success
  means executed (on a line that is quiet at each new request); a retry executes at most twice; every operation returns.
* `TS_*` registries: a message reaches the drive of the axis that sends it, a name
  resolves to its own setup's address, a motion uses an earlier command's setting only
  where its own command left it out, as a zero speed or acceleration.
* Frame codec: what is serialised deserialises to itself, padding is skipped, a
  damaged answer is refused.

`PROJECT.json` lists the hazards, each at its line, with the properties that
cover it.

## 2. Modules

| Module | Models | Size of its instance |
|---|---|---|
| `TmlLifecycle` | abstract: what a controller promises of its connection and of the axes' initialisation | - |
| `TmlController` | connection, registries, initialisation, poller, iocsh thread | `MC_TmlController`, `controller*.cfg` |
| `TmlController_proofs` | theorems about it, and that it implements `TmlLifecycle` | any |
| `TmlAxis` | one initialised axis, its commands and poll, and the drive | `MC_TmlAxis`, `axis*.cfg` |
| `TmlAxis_proofs` | theorems about it | any |
| `TmlAxisHold_proofs` | the hold of `stop()` and the forced homing | any |
| `TmlRequest` | abstract: what one request to a drive promises | - |
| `TmlChannel` | request, acknowledgement, answer on the line | `MC_TmlChannel`, `channel*.cfg` |
| `TmlChannel_proofs` | theorems about it, and that it implements `TmlRequest` | any |
| `TmlLib` | the `TS_*` calls of several threads: lock, selection, variable map, message sequences | `MC_TmlLib`, `lib*.cfg` |
| `TmlLib_proofs`, `TmlLibMotion_proofs` | theorems about it | any |
| `TmlFrame` | the bytes of a message, and finding them in what arrives | `MC_TmlFrame`, `frame*.cfg` |
| `TmlFrame_proofs` | theorems about it | any |

The modules meet at narrow interfaces. `TmlAxis` assumes that `selectAxis()`
succeeds and changes nothing for an initialised axis on an open channel, which is
what `SelectChannelNeverFails` proves of `TmlController`. `TmlAxis` takes a `TS_*` call to be
acknowledged, lost, or executed with its acknowledgement unseen; `TmlLib` takes a
request to succeed executed, or to fail executed or not. These are the outcomes of
`TmlRequest`, which `TmlChannel` implements. `TmlChannel` takes a whole frame for
what it is and a damaged one for lost, which is what `TmlFrame` shows of the bytes.
`TmlLib` has channels that stay open and a setup loaded once per axis, the
properties of `TmlController`.

### TmlController

State: the fields named in the table, one variable each, with the code's names
without the trailing underscore. `age` stands for the time since `lastReconnect_`
in the only three classes the code distinguishes (under 3 s, under 10 s, at least
10 s). `g_setups` is a counter, since no slot is ever freed. `acked` and
`executed` are history variables: whether an axis's ENDINIT was acknowledged on the
present channel, and how many its drive has executed. TS_DriveInitialisation sends
ENDINIT up to six times (`MaxSends`: three attempts, two writes each), and any of them
may be executed with the ACK lost (`DriveInitialisation`). All drives are taken to be on
at the start; one that is off has gone off before the first step.

Steps: code between `tmlLock_.lock()` and `unlock()` is one step; what `poll()`
reads and publishes outside it are steps of their own (`ControllerPoll`,
`PollCheck`, `PollReinit`, `PollReinitDone`, `PollSelect`, `PollPublish`).
`configure()` is split inside its locked part as well (`ConfigureLock`,
`ConfigureInit`, `ConfigurePublish`), because the poller reads `configured_` and
`needsReinit_` without the lock. `Command` is any record write, which begins with
`selectAxis()`. The environment lets the peer go away and come back (`LinkDown`
breaks every open connection for good) and drives stop answering.

`TmlLifecycle` is the abstract specification: a connection that is closed, open, or
open with its peer gone (`dropped`); CONN_STATUS; and for each axis unconfigured,
pending or ready. The connection opens once and is never given up, not even when it has
dropped, after which CONN_STATUS still says OK; an axis becomes ready once, over a connection
whose peer is there; the open and every initialisation are retried, so that one that
stays possible happens. The refinement mapping (`Lifecycle` in `TmlController`) reads these from
`channelFd` and `broken`, `connOk`, and `configured` and `acked`.

### TmlAxis

Commands and polls hold the port lock from beginning to end, so one handler is in
progress at a time (`pc`, `cmd`, and `sample`, the poll's local readings). Each
group of `TS_*` calls whose intermediate states matter is one step; between the
steps the drive rises, starts, moves, ends or trips. `move()`, `moveVelocity()`,
`home()` and `setClosedLoop(1)` share the path `powerOn` - disarm - start - arm.

The drive is an external: a track of `Length` + 1 cells with a limit switch at each
end, a power stage that rises some time after AXISON or never, a motion that is
"starting" before SRL.MC goes down, limit switch events armed in MER_MASK and
latched in MER. It is taken from what the driver's comments say and what
`tools/tml_sim.py` does for AXISOFF, STOP and RESET. A blocked move ends at once, an armed event stops the
motion whichever way it goes.

### TmlChannel

One request at a time, as `tmlLock_` is held around each. Frames are records; an
acknowledgement is the single byte 0x4F and carries neither sender nor number. A
TakeData frame may contain 0x4F, which `waitAck()` takes for the acknowledgement and
leaves the rest as a fragment; the following `receiveMessage()` may skip it, or
take one of its bytes for a length and swallow what follows (`Misframe`). Every
timeout may pass at any moment: `waitAck()` and `receiveMessage()` use the wall
clock. Assumed: what a drive or bridge sends without being asked ("notice")
contains no byte 0x4F; with one, `SentIsExecuted` would not hold, as the code has
no means to tell. A write may fail, on the first try or the retry. `resync()`, which
nothing calls, is left out. The drain in front of a write takes 64 bytes at most
(`DrainBytes`); `ChannelAssumption` bounds what is under way to that, so that one drain
empties the buffer, and a line on which more notices pile up is outside the model.

`TmlRequest` is the abstract specification: one request at a time is pending, is
executed up to twice, and succeeds or fails. The refinement mapping (`Abstract` in
`TmlChannel`) takes `pc # "idle"` for pending and the count of the current request
for executed. It holds on a quiet line only; with `Overlap` the run
`channel_overlap` refutes its central clause. What is left with late answers is proved,
and not part of any run: `AnswerIsADrives`, a value that is read was some drive's answer
to a read of that width.

### TmlLib

A handler of the driver is the sequence of the calls and messages it still has to
make (`todo`), and each is a step: `lock`, `open` (`ensureChannel()` and the
constructor), `select` and `attempt` (`selectAxis()`, with its result heeded or
ignored), `channel` (TS_SelectChannel before an initialisation), `setup` (TS_SetupAxis),
`axis` (TS_SelectAxis), a message, `unlock`. The port thread of a controller runs its
commands between its poll cycles (`Cycle`, then one `Poll` per axis, `cycle` being the
axes still to come); the iocsh thread makes the controllers and configures the axes
meanwhile.

A channel may fail to open in the constructor and open in any later cycle, after
which every configured axis initialises again. While it is closed `selectAxis()`
fails: most handlers then return (`SelectFails`, `EarlyReturn`), `stop()` and the end of
a homing go on with what was selected before (`AttemptFails`), and `configure()` leaves
the initialisation to the polls (`InitDeferred`). A message goes to the drives that
have the selected axis id on the active channel (`Target`), whosever handler sends it. A
failed message ends the handler by its early return, where the code has `goto fail` or
returns, or is ignored, where the code ignores it (`AfterFailure`).

The registers of a drive carry the number of the command that wrote them last
(`setBy`); UPD! puts in force those its mode uses (`InForce`). A move or jog with speed
or acceleration zero does not write it (`omitted`, `MoveMessages`, `JogMessages`), and
leaves in force what the drive has. The status reads of `poll()` are represented by the
one named variable that only a setup file has, ENABLE_OFF. `g_lastError`, text only, is
left out.

### TmlFrame

One read after the other, byte by byte: the ACK, then the answer's frame, with
padding before each; the frame whole, with one byte changed, or cut off. The
drain before a request empties the line, so that nothing of an earlier answer
remains; `TmlChannel` has that case. `Checksum` is a recursive function, since a
RECURSIVE operator would keep the provers out. A changed length byte is not
modelled: nothing but the sum of the wrong bytes would tell, one time in 256.

## 3. Runs

| Run | Shows | Distinct states |
|---|---|---|
| `controller` | the registry holds exactly the controller's channel and it is active; every setup slot belongs to one axis; an axis used as initialised is, and its drive executes no ENDINIT after one it has acknowledged, with ACKs lost; open attempts are 10 s apart; when the outages are over every configured axis ends up initialised with no comms error; a broken connection stays visible as a comms error; all this implements `TmlLifecycle`, liveness included | 272,000 |
| `axis` | with a message lost anywhere: no event outlives its homing; after STOP no motion is reported, and no later motion is hidden; a homing that completes without a power cut, or is forced at rest, stands on its switch with position 0, whatever was lost before its own messages | 5,452,000 |
| `axis_live` | with a lost message or acknowledgement anywhere, the power flag, TML_ACTIVE and the reported motion converge to the drive's; a homing the drive has taken up ends, also when no poll saw it move | 684,000 |
| `channel` | with a quiet line at each write, whatever times out, a read returns its own register, a send that succeeds was executed, nothing is executed more than twice, every operation returns; the protocol implements `TmlRequest`, liveness included | 744,000 |
| `lib` | with a channel that may open late, every message reaches its own axis's drive, or none while the channel is closed; names mean what the setup file says; a motion uses an earlier command's setting only where its own gave zero | 2,682,000 |
| `frame` | a read gets the answer behind any nulls and CRs, and nothing of a damaged one | 76,000 |
| `controller_drop`, `axis_homes`, `axis_cnen`, `channel_overlap`, `lib_setups`, `frame_lf` | the findings of section 5, each as a counterexample | |

Bounds, and why they are enough:

* `NumAxes` = 2: everything an axis shares with others is a slot number, the
  active channel and the place in the cycle; a second axis shows every
  interference. The proofs cover any number.
* `Fds`: two descriptors, so that a leaked one would be seen; `MaxSetups` = 2, one per
  axis, so that any leaked slot makes a set-up fail. The lowest free one is taken,
  as the operating system does. `controller_drop` needs one axis.
* `MaxBackoff` = 3: 1, 2, then clamped from 4 to 3, so that the clamp is used; the
  code has 30.
* `MaxLinkLosses`, `MaxDriveLosses` = 1: one outage of each kind, at any moment,
  overlapping in any way. `MaxAckLosses` = 1: one ENDINIT executed unseen, after which
  another is sent in the same call or by a later poll.
* `Length` = 2 in `axis`: both limits and a cell between them where neither is
  active; 1 in the other runs, where the place in the middle is not needed.
  `UseLSP` = FALSE: the track is symmetric. `Positions` = {1}: one value that is not
  the home position; none in the runs that do not look at the position.
* `MaxLosses` = 1: one loss in every possible place. The driver
  ignores the results of the disarming, of STOP0 and of SAP, so that what depends on one is
  stated of the time after it got through, and not of behaviours without losses: two
  history variables tell whether the last disarming, or the last STOP0, and the starts and
  armings since did (`clean`, `held`). What was lost before
  does no harm to a later command whose messages get through. `DisableIsEffective` alone is of behaviours without a
  loss. `MaxTrips` = 1: a protection at any moment, once; the operator's
  CNEN=0 and RESET cut the power any number of times.
* `Drives` = {1, 2}, one register, all three kinds of request, `MaxRequests` = 3,
  `MaxLosses` = 1, `MaxBuffered` = 3 (4 in `channel_overlap`), under the 4 items of 16 bytes one drain takes: the answer to a request can collide with
  the next one and with the retry of either. `AtMostTwice` holds with late
  answers too (`Overlap`), which its proof covers.
* `lib`: one controller, two axes with ids 1 and 2 and the same setup file, two motion
  commands, so that the second of any kind follows the first of any kind, failed at
  any message, on the same drive or the other, with any setting left out; addresses as in the files of
  `tml_lib/config`. `lib_setups` has two files of that directory, of which one lacks
  ENABLE_OFF.
* `frame`: the shortest and the longest message, and a TakeData16 with an ACK and a
  length in its data; up to two padding bytes in each of two places; a changed byte
  reads 0x00, 0x04, 0x4F or 0xFF. `frame_lf` adds LF to the padding.

`channel.cfg` and `channel_overlap.cfg` say CHECK_DEADLOCK FALSE: with `MaxRequests`
used up and the line empty the model ends. Nothing else stops.

Fairness:

* `TmlController`: the poller thread runs for ever, a `configure()` that started
  finishes, time passes; and outages end, which is an assumption about the
  world made for `Recovers` and for the liveness of `TmlLifecycle` (without it there is nothing to
  recover to). No command and no outage is assumed to
  happen.
* `TmlAxis`: a handler goes on, and the poller gets the port lock again and again
  (strong fairness, as commands may hold it at any moment). Nothing is assumed of
  the operator or of the drive; `HomingEnds` assumes in its own statement that the drive
  goes on moving.
* `TmlChannel`: the host writes, reads what has arrived, and its timeouts pass. Nothing
  is assumed of the line and the drives; this alone implements the fairness of
  `TmlRequest`, that every request ends.
* `TmlLib`, `TmlFrame`: none, their properties are safety.

## 4. Proofs

`TmlController_proofs` proves, for any number of axes, descriptors and slots and
any backoff cap (`ConstantsAssumption`):

| Theorem | Says |
|---|---|
| `TypeCorrect` | `TypeOK` |
| `SelectChannelNeverFails` | `ChannelRegistered`: Tiers 2 and 3 of `selectAxis()` are unreachable |
| `NoSetupLeak` | `SetupSlotsOwned` |
| `ReadyMeansInitialised` | `ReadyIsInitialised` |
| `NoRepeatAfterAck` | `NoInitAfterAck`, an action property |
| `RateLimited` | `OpenRateLimited`, an action property |
| `LifecycleRefinement` | every step is one of `TmlLifecycle` or a stutter |

The properties are not inductive by themselves. `IndInv` adds: without a channel
no axis has a slot or an ENDINIT (`ClosedIsFresh`), nor has an axis not yet
configured (`UnconfiguredIsFresh`); `needsReinit` is FALSE exactly when the
drive's ENDINIT was acknowledged, but for the moments between the two
locked parts of `poll()` and inside `configure()` (`FlagTellsInit`); and what the
poller's place implies about the axis it is at, in particular that it is at
"reinit" only for an axis `configure()` has left (`PollerPlace`). `NoRepeatAfterAck` follows:
ENDINIT is sent only for an axis with `needsReinit` or in `configure()`, and there the
invariant says that none was acknowledged. The key
lemma is `SelectAxisIsPure`: with the channel registered, `selectAxis()` fails at
once or succeeds in Tier 1, and changes nothing. Each action then has a lemma
of its own (`ControllerPollKeeps` ... `EnvironmentKeeps`), `NextKeeps` collects
them, and `Invariance` adds the temporal step.

The refinement rests on `IndInv` and on `ConnInv`: `CONN_STATUS` is OK exactly while there is a
channel, and only the open channel can have lost its peer, so that a channel that is
opened is a live one. `ControllerPollOpens`, `PollReinitInitialises` and `ConfigureInitInitialises`
say what the three steps that matter change; `SilentSteps` says that the others change
nothing `TmlLifecycle` sees. That an axis becomes ready only once is `FlagTellsInit`.

`TmlAxis_proofs` proves, for any track, home switch, number of lost messages and
power cuts (`AxisAssumption`):

| Theorem | Says |
|---|---|
| `TypeCorrect` | `TypeOK`; the motor never leaves the track |
| `NoEventLeftArmed` | `EventDisarmed` |
| `StopIsHeld` | `StopHolds` |
| `HomingIsSound` | `HomesAtLimitUnlessCut`, an action property |

Its `IndInv` says where the motor can be at each place of a handler.
`StopInv`: after a STOP0 that arrived, the drive is stopping or stopped, and the
hold is kept until a poll has sampled it stopped. `HomingInv`: while a homing is
undisturbed (`clean`, power uncut) exactly its own event is armed, any motion
heads for its switch, and once the poll has seen it move the motor is still running
or has arrived. `PollInv` carries this over from what the poll sampled to what it
publishes a few steps later, between which the drive moves on. `BlockedAtHome` and
`SwitchTellsPlace` are the two facts about the drive the homing rests on: an
undisturbed homing is blocked only at its switch, and its switch shows in MER only
there. `MotionNeedsPower` covers the power cut between the start of the motion and
the arming, which leaves a homing that never moves and so never completes.

What was lost before the last disarming or STOP0 does not matter: `Prepare`, `ZeroHere` and
`Stop` establish the parts of the invariant they stand for, whatever held before.

`TmlAxisHold_proofs` adds `HoldIsHonest` (`HoldHidesNoMotion`) and `ForcedHomeIsSound`
(`ForcedHomeIsHome`, an action property), from an invariant of three parts: after a
clean disarming an active switch in MER is one the motor stands on
(`LatchTellsPlace`); between the two locked parts of `forceHome()` a motor that was at
rest stays at the home switch (`ForcePlace`); and the hold of a STOP0 that arrived is in
force only while no motion has been started since (`HoldInv`).

`TmlChannel_proofs` proves, for any drives, registers and bounds (`ChannelAssumption`):

| Theorem | Says | Needs |
|---|---|---|
| `TypeCorrect` | `TypeOK` | |
| `TwiceAtMost` | `AtMostTwice` | |
| `AnswersAreADrives` | `AnswerIsADrives` | |
| `AnswersAreOwn` | `ReadIsOfRequest` | quiet line (`Overlap` = FALSE) |
| `SuccessIsExecuted` | `SentIsExecuted` | quiet line |
| `Refinement` | every step is one of `TmlRequest` or a stutter | quiet line |

On any line: the executions of a message and its copies still under way are no more
than the times it was written (`RetryBudget`), which counts the copies in the drives'
queues with `Cardinality` (`HeadUnexecuted`, `AppendUnexecuted`: an injection of what is left
into what was there); and whatever is on the line or in the buffer and looks like an answer is
one, of a request that was executed (`LineIsGenuine`). On a quiet line moreover: what is on the line
or in the buffer is of the current request or is a notice (`LineIsCurrent`), since a new
request is only written to a quiet line and drains what is left; and an acknowledgement or
answer in existence tells that the request was executed (`PlaceTells`).

`TmlLib_proofs` and `TmlLibMotion_proofs`:

| Theorem | Says | Needs |
|---|---|---|
| `TypeCorrect` | `TypeOK` | |
| `CallsReach` | `CallsReachOwnDrive` | one controller, distinct axis ids |
| `NamesResolved` | `ResolvedFromOwnSetup` | one controller, one setup file |
| `OnlyLeftOut` | `InheritsOnlyLeftOut` | all of these, and a setup file that has the drives' addresses |

The steps a handler has left follow each other in one of a few ways (`Follows`), which
every handler has and every tail keeps (`Chain`). So the next step tells whether the
lock is held (`LockInv`: a thread holds its controller's lock exactly from its `lock` to
its `unlock`, for any number of controllers), and with one lock for all threads what has
been selected stays selected until the message is sent (`SelectedInv`). On a closed
channel nothing has ever been selected, so that the messages `stop()` sends reach none.

For `NamesResolved` the hard part is the start: between the opening of the channel and
the first merged setup the map has the built-in addresses only. `StartInv` says in which
order the start-up script and the cycles proceed (theorem `StartsInOrder`): the channel
is tried before any axis is configured, and in a cycle before the axes are polled, and
no handler but these opens it. So on an open channel either some setup has been merged,
which is every axis's own (`Merged`), or (`Early`) every configured axis still waits
for the poll of the running cycle that initialises it, and the next message has a merge
in front of it.

For `OnlyLeftOut` the plan of a handler has in front of its UPD! every setting the UPD!
puts in force except those the command left out, and those already taken off the
plan have been written by this command (`PlanInv`); a message that fails takes the UPD!
with it. The assumptions are those of the repository's start-up scripts, one
controller and one setup file per IOC; finding 5 is what happens without one
setup file.

`TmlFrame_proofs` proves, for any messages of up to four data words, padding and changed bytes
(`FrameAssumption`):

| Theorem | Says | Needs |
|---|---|---|
| `RoundTrip` | a message taken out of its frame is the message | |
| `ChangedByteIsDetected` | a frame with a byte after its length changed is refused, whichever the byte and its new value | |
| `TypeCorrect` | `TypeOK` | |
| `PaddingSkipped` | `PaddingIsSkipped` | no padding byte could be a length |
| `DamagedRefused` | `DamagedIsRefused` | the same |

A checksum is a recursive function of the bytes, and the library's induction theorems cannot be
instantiated. `NatSetInduction` states induction of a set instead of a predicate, and is
proved from the pigeonhole principle for finite sets (`FS_Injection`); `SumsExist` builds the function
of the partial sums with it, and `OneByteShifts` shows that a changed byte shifts the sum by the
difference, which is not a multiple of 256. `ReadInv`: what is left of an answer on the wire is padding, with the
ACK still in it before `waitAck()` is done, and the frame, whole or spoilt (`Ahead`), and the result
of the last read is what became of its answer. The assumption on the padding
(`PaddingIsNoLength`) holds of nulls and CRs and is false of LF, which is finding 6.

Every safety invariant and action property that a passing run checks is proved, and
`AnswerIsADrives` besides. Only
model-checked are the liveness properties, which are out of the prover's reach:
`Recovers`, `DropSurfaces`, `PowerSync`, `MotionReported`, `HomingEnds`, `Returns`, and the fairness of
`TmlRequest` and `TmlLifecycle` in `ImplementsRequest` and `ImplementsLifecycle`, whose safety parts are
the two refinement theorems. That the counterexamples of section 5 exist is shown
by their runs.

## 5. Where the code and its documentation disagree

1. `DropDetected` (`drvTmlMotor.cpp` 638-643): Tier 1 of `selectAxis()` looks the descriptor up
   and never tests the connection. A channel that drops after the open is
   never closed, so `CONN_STATUS` stays OK and nothing reopens it; README 483-485
   says otherwise. What does hold is `DropSurfaces`: the axes show a comms error.
2. `HomesAtLimit` (1452): a homing counts as complete at any motion-complete after the
   motor was seen moving, also when the power stage went down on the way; homed=1 and
   position 0 are then published away from the switch. `HomesAtLimitUnlessCut`
   holds.
3. `DisableIsEffective` (787): `powerOff()` returns early when `powered_` is FALSE, which it
   is after a power-on timeout with AXISON still in force. CNEN=0 then sends no
   AXISOFF, so that the power stage may still come up (README 364), and leaves
   POWERON_FAILED set, which `motor.db` 237-238 says it clears.
4. `ReadIsOfRequest` under `Overlap` (`tmlSerial.cpp` 1216): a late answer is taken for the next
   request's, as neither sender nor address echo is compared; the comment at
   979-982 says the drain prevents this.
5. `ResolvedFromOwnSetup` with two setup files (`tmlSerial.cpp` 1420): the merge goes into the
   one map of the channel, so that names are resolved in the file of the axis set up
   last; the comments there and at `drvTmlMotor.cpp` 1273-1277 speak of the axis's own
   file. With axes of one kind of drive, as in the start-up scripts, it does not show.
6. `PaddingIsSkipped` with LF (`tmlSerial.cpp` 1052): LF is 10 and so in 4..12; the comment at
   1028-1031 names LF as junk outside that range. The answer behind it is lost, and
   the read fails.

Not a finding, since no document speaks of it and no start-up script has it: with two
controllers in a process `CallsReachOwnDrive` does not hold, as they share `g_activeCh` but
not `tmlLock_` (`tmlSerial.cpp` 73). `CallsReach` names the assumption.

## 6. Not modelled

* the parsing of zip and variable files (its result is a constant of `TmlLib`), serial
  and TCP set-up (an open succeeds or fails, which is a choice of the environment),
  `report()`, logging, iocsh registration, destructors: I/O with no state the
  properties see;
* the counter-clearing commands and the diagnostic registers of `writeInt32` and
  `poll()`: values passed through;
* the 16.16 conversion of speeds and accelerations: real numbers, which TLC does not have;
* the poll count and the direction, on which nothing in the driver depends;
* what a drive does with the address of another firmware (a write under a wrong
  address goes to a register `TmlLib` does not have);
* `g_lastError` and the slots of `g_setups` raced by two controllers;
* the SCR and MER_MASK writes after ENDINIT in `TmlController`: their failure changes
  nothing there (`TmlLib` has them as messages);
* the simulator, scripts, screens, build, database records: not the driver. The
  motor record itself is part of EPICS; its commands are inputs.

## 7. Plan

In place, in the order they were built: `TmlController` and its proofs, `TmlAxis`,
`TmlChannel`, `TmlAxis_proofs`; `TmlRequest` and the refinement, `TmlChannel_proofs`,
`TmlAxisHold_proofs`, `TmlLib` with `TmlLib_proofs` and `TmlLibMotion_proofs`, `TmlFrame` with
`TmlFrame_proofs`; `TmlLifecycle` and its refinement, the retry budget and genuine answers of
`TmlChannel` on any line, the checksum of `TmlFrame`.

Left, in this order:

1. An abstract axis (idle, moving, homing, homed, unpowered) and `TmlAxis` as an
   implementation of it.
2. What the retry of a lost acknowledgement does to UPD! of a relative move, and so to
   the position: the count of executions of `TmlRequest` inside `TmlAxis`.
3. A repaired `TmlController` that closes a dropped channel, to check that Tiers 2 and 3
   of `selectAxis()` recover as their comments say.
