------------------------------ MODULE TmlAxis ------------------------------
(***************************************************************************)
(* One initialised TmlAxis (technosoftSup/src/drvTmlMotor.cpp) and the     *)
(* drive it talks to: the motor record's commands, the poll, and the       *)
(* drive's own steps between any two messages.                             *)
(*                                                                         *)
(* Commands and polls hold the asyn port lock from beginning to end, so at *)
(* most one of them is in progress (pc, cmd); each of their TS_* calls is  *)
(* one step, between which the drive moves on.  A call is acknowledged,    *)
(* lost, or executed without the acknowledgement being seen, which the     *)
(* driver cannot tell from lost.                                           *)
(*                                                                         *)
(* The channel is open and the axis initialised, so selectAxis() succeeds  *)
(* and changes nothing (theorem SelectChannelNeverFails of                 *)
(* TmlController_proofs) and activated_ stays true.                        *)
(***************************************************************************)
EXTENDS Integers

CONSTANTS
  Length,      \* cells of track between the two limit switches
  UseLSP,      \* homingSwitch of TmlAxisConfig: TRUE for LSP
  Positions,   \* the values .SET writes
  MaxLosses,   \* bound: TS_* calls that lose a message
  MaxTrips     \* bound: times the drive drops its power stage by itself

ASSUME AxisAssumption ==
  /\ Length \in Nat \ {0}
  /\ UseLSP \in BOOLEAN
  /\ Positions \subseteq Int
  /\ MaxLosses \in Nat
  /\ MaxTrips \in Nat

Track == 0 .. Length
Switches == {"LSP", "LSN"}

VARIABLES
  \* The drive and the motor (external).
  pos,               \* the cell the motor is at
  zero,              \* the cell at which the position counter reads 0
  power,             \* power stage; SRL.AXIS_ON is "on"
  motion,            \* SRL.MC is set in "none" and, before the motor has begun
                     \* to move, still in "starting"
  goal,              \* the cell the motion is heading for; pos when there is none
  mask,              \* limit switch bits of MER_MASK: the armed events
  latch,             \* limit switch bits latched in MER
  \* TmlAxis.
  powered,           \* powered_
  homingActive,      \* homingActive_
  homingMoveSeen,    \* homingMoveSeen_
  homingTowardLSP,   \* homingTowardLSP_
  stopping,          \* stopping_
  \* Published parameters.
  done,              \* motorStatusDone_
  moving,            \* motorStatusMoving_
  homed,             \* motorStatusHomed_
  powerOnFailed,     \* tmlPowerOnFailed_
  active,            \* tmlActive_
  \* The handler in progress.
  pc, cmd, sample,
  \* Bounds and history.
  losses, trips,
  homeCut,           \* the power stage went down during the homing in progress
  stopped,           \* STOP was the last motion command
  cnenOff,           \* .CNEN=0 was accepted and nothing asked for power since
  atRest,            \* the motor stood still when forceHome() read its home limit
  clean,             \* the last disarming, and the starts and arming since, were
                     \* all acknowledged
  held               \* the last STOP0 was executed, and the starts and armings since
                     \* were all acknowledged

driveVars == <<pos, zero, power, motion, goal, mask, latch>>
flagVars == <<powered, homingActive, homingMoveSeen, homingTowardLSP, stopping>>
paramVars == <<done, moving, homed, powerOnFailed, active>>
ctlVars == <<pc, cmd, sample>>
boundVars == <<losses, trips>>
histVars == <<homeCut, stopped, cnenOff, atRest, clean, held>>
vars == <<driveVars, flagVars, paramVars, ctlVars, boundVars, histVars>>

Commands == [op : {"move", "jog", "home", "enable"}, goal : Track]
\* Outside a handler its local variables hold nothing.
NoCmd == [op |-> "enable", goal |-> 0]
NoSample == [mc |-> TRUE, on |-> FALSE, limits |-> {}]

Pcs == {"idle", "axisOn", "waitOn", "prepare", "start", "arm", "forceZero",
        "pollMer", "pollPublish", "pollZero"}
Samples == [mc : BOOLEAN, on : BOOLEAN, limits : SUBSET Switches]

TypeOK ==
  /\ pos \in Track /\ zero \in Int /\ goal \in Track
  /\ power \in {"off", "rising", "on"}
  /\ motion \in {"none", "starting", "running", "stopping"}
  /\ mask \in SUBSET Switches /\ latch \in SUBSET Switches
  /\ powered \in BOOLEAN
  /\ homingActive \in BOOLEAN /\ homingMoveSeen \in BOOLEAN /\ homingTowardLSP \in BOOLEAN
  /\ stopping \in BOOLEAN
  /\ done \in BOOLEAN /\ moving \in BOOLEAN /\ homed \in BOOLEAN
  /\ powerOnFailed \in BOOLEAN /\ active \in BOOLEAN
  /\ pc \in Pcs /\ cmd \in Commands /\ sample \in Samples
  /\ losses \in 0..MaxLosses /\ trips \in 0..MaxTrips
  /\ homeCut \in BOOLEAN /\ stopped \in BOOLEAN /\ cnenOff \in BOOLEAN
  /\ atRest \in BOOLEAN /\ clean \in BOOLEAN /\ held \in BOOLEAN

-----------------------------------------------------------------------------
(* What the drive shows *)

\* The limit switch inputs.
Live == {s \in Switches : \/ s = "LSP" /\ pos = Length
                          \/ s = "LSN" /\ pos = 0}

\* MER bits 6 and 7.
MER == Live \cup latch

\* SRL.MC and SRL.AXIS_ON.
MotionComplete == motion \in {"none", "starting"}
AxisOn == power = "on"

\* The switch at the end of the track in the direction of a cell.
Toward(cell) == IF cell > pos THEN {"LSP"} ELSE IF cell < pos THEN {"LSN"} ELSE {}

\* An armed limit switch event fires, whichever way the motor is going.
EventFires == mask \cap MER # {}

\* The firmware does not move towards an active limit.
Blocked == goal = pos \/ EventFires \/ Toward(goal) \cap MER # {}

Home(lsp) == IF lsp THEN Length ELSE 0

-----------------------------------------------------------------------------
(* TS_* calls: how they go, and what they do to the drive *)

Outcomes == {"acked"} \cup IF losses < MaxLosses THEN {"lost", "unacked"} ELSE {}
Count(o) == losses' = IF o = "acked" THEN losses ELSE losses + 1
Executed(o) == o # "lost"

\* The same for a write that a read goes before.
CountBoth(o, read) ==
  IF read THEN Count(o) ELSE losses < MaxLosses /\ losses' = losses + 1

\* How a start or an arming went.
Note(o) == clean' = (clean /\ o = "acked") /\ held' = (held /\ o = "acked")

\* TS_Power.
TS_PowerOn(o) ==
  power' = IF Executed(o) /\ power = "off" THEN "rising" ELSE power

\* The motion is over.
Halt == motion' = "none" /\ goal' = pos

PowerDown(off) ==
  /\ power' = IF off THEN "off" ELSE power
  /\ IF off THEN Halt ELSE UNCHANGED <<motion, goal>>
  /\ homeCut' = (homeCut \/ (off /\ homingActive))

\* TS_MoveAbsolute, TS_MoveRelative, TS_MoveVelocity with UPDATE_IMMEDIATE: only
\* the last message, UPD!, has an effect the drive shows, and none without power.
TS_Move(o, cell) ==
  IF Executed(o) /\ AxisOn
    THEN /\ goal' = cell
         /\ motion' = IF motion = "running" THEN "running" ELSE "starting"
    ELSE UNCHANGED <<goal, motion>>

\* TS_ABORT: STOP0.
TS_ABORT(o) ==
  IF ~Executed(o) THEN UNCHANGED <<motion, goal>>
  ELSE IF motion \in {"running", "stopping"}
    THEN motion' = "stopping" /\ UNCHANGED goal
    ELSE Halt

\* TS_SetPosition: SAP.
TS_SetPosition(o, p) == zero' = IF Executed(o) THEN pos - p ELSE zero

\* Mutant: the second switch's bit is another one.
TS_SetEventOnLimitSwitch_WrongBit(o, read, lsp) ==
  mask' = IF Executed(o) THEN mask \cup {IF lsp THEN "LSP" ELSE "HOME"} ELSE mask

\* TS_SetEventOnLimitSwitch: reads MER_MASK (0 when the read fails), adds the bit
\* and writes it back; only the write decides the result.
TS_SetEventOnLimitSwitch(o, read, lsp) ==
  mask' = IF Executed(o)
            THEN (IF read THEN mask ELSE {}) \cup {IF lsp THEN "LSP" ELSE "LSN"}
            ELSE mask

\* Mutant: MER is not cleared, only MER_MASK.
TS_ClearLimitSwitchEvent_MaskOnly(o) ==
  /\ mask' \in IF o = "acked" THEN {{}} ELSE {{}, mask}
  /\ UNCHANGED latch

\* TS_ClearLimitSwitchEvent: clears the bits in MER_MASK, then in MER; each part
\* is skipped when its read fails.
TS_ClearLimitSwitchEvent(o) ==
  /\ mask' \in IF o = "acked" THEN {{}} ELSE {{}, mask}
  /\ latch' \in IF o = "acked" THEN {{}} ELSE {{}, latch}

-----------------------------------------------------------------------------
(* Commands: move, moveVelocity, home, setClosedLoop(1) share one path *)

Init ==
  /\ pos \in Track /\ zero = pos /\ goal = pos
  /\ power = "off" /\ motion = "none" /\ mask = {} /\ latch = {}
  /\ powered = FALSE /\ stopping = FALSE
  /\ homingActive = FALSE /\ homingMoveSeen = FALSE /\ homingTowardLSP = FALSE
  /\ done = TRUE /\ moving = FALSE /\ homed = FALSE /\ powerOnFailed = FALSE
  /\ active = TRUE
  /\ pc = "idle" /\ cmd = NoCmd /\ sample = NoSample
  /\ losses = 0 /\ trips = 0
  /\ homeCut = FALSE /\ stopped = FALSE /\ cnenOff = FALSE /\ atRest = FALSE
  /\ clean = TRUE /\ held = TRUE

\* The handler goes on at p, or returns.
Goto(p) == pc' = p /\ cmd' = IF p = "idle" THEN NoCmd ELSE cmd

\* powerOn() returns at once when powered_ is set.
Begin(op, cell) ==
  /\ pc' = IF ~powered THEN "axisOn" ELSE IF op = "enable" THEN "idle" ELSE "prepare"
  /\ cmd' = IF pc' = "idle" THEN NoCmd ELSE [op |-> op, goal |-> cell]
  /\ cnenOff' = FALSE

\* move(): absolute or relative, to any counter value.
Move(cell) ==
  /\ pc = "idle" /\ Begin("move", cell)
  /\ UNCHANGED <<driveVars, flagVars, paramVars, sample, boundVars, homeCut, stopped, atRest,
                 clean, held>>

\* moveVelocity(): as far as the limit switch, unless stopped before.
Jog(cell) ==
  /\ pc = "idle" /\ cell \in {0, Length} /\ Begin("jog", cell)
  /\ UNCHANGED <<driveVars, flagVars, paramVars, sample, boundVars, homeCut, stopped, atRest,
                 clean, held>>

\* home(): towards LSP or LSN.
HomeCommand(lsp) ==
  /\ pc = "idle" /\ Begin("home", Home(lsp))
  /\ UNCHANGED <<driveVars, flagVars, paramVars, sample, boundVars, homeCut, stopped, atRest,
                 clean, held>>

\* setClosedLoop(true).
Enable ==
  /\ pc = "idle" /\ Begin("enable", 0)
  /\ UNCHANGED <<driveVars, flagVars, paramVars, sample, boundVars, homeCut, stopped, atRest,
                 clean, held>>

\* powerOn(): AXISON.
PowerOnSend ==
  /\ pc = "axisOn"
  /\ \E o \in Outcomes :
       /\ Count(o) /\ TS_PowerOn(o)
       /\ Goto(IF o = "acked" THEN "waitOn" ELSE "idle")
  /\ UNCHANGED <<pos, zero, motion, goal, mask, latch, flagVars, paramVars, sample,
                 trips, histVars>>

\* powerOn(): a read of SRL shows the power stage up.
PowerOnConfirmed ==
  /\ pc = "waitOn" /\ AxisOn
  /\ powered' = TRUE /\ powerOnFailed' = FALSE /\ active' = TRUE
  /\ Goto(IF cmd.op = "enable" THEN "idle" ELSE "prepare")
  /\ UNCHANGED <<driveVars, homingActive, homingMoveSeen, homingTowardLSP, stopping, done,
                 moving, homed, sample, boundVars, histVars>>

\* powerOn(): 50 reads of SRL in 5 s have not shown it, or have all failed.
PowerOnTimeout ==
  /\ pc = "waitOn"
  /\ IF AxisOn THEN losses < MaxLosses /\ losses' = losses + 1 ELSE losses' = losses
  /\ powerOnFailed' = TRUE
  /\ Goto("idle")
  /\ UNCHANGED <<driveVars, flagVars, done, moving, homed, active, sample, trips,
                 histVars>>

\* Mutant: a move does not end the hold of stop().
HoldAfterPrepare_Kept == stopping

\* home() leaves the hold of stop() in force until it has armed its event.
HoldAfterPrepare == stopping /\ cmd.op = "home"

\* move() and moveVelocity() end a homing and a stop; all three disarm the limit
\* switch event.
Prepare ==
  /\ pc = "prepare"
  /\ homingActive' = (homingActive /\ cmd.op = "home")
  /\ stopping' = HoldAfterPrepare
  /\ \E o \in Outcomes :
       Count(o) /\ TS_ClearLimitSwitchEvent(o) /\ clean' = (o = "acked")
  /\ pc' = "start"
  /\ UNCHANGED <<pos, zero, power, motion, goal, powered, homingMoveSeen, homingTowardLSP,
                 paramVars, cmd, sample, trips, homeCut, stopped, cnenOff, atRest, held>>

\* The motion is commanded; move() and moveVelocity() then report it.
Start ==
  /\ pc = "start"
  /\ \E o \in Outcomes :
       LET reported == o = "acked" /\ cmd.op # "home"
       IN  /\ Count(o) /\ Note(o) /\ TS_Move(o, cmd.goal)
           /\ Goto(IF o = "acked" /\ cmd.op = "home" THEN "arm" ELSE "idle")
           /\ done' = (done /\ ~reported)
           /\ moving' = (moving \/ reported)
  /\ stopped' = FALSE
  /\ UNCHANGED <<pos, zero, power, mask, latch, flagVars, homed, powerOnFailed, active,
                 sample, trips, homeCut, cnenOff, atRest>>

\* home(): arm the event; only then is the homing on record.
Arm ==
  /\ pc = "arm"
  /\ LET lsp == cmd.goal = Length
     IN  \E o \in Outcomes, read \in BOOLEAN :
           /\ CountBoth(o, read) /\ Note(o) /\ TS_SetEventOnLimitSwitch(o, read, lsp)
           /\ IF o = "acked"
                THEN /\ homingActive' = TRUE /\ homingMoveSeen' = FALSE
                     /\ homingTowardLSP' = lsp /\ stopping' = FALSE
                     /\ done' = FALSE /\ moving' = TRUE /\ homed' = FALSE
                     /\ homeCut' = FALSE
                ELSE UNCHANGED <<homingActive, homingMoveSeen, homingTowardLSP, stopping,
                                 done, moving, homed, homeCut>>
  /\ Goto("idle")
  /\ UNCHANGED <<pos, zero, power, motion, goal, latch, powered, powerOnFailed, active,
                 sample, trips, stopped, cnenOff, atRest>>

-----------------------------------------------------------------------------
(* The other commands *)

\* forceHome(): with the home limit active in MER, zero the position here;
\* otherwise a home move in the configured direction.
ForceHome ==
  /\ pc = "idle"
  /\ \E o \in Outcomes :
       /\ Count(o)
       /\ IF o = "acked" /\ (IF UseLSP THEN "LSP" ELSE "LSN") \in MER
            THEN pc' = "forceZero" /\ atRest' = (motion = "none") /\ UNCHANGED <<cmd, cnenOff>>
            ELSE Begin("home", Home(UseLSP)) /\ UNCHANGED atRest
  /\ UNCHANGED <<driveVars, flagVars, paramVars, sample, trips, homeCut, stopped, clean,
                 held>>

\* SAP 0 and the disarming, whose results are ignored, and the homed status.
ZeroHere ==
  /\ \E o \in Outcomes : /\ Count(o) /\ clean' = (o = "acked")
                         /\ TS_SetPosition(o, 0) /\ TS_ClearLimitSwitchEvent(o)
  /\ homingActive' = FALSE /\ homed' = TRUE
  /\ pc' = "idle" /\ atRest' = FALSE
  /\ UNCHANGED <<pos, power, motion, goal, powered, homingMoveSeen, homingTowardLSP, stopping,
                 done, moving, powerOnFailed, active, cmd, sample, trips, homeCut, stopped,
                 cnenOff, held>>

ForceZero == pc = "forceZero" /\ ZeroHere

\* Mutant: stop() leaves the event armed.
StopDisarm_Never(o) == UNCHANGED <<mask, latch>>

\* stop() disarms only what home() armed.
StopDisarm(o) ==
  IF homingActive THEN TS_ClearLimitSwitchEvent(o) ELSE UNCHANGED <<mask, latch>>

\* Mutant: MC is believed from the start.
StopHold_Off == FALSE

\* stop() holds the reported motion-complete until the drive confirms it.
StopHold == TRUE

\* stop(): reports the axis stopped, whatever became of STOP0.
Stop ==
  /\ pc = "idle"
  /\ \E o \in Outcomes :
       /\ Count(o) /\ TS_ABORT(o) /\ StopDisarm(o)
       /\ held' = Executed(o) /\ clean' = IF homingActive THEN o = "acked" ELSE clean
  /\ homingActive' = FALSE /\ stopping' = StopHold
  /\ done' = TRUE /\ moving' = FALSE
  /\ stopped' = TRUE
  /\ UNCHANGED <<pos, zero, power, powered, homingMoveSeen, homingTowardLSP, homed,
                 powerOnFailed, active, ctlVars, trips, homeCut, cnenOff, atRest>>

\* setPosition().
SetPosition(p) ==
  /\ pc = "idle"
  /\ \E o \in Outcomes : Count(o) /\ TS_SetPosition(o, p)
  /\ UNCHANGED <<pos, power, motion, goal, mask, latch, flagVars, paramVars, ctlVars, trips,
                 histVars>>

\* setClosedLoop(false): powerOff() does nothing unless powered_ is set, and
\* ignores the result of AXISOFF.
Disable ==
  /\ pc = "idle"
  /\ cnenOff' = TRUE
  /\ IF powered
       THEN /\ \E o \in Outcomes : Count(o) /\ PowerDown(Executed(o))
            /\ powered' = FALSE /\ powerOnFailed' = FALSE /\ active' = FALSE
       ELSE UNCHANGED <<losses, power, motion, goal, homeCut, powered, powerOnFailed, active>>
  /\ UNCHANGED <<pos, zero, mask, latch, homingActive, homingMoveSeen, homingTowardLSP,
                 stopping, done, moving, homed, ctlVars, trips, stopped, atRest, clean, held>>

\* writeInt32(TML_RESET_FAULT): MER := 0, and the power-on failure is forgotten.
ResetFault ==
  /\ pc = "idle"
  /\ \E o \in Outcomes : Count(o) /\ latch' = IF Executed(o) THEN {} ELSE latch
  /\ powerOnFailed' = FALSE
  /\ UNCHANGED <<pos, zero, power, motion, goal, mask, flagVars, done, moving, homed, active,
                 ctlVars, trips, histVars>>

\* writeInt32(TML_RESET_DRIVE): the drive restarts, its position at 0;
\* the driver's flags stay.
ResetDrive ==
  /\ pc = "idle"
  /\ \E o \in Outcomes :
       /\ Count(o) /\ PowerDown(Executed(o))
       /\ mask' = IF Executed(o) THEN {} ELSE mask
       /\ latch' = IF Executed(o) THEN {} ELSE latch
       /\ zero' = IF Executed(o) THEN pos ELSE zero
  /\ UNCHANGED <<pos, flagVars, paramVars, ctlVars, trips, stopped, cnenOff, atRest, clean,
                 held>>

-----------------------------------------------------------------------------
(* poll() *)

\* TPOS, APOS and SRL are read; without TPOS or SRL the poll ends here.
PollSrl ==
  /\ pc = "idle"
  /\ pc' = "pollMer"
  /\ sample' = [mc |-> MotionComplete, on |-> AxisOn, limits |-> {}]
  /\ UNCHANGED <<driveVars, flagVars, paramVars, cmd, boundVars, histVars>>

\* MER is read next; a failed read counts as no limit active.
PollMer ==
  /\ pc = "pollMer"
  /\ \E o \in Outcomes \ {"unacked"} :
       Count(o) /\ sample' = [sample EXCEPT !.limits = IF o = "acked" THEN MER ELSE {}]
  /\ pc' = "pollPublish"
  /\ UNCHANGED <<driveVars, flagVars, paramVars, cmd, trips, histVars>>

\* Mutant: the axis's power flag only ever follows the drive upwards.
PoweredAfterPoll_UpOnly == powered \/ sample.on

\* powered_ follows SRL.AXIS_ON.
PoweredAfterPoll == sample.on

\* stopping_ is dropped once the drive has confirmed MC.
HoldAfterPoll == stopping /\ ~sample.mc

\* Mutant: motion complete counts only with the power stage up.
ReportedDone_PoweredOnly == (sample.mc /\ sample.on) \/ stopping

\* Motion complete as the poll sees it.
ReportedDone == sample.mc \/ stopping

ReportedMoving == ~ReportedDone /\ sample.on

\* Mutant: a homing too quick for the poll to see it move is not recognised.
HomingComplete_NoFallback == homingActive /\ ReportedDone /\ homingMoveSeen

\* Homing ends at motion-complete, if the motor was seen moving or stands on
\* the target switch.
HomingComplete ==
  /\ homingActive /\ ReportedDone
  /\ \/ homingMoveSeen
     \/ (IF homingTowardLSP THEN "LSP" ELSE "LSN") \in sample.limits

\* The rest of the poll: flags and parameters.
PollPublish ==
  /\ pc = "pollPublish"
  /\ stopping' = HoldAfterPoll
  /\ done' = ReportedDone /\ moving' = ReportedMoving
  /\ homingMoveSeen' = (homingMoveSeen \/ (homingActive /\ ReportedMoving))
  /\ powered' = PoweredAfterPoll /\ active' = sample.on
  /\ pc' = IF HomingComplete THEN "pollZero" ELSE "idle"
  /\ sample' = NoSample
  /\ UNCHANGED <<driveVars, homingActive, homingTowardLSP, homed, powerOnFailed, cmd,
                 boundVars, histVars>>

\* The homing completion's second locked part.
PollZero == pc = "pollZero" /\ ZeroHere

-----------------------------------------------------------------------------
(* The drive *)

driverVars == <<flagVars, paramVars, ctlVars, losses, stopped, cnenOff, atRest, clean, held>>

\* The power stage comes up some time after AXISON, or never.
DriveRise ==
  /\ power = "rising" /\ power' = "on"
  /\ UNCHANGED <<pos, zero, motion, goal, mask, latch, driverVars, trips, homeCut>>

\* A commanded motion begins, unless something blocks it.
DriveStart ==
  /\ motion = "starting"
  /\ IF Blocked THEN Halt ELSE motion' = "running" /\ UNCHANGED goal
  /\ UNCHANGED <<pos, zero, power, mask, latch, driverVars, trips, homeCut>>

\* The motor moves by one cell.
DriveMove ==
  /\ motion = "running" /\ ~Blocked
  /\ pos' = IF goal > pos THEN pos + 1 ELSE pos - 1
  /\ latch' = latch \cup (mask \cap Live')
  /\ UNCHANGED <<zero, power, motion, goal, mask, driverVars, trips, homeCut>>

\* The motion is complete, or ended by a limit, or by STOP0.
DriveEnd ==
  /\ \/ motion = "running" /\ Blocked
     \/ motion = "stopping"
  /\ Halt
  /\ UNCHANGED <<pos, zero, power, mask, latch, driverVars, trips, homeCut>>

\* A protection or the Enable input drops the power stage.
DriveTrip ==
  /\ power # "off" /\ trips < MaxTrips
  /\ PowerDown(TRUE)
  /\ trips' = trips + 1
  /\ UNCHANGED <<pos, zero, mask, latch, driverVars>>

-----------------------------------------------------------------------------
CommandStep ==
  \/ \E cell \in Track : Move(cell)
  \/ \E cell \in Track : Jog(cell)
  \/ \E lsp \in BOOLEAN : HomeCommand(lsp)
  \/ Enable \/ Disable \/ Stop \/ ForceHome
  \/ \E p \in Positions : SetPosition(p)
  \/ ResetFault \/ ResetDrive

\* The handler in progress goes on.
HandlerStep ==
  \/ PowerOnSend \/ PowerOnConfirmed \/ PowerOnTimeout
  \/ Prepare \/ Start \/ Arm \/ ForceZero
  \/ PollMer \/ PollPublish \/ PollZero

MotionStep == DriveStart \/ DriveMove \/ DriveEnd

DriveStep == DriveRise \/ MotionStep \/ DriveTrip

Next == CommandStep \/ PollSrl \/ HandlerStep \/ DriveStep

\* A handler that has begun goes on, and the poller, which waits for the port
\* lock between commands, gets it again and again.  Nothing is assumed of the
\* drive or of the operator.
Fairness == WF_vars(HandlerStep) /\ SF_vars(PollSrl)

Spec == Init /\ [][Next]_vars /\ Fairness

-----------------------------------------------------------------------------
(* Properties *)

\* A limit switch event is armed only while a homing is on record (or a home()
\* is at work): it never stops a later move (stop(), move()), unless the message
\* that disarms it is lost.
EventDisarmed ==
  clean /\ pc = "idle" /\ ~homingActive => mask = {}

\* After STOP the axis never reports motion before a new motion command, however
\* long the drive takes to stop ("hold MOVN=0 until hardware confirms MC"), if STOP0
\* reached the drive, whatever was lost before.
StopHolds == stopped /\ held => ~moving

\* A homing that completes leaves the motor standing on the home switch with
\* position 0 there, unless its power stage went down on the way or one of its own
\* messages was lost.
HomesAtLimitUnlessCut ==
  [][PollZero /\ clean /\ clean' =>
       homeCut \/ (pos = Home(homingTowardLSP) /\ zero' = pos)]_vars

\* home(): "The poller detects motion-complete when the LS fires. Position is
\* set to 0 at the home position."
HomesAtLimit ==
  [][PollZero => pos = Home(homingTowardLSP)]_vars

\* forceHome() of a motor at rest zeroes the position at the home switch and
\* nowhere else: after a clean disarming no bit left in MER makes it take another
\* place for home.
ForcedHomeIsHome ==
  [][ForceZero /\ clean /\ clean' /\ atRest => pos = Home(UseLSP) /\ zero' = pos]_vars

\* The hold of a STOP0 that reached the drive never hides a motor that runs, but
\* for the moment between the start of a homing and its arming (poll(): "cleared
\* when hardware confirms MC").
HoldHidesNoMotion ==
  held /\ stopping /\ pc # "arm" => motion # "running"

\* powered_ and TML_ACTIVE ("1=axis initialized+powered, 0=inactive") come to
\* follow the power stage, whether it goes down or up, and after the initialisation.
PowerSync ==
  /\ (power = "off" /\ (powered \/ active)) ~> (power # "off" \/ (~powered /\ ~active))
  /\ (power = "on" /\ ~(powered /\ active)) ~> (power # "on" \/ (powered /\ active))

\* A motor that keeps running is reported moving, one that stands still is
\* reported done; only a lost message leaves the hold of stop() in the way: that
\* of a STOP0, or one while home() arms a motion it started after a stop().
MotionReported ==
  /\ (motion = "running" /\ ~moving) ~>
       (motion # "running" \/ moving \/ (stopping /\ ~held))
  /\ (motion = "none" /\ ~done) ~> (motion # "none" \/ done)

\* A homing whose motion the drive has taken up ends, if the drive goes on,
\* unless it is commanded anew, loses its power on the way, or lost a message.
HomingEnds ==
  WF_vars(MotionStep) =>
    (homingActive /\ motion = "running") ~>
      (~homingActive \/ cmd.op = "home" \/ homeCut \/ ~clean)

\* README, CNEN: "controls the drive's power stage (axis ON/OFF)"; motor.db,
\* POWERON_FAILED: "Cleared automatically on the next successful powerOn(), on
\* powerOff(), or by :CMD:RSTFAULT."  After an accepted CNEN=0 no failure to power
\* on stays reported, and the power stage does not come up by itself.
DisableIsEffective == cnenOff /\ losses = 0 => power # "on" /\ ~powerOnFailed

=============================================================================
