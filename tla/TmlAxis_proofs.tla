--------------------------- MODULE TmlAxis_proofs ---------------------------
(***************************************************************************)
(* Safety of TmlAxis for every length of track, home switch, and number of *)
(* lost messages and power cuts: that no limit switch event outlives its   *)
(* homing, that a stopped axis stays reported stopped, and that a homing   *)
(* that completes with its power uncut ends on its switch.                 *)
(***************************************************************************)
EXTENDS TmlAxis, TLAPS

Switch(lsp) == IF lsp THEN "LSP" ELSE "LSN"

\* The switch and the cell the homing on record heads for.
HomeSwitch == Switch(homingTowardLSP)
HomeCell == Home(homingTowardLSP)

\* Only a drive with its power stage up has a motion.
MotionNeedsPower == power # "on" => motion = "none"

\* stop() ends a homing, and home() a stop.
HomingNotStopping == homingActive => ~stopping

\* After a clean disarming an event is armed only by the homing on record ...
EventOwned == clean /\ ~homingActive => mask = {}

\* ... and none between the disarming and the arming of a motion command.
DisarmedForMotion ==
  clean /\ pc \in {"start", "arm"} => mask = {} /\ latch = {}

\* home() heads for an end of the track, and is about to arm the event for the
\* motion it has commanded.  move() and moveVelocity() have ended any homing.
HomeCommandPlace ==
  /\ cmd.op = "home" => cmd.goal \in {0, Length}
  /\ pc = "arm" => /\ cmd.op = "home" /\ ~stopped
                   /\ motion # "stopping"
                   /\ motion # "none" => goal = cmd.goal
  /\ pc = "start" /\ homingActive => cmd.op = "home"

\* After a STOP0 that was executed the drive is stopping or has stopped; the
\* reported motion-complete is held until a poll has seen it stopped, or until a
\* new motion is about to be commanded.
StopInv ==
  stopped /\ held =>
    /\ ~moving
    /\ motion \in {"none", "stopping"}
    /\ stopping \/ motion = "none" \/ pc = "start"
    /\ pc \in {"pollMer", "pollPublish"} =>
         IF sample.mc THEN motion = "none" ELSE stopping

\* A homing on record that has lost neither a message of its own nor its power.
Undisturbed == clean /\ homingActive /\ ~homeCut

\* Its motion heads for the switch, its event is armed, and once seen moving the
\* motor is still running or has arrived.
HomingInv ==
  Undisturbed /\ pc \notin {"start", "arm"} =>
    /\ mask = {HomeSwitch}
    /\ HomeSwitch \in latch => pos = HomeCell
    /\ motion # "stopping"
    /\ motion # "none" => goal = HomeCell
    /\ homingMoveSeen => motion = "running" \/ pos = HomeCell

\* What the poll in progress has read of it.
PollInv ==
  /\ Undisturbed /\ pc \in {"pollMer", "pollPublish"} =>
       /\ sample.mc /\ homingMoveSeen => pos = HomeCell
       /\ ~sample.mc => motion = "running" \/ pos = HomeCell
       /\ HomeSwitch \in sample.limits => pos = HomeCell
  /\ pc = "pollZero" => homingActive
  /\ pc = "pollZero" /\ Undisturbed => pos = HomeCell

IndInv ==
  /\ TypeOK
  /\ MotionNeedsPower
  /\ HomingNotStopping
  /\ EventOwned
  /\ DisarmedForMotion
  /\ HomeCommandPlace
  /\ StopInv
  /\ HomingInv
  /\ PollInv

-----------------------------------------------------------------------------
LEMMA InitEstablishes == Init => IndInv
<1> SUFFICES ASSUME Init
             PROVE  IndInv
  OBVIOUS
<1>1. TypeOK
  <2>1. /\ powered \in BOOLEAN /\ stopping \in BOOLEAN /\ homingActive \in BOOLEAN
        /\ homingMoveSeen \in BOOLEAN /\ homingTowardLSP \in BOOLEAN
        /\ done \in BOOLEAN /\ moving \in BOOLEAN /\ homed \in BOOLEAN
        /\ powerOnFailed \in BOOLEAN /\ homeCut \in BOOLEAN /\ stopped \in BOOLEAN
        /\ cnenOff \in BOOLEAN /\ active \in BOOLEAN /\ atRest \in BOOLEAN
        /\ clean \in BOOLEAN /\ held \in BOOLEAN
    BY DEF Init
  <2>2. cmd \in Commands /\ sample \in Samples /\ pc \in Pcs
    BY AxisAssumption DEF Init, Commands, Samples, NoCmd, NoSample, Track, Pcs
  <2> QED BY <2>1, <2>2, AxisAssumption DEF Init, TypeOK, Track
<1>2. MotionNeedsPower /\ HomingNotStopping /\ EventOwned /\ DisarmedForMotion
  BY DEF Init, MotionNeedsPower, HomingNotStopping, EventOwned, DisarmedForMotion
<1>3. HomeCommandPlace /\ StopInv
  BY DEF Init, HomeCommandPlace, StopInv, NoCmd
<1>4. HomingInv /\ PollInv
  BY DEF Init, HomingInv, PollInv, Undisturbed
<1> QED BY <1>1, <1>2, <1>3, <1>4 DEF IndInv

\* A call that is acknowledged was executed; the losses stay within their bound.
LEMMA CallCounts ==
  ASSUME TypeOK, NEW o \in Outcomes, Count(o)
  PROVE  /\ losses' \in 0..MaxLosses
         /\ o = "acked" => Executed(o)
         /\ Executed(o) \in BOOLEAN /\ (o = "acked") \in BOOLEAN
BY AxisAssumption DEF TypeOK, Outcomes, Count, Executed

\* Disarming leaves subsets of what was armed and latched, and nothing when
\* it is acknowledged.
LEMMA ClearedEvents ==
  ASSUME TypeOK, NEW o, TS_ClearLimitSwitchEvent(o)
  PROVE  /\ mask' \in SUBSET Switches /\ latch' \in SUBSET Switches
         /\ mask' \in {{}, mask} /\ latch' \in {{}, latch}
         /\ o = "acked" => mask' = {} /\ latch' = {}
BY DEF TypeOK, TS_ClearLimitSwitchEvent

-----------------------------------------------------------------------------
\* Beginning a command.
LEMMA BeginKeeps ==
  ASSUME IndInv, pc = "idle",
         NEW op \in {"move", "jog", "home", "enable"}, NEW cell \in Track,
         op = "home" => cell \in {0, Length},
         Begin(op, cell), losses' \in 0..MaxLosses,
         UNCHANGED <<atRest, clean, held>>,
         UNCHANGED <<driveVars, flagVars, paramVars, sample, trips, homeCut, stopped>>
  PROVE  IndInv'
<1> USE AxisAssumption DEF IndInv, driveVars, flagVars, paramVars
<1>1. pc' \in {"idle", "axisOn", "prepare"} /\ cnenOff' = FALSE
  BY DEF Begin
<1>2. cmd' \in Commands /\ (cmd'.op = "home" => cmd'.goal \in {0, Length})
  BY DEF Begin, Commands, NoCmd, Track
<1>3. TypeOK'
  <2>1. pc' \in Pcs /\ cnenOff' \in BOOLEAN
    BY <1>1 DEF Pcs
  <2> QED BY <2>1, <1>2 DEF TypeOK
<1>4. MotionNeedsPower' /\ HomingNotStopping' /\ EventOwned' /\ DisarmedForMotion'
  BY <1>1 DEF MotionNeedsPower, HomingNotStopping, EventOwned, DisarmedForMotion
<1>5. HomeCommandPlace'
  BY <1>1, <1>2 DEF HomeCommandPlace
<1>6. StopInv'
  BY <1>1 DEF StopInv
<1>7. HomingInv' /\ PollInv'
  BY <1>1 DEF HomingInv, PollInv, Undisturbed, HomeSwitch, HomeCell
<1> QED BY <1>3, <1>4, <1>5, <1>6, <1>7

LEMMA MotionCommandKeeps ==
  ASSUME IndInv,
         \/ \E cell \in Track : Move(cell)
         \/ \E cell \in Track : Jog(cell)
         \/ \E lsp \in BOOLEAN : HomeCommand(lsp)
         \/ Enable
  PROVE  IndInv'
<1> USE AxisAssumption DEF Track, boundVars
<1>0. losses \in 0..MaxLosses
  BY DEF IndInv, TypeOK
<1>1. ASSUME NEW cell \in Track, Move(cell)
      PROVE  IndInv'
  BY <1>0, <1>1, BeginKeeps DEF Move
<1>2. ASSUME NEW cell \in Track, Jog(cell)
      PROVE  IndInv'
  BY <1>0, <1>2, BeginKeeps DEF Jog
<1>3. ASSUME NEW lsp \in BOOLEAN, HomeCommand(lsp)
      PROVE  IndInv'
  BY <1>0, <1>3, BeginKeeps DEF HomeCommand, Home
<1>4. CASE Enable
  BY <1>0, <1>4, BeginKeeps DEF Enable
<1> QED BY <1>1, <1>2, <1>3, <1>4

\* powerOn() changes the power stage, powered_ and its own place only.
LEMMA PowerOnKeeps ==
  ASSUME IndInv, PowerOnSend \/ PowerOnConfirmed \/ PowerOnTimeout
  PROVE  IndInv'
<1> USE AxisAssumption DEF IndInv
<1>1. /\ UNCHANGED <<pos, zero, motion, goal, mask, latch>>
      /\ UNCHANGED <<homingActive, homingMoveSeen, homingTowardLSP, stopping>>
      /\ UNCHANGED <<done, moving, homed, sample, trips, homeCut, stopped, cnenOff>>
      /\ UNCHANGED <<clean, held>>
  BY DEF PowerOnSend, PowerOnConfirmed, PowerOnTimeout, driveVars, flagVars, paramVars,
         boundVars, histVars
<1>2. /\ pc \in {"axisOn", "waitOn"}
      /\ pc' \in {"idle", "waitOn", "prepare"} /\ cmd' \in {cmd, NoCmd}
  BY DEF PowerOnSend, PowerOnConfirmed, PowerOnTimeout, Goto
<1>3. losses' \in 0..MaxLosses
  <2>1. CASE PowerOnSend
    BY <2>1, CallCounts DEF PowerOnSend
  <2>2. CASE PowerOnConfirmed \/ PowerOnTimeout
    BY <2>2 DEF PowerOnConfirmed, PowerOnTimeout, boundVars, TypeOK
  <2> QED BY <2>1, <2>2
<1>4. /\ power' \in {"off", "rising", "on"}
      /\ power = "on" => power' = "on"
  BY DEF PowerOnSend, PowerOnConfirmed, PowerOnTimeout, TS_PowerOn, driveVars, TypeOK
<1>5. /\ powered' \in BOOLEAN /\ powerOnFailed' \in BOOLEAN /\ active' \in BOOLEAN
      /\ atRest' \in BOOLEAN
  BY DEF PowerOnSend, PowerOnConfirmed, PowerOnTimeout, flagVars, paramVars, histVars, TypeOK
<1>6. TypeOK'
  BY <1>1, <1>2, <1>3, <1>4, <1>5 DEF TypeOK, Pcs, Commands, NoCmd, Track
<1>7. MotionNeedsPower' /\ HomingNotStopping' /\ EventOwned' /\ DisarmedForMotion'
  BY <1>1, <1>2, <1>3, <1>4
  DEF MotionNeedsPower, HomingNotStopping, EventOwned, DisarmedForMotion
<1>8. HomeCommandPlace' /\ StopInv'
  BY <1>1, <1>2, <1>3 DEF HomeCommandPlace, StopInv, NoCmd
<1>9. HomingInv' /\ PollInv'
  BY <1>1, <1>2, <1>3 DEF HomingInv, PollInv, Undisturbed, HomeSwitch, HomeCell
<1> QED BY <1>6, <1>7, <1>8, <1>9

LEMMA PrepareKeeps ==
  ASSUME IndInv, Prepare
  PROVE  IndInv'
<1> USE AxisAssumption DEF IndInv
<1>1. /\ UNCHANGED <<pos, zero, power, motion, goal, powered, homingMoveSeen>>
      /\ UNCHANGED <<homingTowardLSP, paramVars, cmd, sample, trips, homeCut, stopped>>
      /\ UNCHANGED <<cnenOff, atRest, held>>
      /\ pc = "prepare" /\ pc' = "start"
      /\ homingActive' = (homingActive /\ cmd.op = "home")
      /\ stopping' = (stopping /\ cmd.op = "home")
  BY DEF Prepare, HoldAfterPrepare
<1>2. /\ losses' \in 0..MaxLosses
      /\ mask' \in SUBSET Switches /\ latch' \in SUBSET Switches
      /\ clean' \in BOOLEAN
      /\ clean' => mask' = {} /\ latch' = {}
  BY CallCounts, ClearedEvents DEF Prepare
<1>3. TypeOK'
  BY <1>1, <1>2 DEF TypeOK, Pcs, paramVars
<1>4. MotionNeedsPower' /\ HomingNotStopping' /\ EventOwned' /\ DisarmedForMotion'
  BY <1>1, <1>2 DEF MotionNeedsPower, HomingNotStopping, EventOwned, DisarmedForMotion
<1>5. HomeCommandPlace' /\ StopInv'
  BY <1>1, <1>2 DEF HomeCommandPlace, StopInv, paramVars
<1>6. HomingInv' /\ PollInv'
  BY <1>1 DEF HomingInv, PollInv
<1> QED BY <1>3, <1>4, <1>5, <1>6

LEMMA StartKeeps ==
  ASSUME IndInv, Start
  PROVE  IndInv'
<1> USE AxisAssumption DEF IndInv
<1>1. PICK o \in Outcomes :
        /\ Count(o) /\ Note(o) /\ TS_Move(o, cmd.goal)
        /\ Goto(IF o = "acked" /\ cmd.op = "home" THEN "arm" ELSE "idle")
        /\ done' = (done /\ ~(o = "acked" /\ cmd.op # "home"))
        /\ moving' = (moving \/ (o = "acked" /\ cmd.op # "home"))
  BY DEF Start
<1>2. /\ UNCHANGED <<pos, zero, power, mask, latch, flagVars, homed, powerOnFailed>>
      /\ UNCHANGED <<active, sample, trips, homeCut, cnenOff, atRest>>
      /\ pc = "start" /\ stopped' = FALSE
  BY DEF Start
<1>3. /\ losses' \in 0..MaxLosses
      /\ clean' \in BOOLEAN /\ held' \in BOOLEAN
      /\ clean' => clean /\ o = "acked"
  BY <1>1, CallCounts DEF Note, TypeOK
<1>4. /\ pc' \in {"arm", "idle"} /\ cmd' \in {cmd, NoCmd}
      /\ pc' = "arm" => o = "acked" /\ cmd.op = "home" /\ cmd' = cmd
      /\ pc' = "idle" /\ clean' => cmd.op # "home"
  BY <1>1, <1>3 DEF Goto
<1>5. cmd \in Commands
  BY DEF TypeOK
<1>6. /\ goal' \in Track /\ motion' \in {"none", "starting", "running", "stopping"}
      /\ power # "on" => motion' = "none"
      /\ o = "acked" => motion' # "stopping" /\ (motion' # "none" => goal' = cmd.goal)
  BY <1>1, <1>5 DEF TS_Move, AxisOn, Executed, TypeOK, MotionNeedsPower, Commands
<1>7. TypeOK'
  <2>1. done' \in BOOLEAN /\ moving' \in BOOLEAN /\ stopped' \in BOOLEAN
    BY <1>1, <1>2 DEF TypeOK
  <2>2. cmd' \in Commands
    BY <1>4, <1>5 DEF Commands, NoCmd, Track
  <2>3. pc' \in Pcs
    BY <1>4 DEF Pcs
  <2> QED BY <2>1, <2>2, <2>3, <1>2, <1>3, <1>6 DEF TypeOK, flagVars
<1>8. MotionNeedsPower' /\ HomingNotStopping' /\ EventOwned' /\ DisarmedForMotion'
  BY <1>2, <1>3, <1>6
  DEF MotionNeedsPower, HomingNotStopping, EventOwned, DisarmedForMotion, flagVars
<1>9. HomeCommandPlace' /\ StopInv'
  BY <1>2, <1>4, <1>6 DEF HomeCommandPlace, StopInv, NoCmd
<1>10. pc' = "idle" /\ clean' => ~homingActive'
  BY <1>2, <1>4 DEF HomeCommandPlace, flagVars
<1>11. HomingInv' /\ PollInv'
  BY <1>4, <1>10 DEF HomingInv, PollInv, Undisturbed
<1> QED BY <1>7, <1>8, <1>9, <1>11

LEMMA ArmKeeps ==
  ASSUME IndInv, Arm
  PROVE  IndInv'
<1> USE AxisAssumption DEF IndInv
<1> DEFINE lsp == cmd.goal = Length
<1>1. PICK o \in Outcomes, read \in BOOLEAN :
        /\ CountBoth(o, read) /\ Note(o) /\ TS_SetEventOnLimitSwitch(o, read, lsp)
        /\ IF o = "acked"
             THEN /\ homingActive' = TRUE /\ homingMoveSeen' = FALSE
                  /\ homingTowardLSP' = lsp /\ stopping' = FALSE
                  /\ done' = FALSE /\ moving' = TRUE /\ homed' = FALSE
                  /\ homeCut' = FALSE
             ELSE UNCHANGED <<homingActive, homingMoveSeen, homingTowardLSP, stopping,
                              done, moving, homed, homeCut>>
  BY DEF Arm
<1>2. /\ UNCHANGED <<pos, zero, power, motion, goal, latch, powered, powerOnFailed>>
      /\ UNCHANGED <<active, sample, trips, stopped, cnenOff, atRest>>
      /\ pc = "arm" /\ pc' = "idle" /\ cmd' = NoCmd
  BY DEF Arm, Goto
<1>3. /\ losses' \in 0..MaxLosses
      /\ clean' \in BOOLEAN /\ held' \in BOOLEAN
      /\ clean' => clean /\ o = "acked"
  <2>1. losses' \in 0..MaxLosses
    BY <1>1 DEF CountBoth, Count, Outcomes, TypeOK
  <2> QED BY <2>1, <1>1 DEF Note, TypeOK
<1>4. /\ mask' \in SUBSET Switches
      /\ o = "acked" /\ mask = {} => mask' = {Switch(lsp)}
  BY <1>1 DEF TS_SetEventOnLimitSwitch, Switch, Switches, TypeOK, Executed
<1>5. TypeOK'
  <2>1. /\ homingActive' \in BOOLEAN /\ homingMoveSeen' \in BOOLEAN
        /\ homingTowardLSP' \in BOOLEAN /\ stopping' \in BOOLEAN
        /\ done' \in BOOLEAN /\ moving' \in BOOLEAN /\ homed' \in BOOLEAN
        /\ homeCut' \in BOOLEAN
    BY <1>1 DEF TypeOK
  <2> QED BY <2>1, <1>2, <1>3, <1>4 DEF TypeOK, Pcs, Commands, NoCmd, Track
<1>6. MotionNeedsPower' /\ HomingNotStopping' /\ EventOwned' /\ DisarmedForMotion'
  BY <1>1, <1>2, <1>3
  DEF MotionNeedsPower, HomingNotStopping, EventOwned, DisarmedForMotion
<1>7. HomeCommandPlace' /\ StopInv'
  BY <1>2 DEF HomeCommandPlace, StopInv, NoCmd
<1>8. ASSUME clean'
      PROVE  /\ mask' = {HomeSwitch'} /\ latch' = {}
             /\ motion' # "stopping" /\ (motion' # "none" => goal' = HomeCell')
             /\ ~homingMoveSeen'
  <2>1. mask = {} /\ latch = {} /\ o = "acked"
    BY <1>2, <1>3, <1>8 DEF DisarmedForMotion
  <2>2. mask' = {HomeSwitch'} /\ latch' = {} /\ ~homingMoveSeen'
    BY <2>1, <1>1, <1>2, <1>4 DEF HomeSwitch
  <2>3. HomeCell' = cmd.goal
    BY <2>1, <1>1, <1>2 DEF HomeCell, Home, HomeCommandPlace
  <2> QED BY <2>2, <2>3, <1>2 DEF HomeCommandPlace
<1>9. HomingInv' /\ PollInv'
  BY <1>2, <1>8 DEF HomingInv, PollInv, Undisturbed
<1> QED BY <1>5, <1>6, <1>7, <1>9

\* The two places where the position is zeroed and the homing ends.
LEMMA ZeroKeeps ==
  ASSUME IndInv, ForceZero \/ PollZero
  PROVE  IndInv'
<1> USE AxisAssumption DEF IndInv
<1>1. PICK o \in Outcomes :
        /\ Count(o) /\ clean' = (o = "acked")
        /\ TS_SetPosition(o, 0) /\ TS_ClearLimitSwitchEvent(o)
  BY DEF ForceZero, PollZero, ZeroHere
<1>2. /\ UNCHANGED <<pos, power, motion, goal, powered, homingMoveSeen, homingTowardLSP>>
      /\ UNCHANGED <<stopping, done, moving, powerOnFailed, active, cmd, sample, trips>>
      /\ UNCHANGED <<homeCut, stopped, cnenOff, held>>
      /\ homingActive' = FALSE /\ homed' = TRUE /\ pc' = "idle" /\ atRest' = FALSE
      /\ pc \in {"forceZero", "pollZero"}
  BY DEF ForceZero, PollZero, ZeroHere
<1>3. /\ losses' \in 0..MaxLosses
      /\ mask' \in SUBSET Switches /\ latch' \in SUBSET Switches
      /\ clean' \in BOOLEAN /\ (clean' => mask' = {})
  BY <1>1, CallCounts, ClearedEvents
<1>4. zero' \in Int
  BY <1>1 DEF TS_SetPosition, TypeOK, Track
<1>5. TypeOK'
  <2>1. /\ homingActive' \in BOOLEAN /\ homed' \in BOOLEAN /\ atRest' \in BOOLEAN
        /\ pc' \in Pcs
    BY <1>2 DEF Pcs
  <2> QED BY <2>1, <1>2, <1>3, <1>4 DEF TypeOK
<1>6. MotionNeedsPower' /\ HomingNotStopping' /\ EventOwned' /\ DisarmedForMotion'
  BY <1>2, <1>3 DEF MotionNeedsPower, HomingNotStopping, EventOwned, DisarmedForMotion
<1>7. HomeCommandPlace' /\ StopInv'
  BY <1>2, <1>3 DEF HomeCommandPlace, StopInv
<1>8. HomingInv' /\ PollInv'
  BY <1>2 DEF HomingInv, PollInv, Undisturbed
<1> QED BY <1>5, <1>6, <1>7, <1>8

LEMMA StopKeeps ==
  ASSUME IndInv, Stop
  PROVE  IndInv'
<1> USE AxisAssumption DEF IndInv
<1>1. PICK o \in Outcomes :
        /\ Count(o) /\ TS_ABORT(o) /\ StopDisarm(o)
        /\ held' = Executed(o)
        /\ clean' = IF homingActive THEN o = "acked" ELSE clean
  BY DEF Stop
<1>2. /\ UNCHANGED <<pos, zero, power, powered, homingMoveSeen, homingTowardLSP, homed>>
      /\ UNCHANGED <<powerOnFailed, active, pc, cmd, sample, trips, homeCut, cnenOff>>
      /\ UNCHANGED atRest
      /\ pc = "idle" /\ homingActive' = FALSE /\ stopping' = TRUE
      /\ done' = TRUE /\ moving' = FALSE /\ stopped' = TRUE
  BY DEF Stop, StopHold, ctlVars
<1>3. /\ losses' \in 0..MaxLosses
      /\ clean' \in BOOLEAN /\ held' \in BOOLEAN
  BY <1>1, CallCounts DEF TypeOK
<1>4. /\ mask' \in SUBSET Switches /\ latch' \in SUBSET Switches
      /\ clean' => mask' = {}
  <2>1. CASE homingActive
    BY <2>1, <1>1, <1>3, ClearedEvents DEF StopDisarm
  <2>2. CASE ~homingActive
    BY <2>2, <1>1, <1>3 DEF StopDisarm, EventOwned, TypeOK
  <2> QED BY <2>1, <2>2
<1>5. /\ motion' \in {"none", "starting", "running", "stopping"} /\ goal' \in Track
      /\ motion = "none" => motion' = "none"
      /\ held' => motion' \in {"none", "stopping"}
  BY <1>1, <1>3 DEF TS_ABORT, Halt, TypeOK
<1>6. TypeOK'
  BY <1>2, <1>3, <1>4, <1>5 DEF TypeOK
<1>7. MotionNeedsPower' /\ HomingNotStopping' /\ EventOwned' /\ DisarmedForMotion'
  BY <1>2, <1>4, <1>5 DEF MotionNeedsPower, HomingNotStopping, EventOwned, DisarmedForMotion
<1>8. HomeCommandPlace' /\ StopInv'
  BY <1>2, <1>5 DEF HomeCommandPlace, StopInv
<1>9. HomingInv' /\ PollInv'
  BY <1>2 DEF HomingInv, PollInv, Undisturbed
<1> QED BY <1>6, <1>7, <1>8, <1>9

\* forceHome() either goes on to zero the position or begins a home command.
LEMMA ForceHomeKeeps ==
  ASSUME IndInv, ForceHome
  PROVE  IndInv'
<1> USE AxisAssumption
<1>1. PICK o \in Outcomes :
        /\ Count(o)
        /\ IF o = "acked" /\ (IF UseLSP THEN "LSP" ELSE "LSN") \in MER
             THEN /\ pc' = "forceZero" /\ atRest' = (motion = "none")
                  /\ UNCHANGED <<cmd, cnenOff>>
             ELSE Begin("home", Home(UseLSP)) /\ UNCHANGED atRest
  BY DEF ForceHome
<1>2. /\ pc = "idle"
      /\ UNCHANGED <<driveVars, flagVars, paramVars, sample, trips, homeCut, stopped>>
      /\ UNCHANGED <<clean, held>>
  BY DEF ForceHome
<1>3. losses' \in 0..MaxLosses
  BY <1>1, CallCounts DEF IndInv
<1>4. CASE Begin("home", Home(UseLSP)) /\ UNCHANGED atRest
  <2>1. Home(UseLSP) \in Track /\ Home(UseLSP) \in {0, Length}
    BY DEF Home, Track
  <2> QED BY <2>1, <1>2, <1>3, <1>4, BeginKeeps
<1>5. CASE pc' = "forceZero" /\ atRest' = (motion = "none") /\ UNCHANGED <<cmd, cnenOff>>
  <2> USE DEF IndInv, driveVars, flagVars, paramVars
  <2>1. TypeOK'
    <3>1. atRest' \in BOOLEAN
      BY <1>5
    <3> QED BY <3>1, <1>2, <1>3, <1>5 DEF TypeOK, Pcs
  <2>2. MotionNeedsPower' /\ HomingNotStopping' /\ EventOwned' /\ DisarmedForMotion'
    BY <1>2, <1>3, <1>5
    DEF MotionNeedsPower, HomingNotStopping, EventOwned, DisarmedForMotion
  <2>3. HomeCommandPlace' /\ StopInv'
    BY <1>2, <1>3, <1>5 DEF HomeCommandPlace, StopInv
  <2>4. HomingInv' /\ PollInv'
    BY <1>2, <1>3, <1>5 DEF HomingInv, PollInv, Undisturbed, HomeSwitch, HomeCell
  <2> QED BY <2>1, <2>2, <2>3, <2>4
<1> QED BY <1>1, <1>4, <1>5

\* setPosition() and the two reset commands, which leave the flags alone.
LEMMA SetPositionKeeps ==
  ASSUME IndInv, NEW p \in Positions, SetPosition(p)
  PROVE  IndInv'
<1> USE AxisAssumption DEF IndInv
<1>1. /\ UNCHANGED <<pos, power, motion, goal, mask, latch, flagVars, paramVars, ctlVars>>
      /\ UNCHANGED <<trips, histVars>>
  BY DEF SetPosition
<1>2. losses' \in 0..MaxLosses
  BY CallCounts DEF SetPosition
<1>3. zero' \in Int
  BY DEF SetPosition, TS_SetPosition, TypeOK, Track
<1> USE DEF flagVars, paramVars, ctlVars, histVars
<1>4. TypeOK'
  BY <1>1, <1>2, <1>3 DEF TypeOK
<1>5. MotionNeedsPower' /\ HomingNotStopping' /\ EventOwned' /\ DisarmedForMotion'
  BY <1>1, <1>2 DEF MotionNeedsPower, HomingNotStopping, EventOwned, DisarmedForMotion
<1>6. HomeCommandPlace' /\ StopInv'
  BY <1>1, <1>2 DEF HomeCommandPlace, StopInv
<1>7. HomingInv' /\ PollInv'
  BY <1>1, <1>2 DEF HomingInv, PollInv, Undisturbed, HomeSwitch, HomeCell
<1> QED BY <1>4, <1>5, <1>6, <1>7

LEMMA ResetFaultKeeps ==
  ASSUME IndInv, ResetFault
  PROVE  IndInv'
<1> USE AxisAssumption DEF IndInv
<1>1. /\ UNCHANGED <<pos, zero, power, motion, goal, mask, flagVars, done, moving, homed>>
      /\ UNCHANGED <<active, ctlVars, trips, histVars>>
      /\ powerOnFailed' = FALSE
  BY DEF ResetFault
<1>2. losses' \in 0..MaxLosses
  BY CallCounts DEF ResetFault
<1>3. latch' \in {{}, latch}
  BY DEF ResetFault
<1> USE DEF flagVars, ctlVars, histVars
<1>4. TypeOK'
  <2>1. powerOnFailed' \in BOOLEAN
    BY <1>1
  <2> QED BY <2>1, <1>1, <1>2, <1>3 DEF TypeOK
<1>5. MotionNeedsPower' /\ HomingNotStopping' /\ EventOwned' /\ DisarmedForMotion'
  BY <1>1, <1>2, <1>3 DEF MotionNeedsPower, HomingNotStopping, EventOwned, DisarmedForMotion
<1>6. HomeCommandPlace' /\ StopInv'
  BY <1>1, <1>2 DEF HomeCommandPlace, StopInv
<1>7. HomingInv' /\ PollInv'
  BY <1>1, <1>2, <1>3 DEF HomingInv, PollInv, Undisturbed, HomeSwitch, HomeCell
<1> QED BY <1>4, <1>5, <1>6, <1>7

\* Whatever takes the power stage down ends the motion and, for a homing on
\* record, is remembered.
LEMMA PowerDownKeeps ==
  ASSUME IndInv, NEW off \in BOOLEAN, PowerDown(off),
         UNCHANGED <<pos, homingActive, homingMoveSeen, homingTowardLSP, stopping, moving>>,
         UNCHANGED <<pc, cmd, sample, stopped>>,
         UNCHANGED <<clean, held>>,
         \/ UNCHANGED <<mask, latch>>
         \/ off /\ mask' = {} /\ latch' = {},
         TypeOK'
  PROVE  IndInv'
<1> USE DEF IndInv
<1>1. CASE off
  <2>1. power' = "off" /\ motion' = "none" /\ (homingActive => homeCut')
    BY <1>1 DEF PowerDown, Halt
  <2>2. ~Undisturbed'
    BY <2>1 DEF Undisturbed
  <2>3. MotionNeedsPower' /\ HomingNotStopping' /\ EventOwned' /\ DisarmedForMotion'
    BY <2>1 DEF MotionNeedsPower, HomingNotStopping, EventOwned, DisarmedForMotion
  <2>4. HomeCommandPlace' /\ StopInv'
    BY <2>1 DEF HomeCommandPlace, StopInv
  <2>5. HomingInv' /\ PollInv'
    BY <2>2 DEF HomingInv, PollInv
  <2> QED BY <2>3, <2>4, <2>5
<1>2. CASE ~off
  <2>1. UNCHANGED <<power, motion, goal, homeCut, mask, latch>>
    BY <1>2 DEF PowerDown, TypeOK
  <2>2. MotionNeedsPower' /\ HomingNotStopping' /\ EventOwned' /\ DisarmedForMotion'
    BY <2>1 DEF MotionNeedsPower, HomingNotStopping, EventOwned, DisarmedForMotion
  <2>3. HomeCommandPlace' /\ StopInv'
    BY <2>1 DEF HomeCommandPlace, StopInv
  <2>4. HomingInv' /\ PollInv'
    BY <2>1 DEF HomingInv, PollInv, Undisturbed, HomeSwitch, HomeCell
  <2> QED BY <2>2, <2>3, <2>4
<1> QED BY <1>1, <1>2

\* The part of the type invariant PowerDown touches.
LEMMA PowerDownTypes ==
  ASSUME TypeOK, NEW off \in BOOLEAN, PowerDown(off), UNCHANGED pos
  PROVE  /\ power' \in {"off", "rising", "on"}
         /\ motion' \in {"none", "starting", "running", "stopping"}
         /\ goal' \in Track /\ homeCut' \in BOOLEAN
BY DEF TypeOK, PowerDown, Halt

LEMMA DisableKeeps ==
  ASSUME IndInv, Disable
  PROVE  IndInv'
<1> USE AxisAssumption DEF IndInv
<1>1. /\ UNCHANGED <<pos, zero, mask, latch, homingActive, homingMoveSeen, homingTowardLSP>>
      /\ UNCHANGED <<stopping, done, moving, homed, pc, cmd, sample, trips, stopped>>
      /\ UNCHANGED <<atRest, clean, held>> /\ cnenOff' = TRUE
  BY DEF Disable, ctlVars
<1>2. PICK off \in BOOLEAN : PowerDown(off)
  <2>1. CASE powered
    BY <2>1 DEF Disable, Executed
  <2>2. CASE ~powered
    <3>1. PowerDown(FALSE)
      BY <2>2 DEF Disable, PowerDown, TypeOK
    <3> QED BY <3>1
  <2> QED BY <2>1, <2>2
<1>3. losses' \in 0..MaxLosses
  <2>1. CASE powered
    BY <2>1, CallCounts DEF Disable
  <2>2. CASE ~powered
    BY <2>2 DEF Disable, TypeOK
  <2> QED BY <2>1, <2>2
<1>4. TypeOK'
  <2>1. /\ powered' \in BOOLEAN /\ powerOnFailed' \in BOOLEAN /\ active' \in BOOLEAN
        /\ cnenOff' \in BOOLEAN
    BY DEF Disable, TypeOK
  <2> QED BY <2>1, <1>1, <1>2, <1>3, PowerDownTypes DEF TypeOK
<1> QED BY <1>1, <1>2, <1>3, <1>4, PowerDownKeeps

LEMMA ResetDriveKeeps ==
  ASSUME IndInv, ResetDrive
  PROVE  IndInv'
<1> USE AxisAssumption DEF IndInv
<1>1. PICK o \in Outcomes :
        /\ Count(o) /\ PowerDown(Executed(o))
        /\ mask' = IF Executed(o) THEN {} ELSE mask
        /\ latch' = IF Executed(o) THEN {} ELSE latch
        /\ zero' = IF Executed(o) THEN pos ELSE zero
  BY DEF ResetDrive
<1>2. /\ UNCHANGED <<pos, flagVars, paramVars, pc, cmd, sample, trips, stopped, cnenOff>>
      /\ UNCHANGED <<atRest, clean, held>>
  BY DEF ResetDrive, ctlVars
<1>3. losses' \in 0..MaxLosses
  BY <1>1, CallCounts
<1>4. Executed(o) \in BOOLEAN
  BY DEF Executed
<1>5. TypeOK'
  <2>1. mask' \in SUBSET Switches /\ latch' \in SUBSET Switches /\ zero' \in Int
    BY <1>1 DEF TypeOK, Track
  <2> QED BY <2>1, <1>1, <1>2, <1>3, <1>4, PowerDownTypes DEF TypeOK, flagVars, paramVars
<1>6. UNCHANGED <<mask, latch>> \/ (Executed(o) /\ mask' = {} /\ latch' = {})
  BY <1>1
<1> QED BY <1>1, <1>2, <1>3, <1>4, <1>5, <1>6, PowerDownKeeps DEF flagVars, paramVars

-----------------------------------------------------------------------------
\* The poll.
LEMMA PollSrlKeeps ==
  ASSUME IndInv, PollSrl
  PROVE  IndInv'
<1> USE DEF IndInv
<1>1. /\ UNCHANGED <<driveVars, flagVars, paramVars, cmd, boundVars, histVars>>
      /\ pc = "idle" /\ pc' = "pollMer"
      /\ sample' = [mc |-> MotionComplete, on |-> AxisOn, limits |-> {}]
  BY DEF PollSrl
<1>2. sample'.mc = (motion \in {"none", "starting"}) /\ sample'.limits = {}
  BY <1>1 DEF MotionComplete
<1> USE DEF driveVars, flagVars, paramVars, boundVars, histVars
<1>3. TypeOK'
  <2>1. sample' \in Samples
    BY <1>1 DEF Samples, MotionComplete, AxisOn
  <2> QED BY <1>1, <2>1 DEF TypeOK, Pcs
<1>4. MotionNeedsPower' /\ HomingNotStopping' /\ EventOwned' /\ DisarmedForMotion'
  BY <1>1 DEF MotionNeedsPower, HomingNotStopping, EventOwned, DisarmedForMotion
<1>5. HomeCommandPlace' /\ StopInv'
  BY <1>1, <1>2 DEF HomeCommandPlace, StopInv
<1>6. HomingInv'
  BY <1>1 DEF HomingInv, Undisturbed, HomeSwitch, HomeCell
<1>7. PollInv'
  BY <1>1, <1>2 DEF TypeOK, HomingInv, PollInv, Undisturbed, HomeSwitch, HomeCell
<1> QED BY <1>3, <1>4, <1>5, <1>6, <1>7

\* The home switch shows active in MER only when the motor stands on it.
LEMMA SwitchTellsPlace ==
  ASSUME TypeOK, HomingInv, Undisturbed, pc \notin {"start", "arm"}, HomeSwitch \in MER
  PROVE  pos = HomeCell
BY DEF HomingInv, HomeSwitch, HomeCell, Switch, Home, MER, Live, TypeOK

LEMMA PollMerKeeps ==
  ASSUME IndInv, PollMer
  PROVE  IndInv'
<1> USE AxisAssumption DEF IndInv
<1>1. PICK o \in Outcomes \ {"unacked"} :
        Count(o) /\ sample' = [sample EXCEPT !.limits = IF o = "acked" THEN MER ELSE {}]
  BY DEF PollMer
<1>2. /\ UNCHANGED <<driveVars, flagVars, paramVars, cmd, trips, histVars>>
      /\ pc = "pollMer" /\ pc' = "pollPublish"
  BY DEF PollMer
<1>3. losses' \in 0..MaxLosses
  BY <1>1, CallCounts
<1>4. /\ sample' \in Samples /\ sample'.mc = sample.mc
      /\ sample'.limits \in {MER, {}}
  <2>1. MER \in SUBSET Switches
    BY DEF MER, Live, TypeOK
  <2> QED BY <1>1, <2>1 DEF TypeOK, Samples
<1> USE DEF driveVars, flagVars, paramVars, histVars
<1>5. TypeOK'
  BY <1>2, <1>3, <1>4 DEF TypeOK, Pcs
<1>6. MotionNeedsPower' /\ HomingNotStopping' /\ EventOwned' /\ DisarmedForMotion'
  BY <1>2, <1>3 DEF MotionNeedsPower, HomingNotStopping, EventOwned, DisarmedForMotion
<1>7. HomeCommandPlace' /\ StopInv'
  BY <1>2, <1>3, <1>4 DEF HomeCommandPlace, StopInv
<1>8. HomingInv'
  BY <1>2, <1>3 DEF HomingInv, Undisturbed, HomeSwitch, HomeCell
<1>9. Undisturbed /\ HomeSwitch \in sample'.limits => pos = HomeCell
  BY <1>2, <1>4, SwitchTellsPlace
<1>10. PollInv'
  BY <1>2, <1>3, <1>4, <1>9 DEF PollInv, Undisturbed, HomeSwitch, HomeCell
<1> QED BY <1>5, <1>6, <1>7, <1>8, <1>10

LEMMA PollPublishKeeps ==
  ASSUME IndInv, PollPublish
  PROVE  IndInv'
<1> USE DEF IndInv
<1>1. /\ UNCHANGED <<driveVars, homingActive, homingTowardLSP, homed, powerOnFailed, cmd>>
      /\ UNCHANGED <<boundVars, histVars>>
      /\ pc = "pollPublish" /\ pc' \in {"idle", "pollZero"}
      /\ stopping' = (stopping /\ ~sample.mc)
      /\ done' = ReportedDone /\ moving' = ReportedMoving
      /\ homingMoveSeen' = (homingMoveSeen \/ (homingActive /\ ReportedMoving))
      /\ powered' = sample.on /\ active' = sample.on /\ sample' = NoSample
      /\ pc' = "pollZero" => HomingComplete
  BY DEF PollPublish, HoldAfterPoll, PoweredAfterPoll
<1>2. sample.mc \in BOOLEAN /\ sample.on \in BOOLEAN
  BY DEF TypeOK, Samples
<1>3. TypeOK'
  <2>1. /\ stopping' \in BOOLEAN /\ done' \in BOOLEAN /\ moving' \in BOOLEAN
        /\ homingMoveSeen' \in BOOLEAN /\ powered' \in BOOLEAN /\ active' \in BOOLEAN
    BY <1>1, <1>2 DEF TypeOK, ReportedDone, ReportedMoving
  <2>2. sample' \in Samples /\ pc' \in Pcs
    BY <1>1 DEF NoSample, Samples, Pcs
  <2> QED BY <1>1, <2>1, <2>2
          DEF TypeOK, driveVars, boundVars, histVars
<1> USE DEF driveVars, boundVars, histVars
<1>4. MotionNeedsPower' /\ HomingNotStopping' /\ EventOwned' /\ DisarmedForMotion'
  BY <1>1 DEF MotionNeedsPower, HomingNotStopping, EventOwned, DisarmedForMotion
<1>5. HomeCommandPlace' /\ StopInv'
  BY <1>1 DEF HomeCommandPlace, StopInv, ReportedMoving, ReportedDone
<1>6. ReportedMoving => ~sample.mc
  BY DEF ReportedMoving, ReportedDone
<1>7. HomingInv'
  BY <1>1, <1>6 DEF HomingInv, PollInv, Undisturbed, HomeSwitch, HomeCell
<1>8. PollInv'
  <2>1. HomingComplete /\ Undisturbed => pos = HomeCell
    BY <1>1 DEF HomingComplete, ReportedDone, HomingNotStopping, PollInv, Undisturbed,
                HomeSwitch, Switch
  <2>2. HomingComplete => homingActive
    BY DEF HomingComplete
  <2> QED BY <1>1, <2>1, <2>2 DEF PollInv, Undisturbed, HomeCell
<1> QED BY <1>3, <1>4, <1>5, <1>7, <1>8

-----------------------------------------------------------------------------
\* The drive.
LEMMA DriveRiseKeeps ==
  ASSUME IndInv, DriveRise
  PROVE  IndInv'
<1> USE DEF IndInv
<1>1. /\ UNCHANGED <<pos, zero, motion, goal, mask, latch, driverVars, trips, homeCut>>
      /\ power' = "on"
  BY DEF DriveRise
<1> USE DEF driverVars, flagVars, paramVars, ctlVars
<1>2. TypeOK'
  BY <1>1 DEF TypeOK
<1>3. MotionNeedsPower' /\ HomingNotStopping' /\ EventOwned' /\ DisarmedForMotion'
  BY <1>1 DEF MotionNeedsPower, HomingNotStopping, EventOwned, DisarmedForMotion
<1>4. HomeCommandPlace' /\ StopInv'
  BY <1>1 DEF HomeCommandPlace, StopInv
<1>5. HomingInv' /\ PollInv'
  BY <1>1 DEF HomingInv, PollInv, Undisturbed, HomeSwitch, HomeCell
<1> QED BY <1>2, <1>3, <1>4, <1>5

\* A motion of an undisturbed homing is blocked only where it heads for.
LEMMA BlockedAtHome ==
  ASSUME TypeOK, HomingInv, Undisturbed, pc \notin {"start", "arm"},
         motion # "none", Blocked
  PROVE  pos = HomeCell
<1>1. goal = HomeCell /\ mask = {HomeSwitch}
  BY DEF HomingInv
<1>2. CASE goal = pos
  BY <1>1, <1>2
<1>3. CASE EventFires
  BY <1>1, <1>3, SwitchTellsPlace DEF EventFires
<1>4. CASE Toward(goal) \cap MER # {}
  <2>1. Toward(goal) \in {{}, {HomeSwitch}}
    BY <1>1, AxisAssumption DEF Toward, HomeCell, HomeSwitch, Switch, Home, TypeOK, Track
  <2> QED BY <2>1, <1>4, SwitchTellsPlace
<1> QED BY <1>2, <1>3, <1>4 DEF Blocked

\* The end of a motion, at DriveStart or DriveEnd.
LEMMA HaltKeeps ==
  ASSUME IndInv, Halt, motion # "none", Blocked \/ motion = "stopping",
         UNCHANGED <<pos, zero, power, mask, latch, driverVars, trips, homeCut>>
  PROVE  IndInv'
<1> USE DEF IndInv, driverVars, flagVars, paramVars, ctlVars
<1>1. motion' = "none" /\ goal' = pos
  BY DEF Halt
<1>2. TypeOK'
  BY <1>1 DEF TypeOK
<1>3. MotionNeedsPower' /\ HomingNotStopping' /\ EventOwned' /\ DisarmedForMotion'
  BY <1>1 DEF MotionNeedsPower, HomingNotStopping, EventOwned, DisarmedForMotion
<1>4. HomeCommandPlace' /\ StopInv'
  BY <1>1 DEF HomeCommandPlace, StopInv
<1>5. Undisturbed /\ pc \notin {"start", "arm"} => pos = HomeCell
  BY BlockedAtHome DEF HomingInv
<1>6. HomingInv' /\ PollInv'
  BY <1>1, <1>5 DEF HomingInv, PollInv, Undisturbed, HomeSwitch, HomeCell
<1> QED BY <1>2, <1>3, <1>4, <1>6

LEMMA DriveStartKeeps ==
  ASSUME IndInv, DriveStart
  PROVE  IndInv'
<1>1. CASE Blocked
  BY <1>1, HaltKeeps DEF DriveStart
<1>2. CASE ~Blocked
  <2> USE DEF IndInv, driverVars, flagVars, paramVars, ctlVars
  <2>1. /\ UNCHANGED <<pos, zero, power, goal, mask, latch, driverVars, trips, homeCut>>
        /\ motion = "starting" /\ motion' = "running"
    BY <1>2 DEF DriveStart
  <2>2. TypeOK'
    BY <2>1 DEF TypeOK
  <2>3. MotionNeedsPower' /\ HomingNotStopping' /\ EventOwned' /\ DisarmedForMotion'
    BY <2>1 DEF MotionNeedsPower, HomingNotStopping, EventOwned, DisarmedForMotion
  <2>4. HomeCommandPlace' /\ StopInv'
    BY <2>1 DEF HomeCommandPlace, StopInv
  <2>5. HomingInv' /\ PollInv'
    BY <2>1 DEF HomingInv, PollInv, Undisturbed, HomeSwitch, HomeCell
  <2> QED BY <2>2, <2>3, <2>4, <2>5
<1> QED BY <1>1, <1>2

\* A motor that moves is not yet where a homing heads for, and it latches the
\* home switch only by arriving there.
LEMMA DriveMoveKeeps ==
  ASSUME IndInv, DriveMove
  PROVE  IndInv'
<1> USE AxisAssumption DEF IndInv
<1>1. /\ UNCHANGED <<zero, power, motion, goal, mask, driverVars, trips, homeCut>>
      /\ motion = "running" /\ ~Blocked
      /\ pos' = IF goal > pos THEN pos + 1 ELSE pos - 1
      /\ latch' = latch \cup (mask \cap Live')
  BY DEF DriveMove
<1> USE DEF driverVars, flagVars, paramVars, ctlVars
<1>2. pos' \in Track /\ latch' \in SUBSET Switches
  BY <1>1 DEF TypeOK, Track, Blocked
<1>3. TypeOK'
  BY <1>1, <1>2 DEF TypeOK
<1>4. mask = {} => latch' = latch
  BY <1>1
<1>5. MotionNeedsPower' /\ HomingNotStopping' /\ EventOwned' /\ DisarmedForMotion'
  BY <1>1, <1>4 DEF MotionNeedsPower, HomingNotStopping, EventOwned, DisarmedForMotion
<1>6. HomeCommandPlace' /\ StopInv'
  BY <1>1 DEF HomeCommandPlace, StopInv
<1>7. HomeSwitch \in Live' => pos' = HomeCell
  BY DEF HomeSwitch, HomeCell, Switch, Home, Live, TypeOK
<1>8. ASSUME Undisturbed, pc \notin {"start", "arm"}
      PROVE  pos # HomeCell
  <2>1. mask = {HomeSwitch}
    BY <1>8 DEF HomingInv
  <2>2. pos = HomeCell => HomeSwitch \in MER
    BY DEF HomeSwitch, HomeCell, Switch, Home, MER, Live, Switches
  <2> QED BY <2>1, <2>2, <1>1 DEF Blocked, EventFires
<1>9. HomingInv'
  BY <1>1, <1>7, <1>8 DEF HomingInv, Undisturbed, HomeSwitch, HomeCell
<1>10. PollInv'
  BY <1>1, <1>8 DEF PollInv, Undisturbed, HomeSwitch, HomeCell
<1> QED BY <1>3, <1>5, <1>6, <1>9, <1>10

LEMMA DriveEndKeeps ==
  ASSUME IndInv, DriveEnd
  PROVE  IndInv'
BY HaltKeeps DEF DriveEnd

LEMMA DriveTripKeeps ==
  ASSUME IndInv, DriveTrip
  PROVE  IndInv'
<1> USE AxisAssumption DEF IndInv, driverVars, flagVars, paramVars, ctlVars
<1>1. /\ PowerDown(TRUE) /\ trips' = trips + 1 /\ trips < MaxTrips
      /\ UNCHANGED <<pos, zero, mask, latch, driverVars>>
  BY DEF DriveTrip
<1>2. trips' \in 0..MaxTrips
  BY <1>1 DEF TypeOK
<1>3. TypeOK'
  <2>1. /\ power' \in {"off", "rising", "on"}
        /\ motion' \in {"none", "starting", "running", "stopping"}
        /\ goal' \in Track /\ homeCut' \in BOOLEAN
    BY <1>1, PowerDownTypes
  <2> QED BY <1>1, <1>2, <2>1 DEF TypeOK
<1> QED BY <1>1, <1>3, PowerDownKeeps

-----------------------------------------------------------------------------
LEMMA NextKeeps == IndInv /\ [Next]_vars => IndInv'
<1> SUFFICES ASSUME IndInv, [Next]_vars
             PROVE  IndInv'
  OBVIOUS
<1>1. CASE CommandStep
  BY <1>1, MotionCommandKeeps, DisableKeeps, StopKeeps, ForceHomeKeeps, SetPositionKeeps,
     ResetFaultKeeps, ResetDriveKeeps
  DEF CommandStep
<1>2. CASE PollSrl
  BY <1>2, PollSrlKeeps
<1>3. CASE HandlerStep
  BY <1>3, PowerOnKeeps, PrepareKeeps, StartKeeps, ArmKeeps, ZeroKeeps, PollMerKeeps,
     PollPublishKeeps
  DEF HandlerStep
<1>4. CASE DriveStep
  BY <1>4, DriveRiseKeeps, DriveStartKeeps, DriveMoveKeeps, DriveEndKeeps, DriveTripKeeps
  DEF DriveStep, MotionStep
<1>5. CASE UNCHANGED vars
  <2> USE <1>5 DEF IndInv, vars, driveVars, flagVars, paramVars, ctlVars, boundVars, histVars
  <2>1. TypeOK'
    BY DEF TypeOK
  <2>2. MotionNeedsPower' /\ HomingNotStopping' /\ EventOwned' /\ DisarmedForMotion'
    BY DEF MotionNeedsPower, HomingNotStopping, EventOwned, DisarmedForMotion
  <2>3. HomeCommandPlace' /\ StopInv'
    BY DEF HomeCommandPlace, StopInv
  <2>4. HomingInv' /\ PollInv'
    BY DEF HomingInv, PollInv, Undisturbed, HomeSwitch, HomeCell
  <2> QED BY <2>1, <2>2, <2>3, <2>4
<1> QED BY <1>1, <1>2, <1>3, <1>4, <1>5 DEF Next

\* The invariant holds of every behaviour.
THEOREM Invariance == Spec => []IndInv
  BY InitEstablishes, NextKeeps, PTL DEF Spec

\* Every variable keeps its type; the motor never leaves the track.
THEOREM TypeCorrect == Spec => []TypeOK
<1>1. IndInv => TypeOK
  BY DEF IndInv
<1> QED BY <1>1, Invariance, PTL

\* The event home() arms never outlives its homing, on any of the ways a homing
\* ends: completion, stop(), move(), moveVelocity(), forceHome().
THEOREM NoEventLeftArmed == Spec => []EventDisarmed
<1>1. IndInv => EventDisarmed
  BY DEF IndInv, EventOwned, EventDisarmed
<1> QED BY <1>1, Invariance, PTL

\* After STOP the poll never reports motion before a new motion command, however
\* polls and the drive's deceleration interleave.
THEOREM StopIsHeld == Spec => []StopHolds
<1>1. IndInv => StopHolds
  BY DEF IndInv, StopInv, StopHolds
<1> QED BY <1>1, Invariance, PTL

\* Homing completes on the home switch and zeroes the position there, if no
\* message of its own was lost and the power stage stayed up.
THEOREM HomingIsSound == Spec => HomesAtLimitUnlessCut
<1>1. IndInv /\ [Next]_vars =>
        [PollZero /\ clean /\ clean' =>
           homeCut \/ (pos = Home(homingTowardLSP) /\ zero' = pos)]_vars
  <2> SUFFICES ASSUME IndInv, PollZero, clean, clean', ~homeCut
               PROVE  pos = Home(homingTowardLSP) /\ zero' = pos
    OBVIOUS
  <2> USE DEF IndInv
  <2>1. PICK o \in Outcomes : Count(o) /\ clean' = (o = "acked") /\ TS_SetPosition(o, 0)
    BY DEF PollZero, ZeroHere
  <2>2. Executed(o)
    BY <2>1, CallCounts
  <2>3. pos = HomeCell
    BY <2>2 DEF PollZero, PollInv, Undisturbed
  <2>4. zero' = pos
    BY <2>1, <2>2 DEF TS_SetPosition, TypeOK, Track
  <2> QED BY <2>3, <2>4 DEF HomeCell
<1> QED BY <1>1, Invariance, PTL DEF Spec, HomesAtLimitUnlessCut

=============================================================================
