------------------------- MODULE TmlAxisHold_proofs -------------------------
(***************************************************************************)
(* What MER and the hold of stop() tell of the motor in TmlAxis: that      *)
(* forceHome() takes no place but the home switch for home, and that the   *)
(* hold never hides a running motor.                                       *)
(***************************************************************************)
EXTENDS TmlAxis_proofs

\* After a clean disarming, a bit stays latched in MER only while its event is armed
\* and the motor stands on its switch: the event blocks every motion away.
LatchTellsPlace == clean => latch \subseteq (mask \cap Live)

\* forceHome() is about to zero the position of a motor that stands at home.
ForcePlace ==
  pc = "forceZero" /\ clean /\ atRest => motion = "none" /\ pos = Home(UseLSP)

\* move() and moveVelocity() end the hold before they start the motor, home()
\* only with the arming of its event.
HoldInv ==
  /\ held /\ stopping /\ pc # "arm" => motion \in {"none", "stopping"}
  /\ pc = "start" /\ cmd.op # "home" => ~stopping

HoldInd == LatchTellsPlace /\ ForcePlace /\ HoldInv

-----------------------------------------------------------------------------
LEMMA HoldInit == Init => HoldInd
BY DEF Init, HoldInd, LatchTellsPlace, ForcePlace, HoldInv

\* A switch shown active in MER is one the motor stands on.
LEMMA MerIsLive ==
  ASSUME LatchTellsPlace, clean
  PROVE  MER = Live
BY DEF LatchTellsPlace, MER

\* The commands that only begin, and powerOn(): the motor, the events and the hold
\* stay, and the handler comes to a place before its motion.
LEMMA QuietHold ==
  ASSUME HoldInd, UNCHANGED <<pos, motion, mask, latch, stopping, clean, held>>, pc # "arm",
         pc' \notin {"start", "forceZero"}
  PROVE  HoldInd'
BY DEF HoldInd, LatchTellsPlace, ForcePlace, HoldInv, Live

LEMMA BeginHold ==
  ASSUME HoldInd, pc = "idle", NEW op, NEW cell, Begin(op, cell),
         UNCHANGED <<pos, motion, mask, latch, stopping, clean, held>>
  PROVE  HoldInd'
<1>1. pc' \in {"idle", "axisOn", "prepare"}
  BY DEF Begin
<1> QED BY <1>1, QuietHold

LEMMA MotionCommandHold ==
  ASSUME HoldInd,
         \/ \E cell \in Track : Move(cell)
         \/ \E cell \in Track : Jog(cell)
         \/ \E lsp \in BOOLEAN : HomeCommand(lsp)
         \/ Enable
  PROVE  HoldInd'
BY BeginHold DEF Move, Jog, HomeCommand, Enable, driveVars, flagVars, boundVars

LEMMA PowerOnHold ==
  ASSUME TypeOK, HoldInd, PowerOnSend \/ PowerOnConfirmed \/ PowerOnTimeout
  PROVE  HoldInd'
<1>1. /\ UNCHANGED <<pos, motion, mask, latch, stopping, clean, held>>
      /\ pc \in {"axisOn", "waitOn"} /\ pc' \in {"idle", "waitOn", "prepare"}
  BY DEF PowerOnSend, PowerOnConfirmed, PowerOnTimeout, Goto, driveVars, flagVars,
         histVars
<1> QED BY <1>1, QuietHold

LEMMA PrepareHold ==
  ASSUME TypeOK, HoldInd, Prepare
  PROVE  HoldInd'
<1>1. /\ UNCHANGED <<pos, motion, cmd, held>>
      /\ pc = "prepare" /\ pc' = "start"
      /\ stopping' = (stopping /\ cmd.op = "home")
  BY DEF Prepare, HoldAfterPrepare
<1>2. clean' => latch' = {}
  BY ClearedEvents DEF Prepare
<1> QED BY <1>1, <1>2 DEF HoldInd, LatchTellsPlace, ForcePlace, HoldInv

\* A move or a jog starts without the hold; home() goes on to the arming.
LEMMA StartHold ==
  ASSUME TypeOK, HoldInd, Start
  PROVE  HoldInd'
<1>1. PICK o \in Outcomes :
        Note(o) /\ Goto(IF o = "acked" /\ cmd.op = "home" THEN "arm" ELSE "idle")
  BY DEF Start
<1>2. (clean' => clean) /\ (held' => held /\ o = "acked")
  BY <1>1 DEF Note
<1>3. UNCHANGED <<pos, mask, latch, stopping>> /\ pc = "start"
  BY DEF Start, flagVars
<1>4. pc' \in {"arm", "idle"} /\ (held' /\ pc' = "idle" => cmd.op # "home")
  BY <1>1, <1>2 DEF Goto
<1>5. held' /\ pc' = "idle" => ~stopping'
  BY <1>3, <1>4 DEF HoldInd, HoldInv
<1> QED BY <1>2, <1>3, <1>4, <1>5 DEF HoldInd, LatchTellsPlace, ForcePlace, HoldInv, Live

LEMMA ArmHold ==
  ASSUME TypeOK, DisarmedForMotion, HoldInd, Arm
  PROVE  HoldInd'
<1>1. PICK o \in Outcomes :
        /\ Note(o)
        /\ o = "acked" => stopping' = FALSE
  BY DEF Arm
<1>2. /\ clean' => clean /\ o = "acked"
      /\ held' => held /\ o = "acked"
  BY <1>1 DEF Note
<1>3. UNCHANGED <<pos, motion, latch>> /\ pc = "arm" /\ pc' = "idle"
  BY DEF Arm, Goto
<1>4. clean => latch = {}
  BY <1>3 DEF DisarmedForMotion
<1> QED BY <1>1, <1>2, <1>3, <1>4 DEF HoldInd, LatchTellsPlace, ForcePlace, HoldInv, Live

LEMMA ZeroHold ==
  ASSUME TypeOK, HoldInd, ForceZero \/ PollZero
  PROVE  HoldInd'
<1>1. PICK o \in Outcomes : clean' = (o = "acked") /\ TS_ClearLimitSwitchEvent(o)
  BY DEF ForceZero, PollZero, ZeroHere
<1>2. clean' => latch' = {}
  BY <1>1, ClearedEvents
<1>3. UNCHANGED <<pos, motion, stopping, held>> /\ pc # "arm" /\ pc' = "idle"
  BY DEF ForceZero, PollZero, ZeroHere
<1> QED BY <1>2, <1>3 DEF HoldInd, LatchTellsPlace, ForcePlace, HoldInv

LEMMA StopHoldKeeps ==
  ASSUME TypeOK, HoldInd, Stop
  PROVE  HoldInd'
<1>1. PICK o \in Outcomes :
        /\ TS_ABORT(o) /\ StopDisarm(o) /\ held' = Executed(o)
        /\ clean' = IF homingActive THEN o = "acked" ELSE clean
  BY DEF Stop
<1>3. UNCHANGED pos /\ pc' = "idle"
  BY DEF Stop, ctlVars
<1>4. held' => motion' \in {"none", "stopping"}
  BY <1>1 DEF TS_ABORT, Halt, TypeOK
<1>5. clean' => latch' = {} \/ (clean /\ UNCHANGED <<mask, latch>>)
  BY <1>1, ClearedEvents DEF StopDisarm
<1> QED BY <1>3, <1>4, <1>5 DEF HoldInd, LatchTellsPlace, ForcePlace, HoldInv, Live

\* forceHome() zeroes the position only where MER shows the home switch, and MER
\* shows it only there.
LEMMA ForceHomeHold ==
  ASSUME TypeOK, HoldInd, ForceHome
  PROVE  HoldInd'
<1>1. PICK o \in Outcomes :
        IF o = "acked" /\ (IF UseLSP THEN "LSP" ELSE "LSN") \in MER
          THEN pc' = "forceZero" /\ atRest' = (motion = "none")
          ELSE Begin("home", Home(UseLSP))
  BY DEF ForceHome
<1>3. UNCHANGED <<pos, motion, mask, latch, stopping, clean, held>> /\ pc = "idle"
  BY DEF ForceHome, driveVars, flagVars
<1>4. CASE o = "acked" /\ (IF UseLSP THEN "LSP" ELSE "LSN") \in MER
  <2>1. clean => pos = Home(UseLSP)
    BY <1>4, MerIsLive, AxisAssumption DEF HoldInd, Live, Home
  <2> QED BY <1>1, <1>3, <1>4, <2>1
          DEF HoldInd, LatchTellsPlace, ForcePlace, HoldInv, Live
<1>5. CASE ~(o = "acked" /\ (IF UseLSP THEN "LSP" ELSE "LSN") \in MER)
  <2>1. Begin("home", Home(UseLSP))
    BY <1>1, <1>5
  <2> QED BY <2>1, <1>3, BeginHold
<1> QED BY <1>4, <1>5

\* The remaining commands and the poll leave the motor where it is.
LEMMA SettingsHold ==
  ASSUME TypeOK, HoldInd,
         (\E p \in Positions : SetPosition(p)) \/ ResetFault
  PROVE  HoldInd'
<1>1. UNCHANGED <<pos, motion, mask, stopping, pc, clean, held>> /\ pc = "idle"
  BY DEF SetPosition, ResetFault, flagVars, ctlVars, histVars
<1>2. latch' \in {{}, latch}
  BY DEF SetPosition, ResetFault
<1> QED BY <1>1, <1>2 DEF HoldInd, LatchTellsPlace, ForcePlace, HoldInv, Live

\* A power stage that goes down takes the motion with it.
LEMMA PowerDownHold ==
  ASSUME HoldInd, NEW off \in BOOLEAN, PowerDown(off), UNCHANGED <<pos, stopping, pc, cmd>>,
         UNCHANGED <<clean, held>>,
         UNCHANGED <<mask, latch>> \/ latch' = {},
         pc = "forceZero" => UNCHANGED atRest
  PROVE  HoldInd'
<1>1. motion' \in {"none", motion}
  BY DEF PowerDown, Halt
<1> QED BY <1>1 DEF HoldInd, LatchTellsPlace, ForcePlace, HoldInv, Live

LEMMA DisableHold ==
  ASSUME TypeOK, HoldInd, Disable
  PROVE  HoldInd'
<1>1. UNCHANGED <<pos, mask, latch, stopping, pc, cmd, clean, held>> /\ pc = "idle"
  BY DEF Disable, ctlVars
<1>2. PICK off \in BOOLEAN : PowerDown(off)
  <2>1. CASE powered
    BY <2>1 DEF Disable, Executed
  <2>2. CASE ~powered
    <3>1. PowerDown(FALSE)
      BY <2>2 DEF Disable, PowerDown, TypeOK
    <3> QED BY <3>1
  <2> QED BY <2>1, <2>2
<1> QED BY <1>1, <1>2, PowerDownHold

LEMMA ResetDriveHold ==
  ASSUME TypeOK, HoldInd, ResetDrive
  PROVE  HoldInd'
<1>1. PICK o \in Outcomes :
        /\ PowerDown(Executed(o))
        /\ mask' = IF Executed(o) THEN {} ELSE mask
        /\ latch' = IF Executed(o) THEN {} ELSE latch
  BY DEF ResetDrive
<1>2. UNCHANGED <<pos, stopping, pc, cmd, clean, held>> /\ pc = "idle"
  BY DEF ResetDrive, flagVars, ctlVars
<1>4. Executed(o) \in BOOLEAN
  BY DEF Executed
<1> QED BY <1>1, <1>2, <1>4, PowerDownHold

LEMMA PollHold ==
  ASSUME TypeOK, HoldInd, PollSrl \/ PollMer \/ PollPublish
  PROVE  HoldInd'
<1>1. /\ UNCHANGED <<pos, motion, mask, latch, cmd, clean, held>>
      /\ pc \in {"idle", "pollMer", "pollPublish"}
      /\ pc' \in {"pollMer", "pollPublish", "idle", "pollZero"}
  BY DEF PollSrl, PollMer, PollPublish, driveVars, histVars
<1>2. ~stopping => ~stopping'
  <2>1. stopping' = stopping \/ stopping' = (stopping /\ ~sample.mc)
    BY DEF PollSrl, PollMer, PollPublish, HoldAfterPoll, flagVars
  <2> QED BY <2>1
<1> QED BY <1>1, <1>2 DEF HoldInd, LatchTellsPlace, ForcePlace, HoldInv, Live

-----------------------------------------------------------------------------
\* The drive: a motor whose motion a latched bit blocks does not leave the switch.
LEMMA DriveHold ==
  ASSUME TypeOK, HoldInd, DriveStep
  PROVE  HoldInd'
<1>1. CASE DriveRise
  BY <1>1 DEF DriveRise, driverVars, flagVars, ctlVars, HoldInd, LatchTellsPlace, ForcePlace,
              HoldInv, Live
<1>2. CASE DriveStart \/ DriveEnd
  <2>1. /\ UNCHANGED <<pos, mask, latch, driverVars>>
        /\ motion # "none"
        /\ motion' = "none" \/ (motion = "starting" /\ motion' = "running")
    BY <1>2 DEF DriveStart, DriveEnd, Halt
  <2> QED BY <2>1 DEF driverVars, flagVars, ctlVars, HoldInd, LatchTellsPlace, ForcePlace,
                      HoldInv, Live
<1>3. CASE DriveMove
  <2>1. /\ UNCHANGED <<motion, mask, driverVars>> /\ motion = "running"
        /\ mask \cap MER = {}
        /\ latch' = latch \cup (mask \cap Live')
    BY <1>3 DEF DriveMove, Blocked, EventFires
  <2>2. clean => latch = {}
    BY <2>1 DEF HoldInd, LatchTellsPlace, MER
  <2>3. UNCHANGED <<stopping, pc, cmd, atRest, clean, held>>
    BY <2>1 DEF driverVars, flagVars, ctlVars
  <2>4. LatchTellsPlace'
    BY <2>1, <2>2, <2>3 DEF LatchTellsPlace
  <2> QED BY <2>1, <2>3, <2>4 DEF HoldInd, ForcePlace, HoldInv
<1>4. CASE DriveTrip
  <2>1. PowerDown(TRUE) /\ UNCHANGED <<pos, mask, latch, driverVars>>
    BY <1>4 DEF DriveTrip
  <2> QED BY <2>1, PowerDownHold DEF driverVars, flagVars, ctlVars
<1> QED BY <1>1, <1>2, <1>3, <1>4 DEF DriveStep, MotionStep

LEMMA HoldNext == TypeOK /\ DisarmedForMotion /\ HoldInd /\ [Next]_vars => HoldInd'
<1> SUFFICES ASSUME TypeOK, DisarmedForMotion, HoldInd, [Next]_vars
             PROVE  HoldInd'
  OBVIOUS
<1>1. CASE CommandStep
  BY <1>1, MotionCommandHold, DisableHold, StopHoldKeeps, ForceHomeHold, SettingsHold,
     ResetDriveHold
  DEF CommandStep
<1>2. CASE PollSrl
  BY <1>2, PollHold
<1>3. CASE HandlerStep
  BY <1>3, PowerOnHold, PrepareHold, StartHold, ArmHold, ZeroHold, PollHold
  DEF HandlerStep
<1>4. CASE DriveStep
  BY <1>4, DriveHold
<1>5. CASE UNCHANGED vars
  BY <1>5 DEF vars, driveVars, flagVars, ctlVars, boundVars, histVars, HoldInd,
              LatchTellsPlace, ForcePlace, HoldInv, Live
<1> QED BY <1>1, <1>2, <1>3, <1>4, <1>5 DEF Next

THEOREM HoldInvariance == Spec => []HoldInd
<1>1. IndInv => TypeOK /\ DisarmedForMotion
  BY DEF IndInv
<1> QED BY <1>1, HoldInit, HoldNext, Invariance, PTL DEF Spec

\* After a STOP0 that was executed the hold of stop() never hides a running motor,
\* but for the moment between the start of a homing and its arming.
THEOREM HoldIsHonest == Spec => []HoldHidesNoMotion
<1>1. HoldInd => HoldHidesNoMotion
  BY DEF HoldInd, HoldInv, HoldHidesNoMotion
<1> QED BY <1>1, HoldInvariance, PTL

\* forceHome() of a motor at rest sets position 0 at the home switch and nowhere
\* else: no bit that stayed in MER makes it take another place for home.
THEOREM ForcedHomeIsSound == Spec => ForcedHomeIsHome
<1>1. TypeOK /\ HoldInd /\ [Next]_vars =>
        [ForceZero /\ clean /\ clean' /\ atRest => pos = Home(UseLSP) /\ zero' = pos]_vars
  <2> SUFFICES ASSUME TypeOK, HoldInd, ForceZero, clean, clean', atRest
               PROVE  pos = Home(UseLSP) /\ zero' = pos
    OBVIOUS
  <2>1. PICK o \in Outcomes : clean' = (o = "acked") /\ TS_SetPosition(o, 0)
    BY DEF ForceZero, ZeroHere
  <2>2. Executed(o)
    BY <2>1 DEF Executed
  <2>3. pos = Home(UseLSP)
    BY <2>2 DEF ForceZero, HoldInd, ForcePlace
  <2>4. zero' = pos
    BY <2>1, <2>2 DEF TS_SetPosition, TypeOK, Track
  <2> QED BY <2>3, <2>4
<1> QED BY <1>1, TypeCorrect, HoldInvariance, PTL DEF Spec, ForcedHomeIsHome

=============================================================================
