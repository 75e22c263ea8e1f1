-------------------------------- MODULE FDC --------------------------------
(***************************************************************************)
(* The floppy disk controller (fdc.c, ST and MSA images): a machine of     *)
(* commands and states that a timer of CycInt.tla drives.  While it works, *)
(* the program may select another drive, write the registers, give another *)
(* command or start the DMA anew, and the user may change the disks.       *)
(*                                                                         *)
(* One call of FDC_InterruptHandler_Update runs states until one of them   *)
(* has a delay.  Each state is an action here; "immediate" says that the   *)
(* call is not over, and nothing but the controller moves until it is.     *)
(* Falling through to the next state is such an immediate step too.        *)
(***************************************************************************)
EXTENDS FdcDma, FiniteSetsExt

CONSTANTS
  Drives, Nothing,
  Commands,                \* commands that the program writes: see CommandSet
  BYTE,                    \* 256: the track, sector and data registers wrap
  FDC_PHYSICAL_MAX_TRACK,
  TracksPerDisk, SidesPerDisk, SectorsPerTrack,   \* of every image
  FDC_DELAY_IP_SPIN_UP, FDC_DELAY_IP_MOTOR_OFF, FDC_DELAY_IP_ADDRESS_ID,
  ID_SIZE, SECTOR_SIZE, TRACK_SIZE   \* bytes of an ID field, a sector, a track

Flags == {"NO_SPIN_UP", "VERIFY", "UPDATE_TRACK", "HEAD_LOAD", "MULTIPLE_SECTOR",
          "IMMEDIATE", "IP"}
TypeI == {"RESTORE", "SEEK", "STEP", "STEP_IN", "STEP_OUT"}
TypeII == {"READSECTORS", "WRITESECTORS"}
TypeIII == {"READADDRESS", "READTRACK", "WRITETRACK"}
CommandSet ==
  [op : TypeI \union TypeII \union TypeIII \union {"FORCE"}, flags : SUBSET Flags]

ASSUME FdcAssumption ==
  /\ Nothing \notin Drives
  /\ Commands \subseteq CommandSet
  /\ BYTE \in Nat \ {0}
  /\ FDC_PHYSICAL_MAX_TRACK \in Nat \ {0} /\ FDC_PHYSICAL_MAX_TRACK < BYTE
  /\ TracksPerDisk \in Nat \ {0} /\ SidesPerDisk \in {1, 2}
  /\ SectorsPerTrack \in Nat \ {0} /\ SectorsPerTrack < BYTE
  /\ FDC_DELAY_IP_SPIN_UP \in Nat \ {0} /\ FDC_DELAY_IP_MOTOR_OFF \in Nat \ {0}
  /\ FDC_DELAY_IP_ADDRESS_ID \in Nat \ {0}
  /\ ID_SIZE \in Nat \ {0} /\ SECTOR_SIZE \in Nat \ {0} /\ TRACK_SIZE \in Nat \ {0}

VARIABLES
  CR, STR, TR, SR, DR, StepDirection,
  Command, CommandState, ReplaceCommandPossible,
  immediate,            \* the last state had a delay of 0
  InterruptCond, IRQ_Signal,
  GPIP5,                \* the line to the MFP, "LOW" is a request
  IndexPulse_Counter,
  ID,                   \* NextSector_ID_Field_TR, _SR
  Buffer,               \* FDC_BUFFER: Size and PosRead
  DriveSelSignal, SideSignal,
  Enabled, Disk, HeadTrack,   \* of each drive
  Indexed,              \* IndexPulse_Time # 0, of each drive
  lag,                  \* is that time, of the selected drive, more than a turn ago?
  found,                \* history: the place on a disk whose header a command
                        \* recognised; Nothing when the program meddled since
  access                \* history: the place that this step reads or writes

regVars == <<CR, TR, SR, DR, StepDirection>>
irqVars == <<InterruptCond, IRQ_Signal, GPIP5>>
driveVars == <<DriveSelSignal, SideSignal, Enabled, Disk, HeadTrack, Indexed>>
stateVars == <<STR, Command, CommandState, ReplaceCommandPossible, immediate>>
dataVars == <<IndexPulse_Counter, ID, Buffer, found>>
vars == <<regVars, irqVars, driveVars, stateVars, dataVars, access, lag, dmaVars>>

Bytes == 0..(BYTE - 1)
Sides == {0, 1}
NoDisk == "none"          \* a disk is "none", "writable" or "protected"

FDC_GetCmdType(op) ==
  IF op \in TypeI THEN 1 ELSE IF op \in TypeII THEN 2
  ELSE IF op \in TypeIII THEN 3 ELSE 4

-----------------------------------------------------------------------------
(* The interrupt line, which the hard disk controller shares.              *)
SetIRQ(source, before) ==
  IF source = "HDC" THEN {"HDC"} ELSE (before \ {"HDC"}) \union {source}

FDC_SetIRQ(source, before) ==
  /\ IRQ_Signal' = SetIRQ(source, before)
  /\ GPIP5' = IF before = {} THEN "LOW" ELSE GPIP5

FDC_ClearIRQ(before) ==
  /\ IRQ_Signal' = before \intersect {"FORCED"}
  /\ GPIP5' = IF "FORCED" \in before THEN GPIP5 ELSE "HIGH"

(* A forced interrupt whose command is not in force any more can be        *)
(* cleared now.                                                            *)
ForcedOver ==
  IF "IMMEDIATE" \in InterruptCond THEN IRQ_Signal ELSE IRQ_Signal \ {"FORCED"}

(* A bug: the line is released although the floppy controller holds it.    *)
FDC_ClearHdcIRQ_Always ==
  /\ IRQ_Signal' = IRQ_Signal \ {"HDC"}
  /\ GPIP5' = "HIGH"

FDC_ClearHdcIRQ ==
  /\ IRQ_Signal' = IRQ_Signal \ {"HDC"}
  /\ GPIP5' = IF IRQ_Signal \subseteq {"HDC"} THEN "HIGH" ELSE GPIP5

-----------------------------------------------------------------------------
(* Drives and their index pulses.                                          *)
Selected == DriveSelSignal # Nothing
Ready == Selected /\ Enabled[DriveSelSignal] /\ Disk[DriveSelSignal] # NoDisk
Spinning == "MOTOR_ON" \in STR /\ Ready

(* The counter stops at a bound that it is nowhere compared beyond.        *)
PulseLimit ==
  Max({FDC_DELAY_IP_SPIN_UP, FDC_DELAY_IP_MOTOR_OFF, FDC_DELAY_IP_ADDRESS_ID})

(* The disk goes on turning in a drive that was disabled in the dialog,    *)
(* and nobody notices the pulses any more.  A wait for a header passes the *)
(* index only on its way to the first sector.                              *)
IndexPassesUnnoticed ==
  /\ ~immediate
  /\ lag = "none" /\ Selected /\ Indexed[DriveSelSignal] /\ ~Spinning
  /\ CommandState = "CHECK_HEADER" => ID.SR = 1
  /\ lag' = "behind"
  /\ access' = Nothing
  /\ UNCHANGED <<regVars, irqVars, driveVars, stateVars, dataVars, dmaVars>>

(* Each FDC_UpdateAll counts one pulse at most; it precedes every state    *)
(* and every access to a register.  A drive that was enabled again may     *)
(* have more of them to make up for.                                       *)
FDC_IndexPulse_Increase ==
  /\ ~immediate \/ lag = "behind"
  /\ Spinning /\ Indexed[DriveSelSignal]
  /\ lag' \in IF lag = "none" THEN {"none"} ELSE {"none", "counted"}
  /\ IndexPulse_Counter' =
       IndexPulse_Counter + (IF IndexPulse_Counter < PulseLimit THEN 1 ELSE 0)
  /\ access' = Nothing
  /\ IF "IP" \in InterruptCond THEN FDC_SetIRQ("INDEX", IRQ_Signal)
                               ELSE UNCHANGED <<IRQ_Signal, GPIP5>>
  /\ UNCHANGED <<regVars, InterruptCond, driveVars, stateVars, ID, Buffer, found, dmaVars>>

FDC_IndexPulse_Init ==
  /\ Spinning /\ ~Indexed[DriveSelSignal]
  /\ Indexed' = [Indexed EXCEPT ![DriveSelSignal] = TRUE] /\ lag' = "none"
  /\ access' = Nothing
  /\ UNCHANGED <<regVars, irqVars, DriveSelSignal, SideSignal, Enabled, Disk, HeadTrack,
                 stateVars, dataVars, dmaVars>>

(* FDC_UpdateAll leaves no drive that turns without a reference pulse.     *)
Updated == Spinning => Indexed[DriveSelSignal] /\ lag # "behind"

(* What is left for the next FDC_UpdateAll.                                *)
StillBehind == IF lag = "counted" THEN "behind" ELSE lag

(* Another drive or side.  The pulses of the drive are lost.               *)
FDC_SetDriveSide(d, side) ==
  /\ ~immediate
  /\ <<d, side>> # <<DriveSelSignal, SideSignal>>
  /\ DriveSelSignal' = d /\ SideSignal' = side
  /\ Indexed' = [x \in Drives |->
       IF d = DriveSelSignal THEN Indexed[x]
       ELSE IF x = d THEN Disk[x] # NoDisk /\ "MOTOR_ON" \in STR
       ELSE Indexed[x] /\ x # DriveSelSignal]
  /\ lag' = IF d = DriveSelSignal THEN lag ELSE "none"
  /\ access' = Nothing /\ found' = Nothing
  /\ UNCHANGED <<regVars, irqVars, Enabled, Disk, HeadTrack, stateVars,
                 IndexPulse_Counter, ID, Buffer, dmaVars>>

FDC_InsertFloppy(d, kind) ==
  /\ ~immediate
  /\ Disk[d] = NoDisk
  /\ Disk' = [Disk EXCEPT ![d] = kind]
  /\ Indexed' = [Indexed EXCEPT ![d] = "MOTOR_ON" \in STR]
  /\ lag' = IF d = DriveSelSignal THEN "none" ELSE lag
  /\ access' = Nothing
  /\ UNCHANGED <<regVars, irqVars, DriveSelSignal, SideSignal, Enabled, HeadTrack,
                 stateVars, dataVars, dmaVars>>

FDC_EjectFloppy(d) ==
  /\ ~immediate
  /\ Disk[d] # NoDisk
  /\ Disk' = [Disk EXCEPT ![d] = NoDisk]
  /\ Indexed' = [Indexed EXCEPT ![d] = FALSE]
  /\ lag' = IF d = DriveSelSignal THEN "none" ELSE lag
  /\ access' = Nothing
  /\ UNCHANGED <<regVars, irqVars, DriveSelSignal, SideSignal, Enabled, HeadTrack,
                 stateVars, dataVars, dmaVars>>

FDC_Drive_Set_Enable(d) ==
  /\ ~immediate
  /\ Enabled' = [Enabled EXCEPT ![d] = ~Enabled[d]]
  /\ access' = Nothing
  /\ UNCHANGED <<regVars, irqVars, DriveSelSignal, SideSignal, Disk, HeadTrack, Indexed,
                 stateVars, dataVars, lag, dmaVars>>

-----------------------------------------------------------------------------
(* What the program writes and reads.                                      *)

(* A bug: a command is replaced although it has moved the head.            *)
Accepted_Late(c) ==
  \/ "BUSY" \notin STR
  \/ FDC_GetCmdType(c.op) = 4
  \/ FDC_GetCmdType(c.op) \in {1, 2} /\ FDC_GetCmdType(CR.op) = FDC_GetCmdType(c.op)

Accepted(c) ==
  \/ "BUSY" \notin STR
  \/ FDC_GetCmdType(c.op) = 4
  \/ /\ ReplaceCommandPossible
     /\ FDC_GetCmdType(c.op) \in {1, 2} /\ FDC_GetCmdType(CR.op) = FDC_GetCmdType(c.op)

CommandOf(op) == IF op \in {"STEP_IN", "STEP_OUT"} THEN "STEP" ELSE op

(* Types I, II and III: FDC_ExecuteCommand and the FDC_Type... of the      *)
(* command.                                                                *)
FDC_ExecuteCommand(c) ==
  LET cleared == CASE FDC_GetCmdType(c.op) = 1 -> {"RNF"}
                   [] c.op = "WRITESECTORS" -> {"RNF", "LOST_DATA"}
                   [] OTHER -> {"RNF", "LOST_DATA", "WPRT"}
  IN  /\ c.op # "FORCE"
      /\ FDC_ClearIRQ(ForcedOver) /\ InterruptCond' = {}
      /\ Command' = CommandOf(c.op) /\ CommandState' = "START"
      /\ STR' = (STR \ cleared) \union {"BUSY"}
      /\ StepDirection' = CASE c.op = "STEP_IN" -> 1
                            [] c.op = "STEP_OUT" -> -1
                            [] OTHER -> StepDirection

ForcedStatus ==
  IF "BUSY" \in STR THEN STR \ {"BUSY"} ELSE STR \union {"MOTOR_ON"}

(* Type IV.  The motor is turned on if nothing was running.                *)
FDC_TypeIV_ForceInterrupt(c) ==
  /\ c.op = "FORCE"
  /\ InterruptCond' = c.flags \intersect {"IMMEDIATE", "IP"}
  /\ IF "IMMEDIATE" \in c.flags THEN FDC_SetIRQ("FORCED", ForcedOver)
                                ELSE FDC_ClearIRQ(ForcedOver)
  /\ Command' = "MOTOR_STOP" /\ CommandState' = "MOTOR_STOP"
  /\ STR' = ForcedStatus
  /\ UNCHANGED StepDirection

FDC_WriteCommandRegister(c) ==
  /\ ~immediate /\ Updated
  /\ Accepted(c)
  /\ CR' = c
  /\ FDC_ExecuteCommand(c) \/ FDC_TypeIV_ForceInterrupt(c)
  /\ ReplaceCommandPossible' = TRUE /\ lag' = StillBehind
  /\ access' = Nothing /\ found' = Nothing
  /\ UNCHANGED <<TR, SR, DR, immediate, driveVars, IndexPulse_Counter, ID, Buffer, dmaVars>>

(* The other registers can be written at any time.                         *)
FDC_WriteRegister(tr, sr, dr) ==
  /\ ~immediate /\ Updated
  /\ <<tr, sr, dr>> # <<TR, SR, DR>>
  /\ TR' = tr /\ SR' = sr /\ DR' = dr /\ lag' = StillBehind
  /\ access' = Nothing /\ found' = IF sr = SR THEN found ELSE Nothing
  /\ UNCHANGED <<CR, StepDirection, irqVars, driveVars, stateVars,
                 IndexPulse_Counter, ID, Buffer, dmaVars>>

FDC_ReadStatus ==
  /\ ~immediate /\ Updated
  /\ FDC_ClearIRQ(ForcedOver) /\ lag' = StillBehind
  /\ access' = Nothing
  /\ UNCHANGED <<regVars, InterruptCond, driveVars, stateVars, dataVars, dmaVars>>

(* The DMA chip: a new direction, a new sector count.                      *)
FDC_WriteDma ==
  /\ ~immediate
  /\ \/ FDC_DmaModeControl_WriteWord
     \/ \E n \in 0..MaxCount : FDC_WriteSectorCountRegister(n)
  /\ access' = Nothing
  /\ UNCHANGED <<regVars, irqVars, driveVars, stateVars, dataVars, lag>>

(* The hard disk controller asks for an interrupt, or its program has      *)
(* written the next byte of a command.                                     *)
HDC_IRQ ==
  /\ ~immediate
  /\ FDC_SetIRQ("HDC", IRQ_Signal) \/ FDC_ClearHdcIRQ
  /\ access' = Nothing
  /\ UNCHANGED <<regVars, InterruptCond, driveVars, stateVars, dataVars, lag, dmaVars>>

(* Also of the 68000 RESET instruction, which keeps TR and DR.             *)
FDC_Reset(bCold) ==
  /\ ~immediate
  /\ CR' = [op |-> "RESTORE", flags |-> {}] /\ STR' = {} /\ SR' = 1
  /\ IF bCold THEN TR' = 0 /\ DR' = 0 ELSE UNCHANGED <<TR, DR>>
  /\ StepDirection' = 1
  /\ Command' = "NULL" /\ CommandState' = "NULL"
  /\ InterruptCond' = {} /\ FDC_ClearIRQ({})
  /\ IndexPulse_Counter' = 0
  /\ Indexed' = [d \in Drives |-> FALSE] /\ lag' = "none"
  /\ Buffer' = [Size |-> 0, PosRead |-> 0]
  /\ writing' = FALSE /\ FDC_ResetDMA
  /\ access' = Nothing /\ found' = Nothing
  /\ UNCHANGED <<ReplaceCommandPossible, immediate, ID,
                 DriveSelSignal, SideSignal, Enabled, Disk, HeadTrack>>

-----------------------------------------------------------------------------
(* The states of the commands.  One that has to wait for a drive or for a  *)
(* pulse is looked at again later; that is no step here.                   *)
TypeICommands == {"RESTORE", "SEEK", "STEP"}
AllCommands == TypeICommands \union TypeII \union TypeIII
Sought == TypeII \union {"READADDRESS"}      \* look for a sector header
Tracks == {"READTRACK", "WRITETRACK"}

(* FDC_UpdateWriteSectorsCmd looks at the disk before every state.         *)
WriteRefused ==
  Command = "WRITESECTORS" /\ Ready /\ Disk[DriveSelSignal] = "protected"

Status == IF Command = "WRITESECTORS" THEN STR \ {"WPRT"} ELSE STR

Active(commands, state) ==
  Updated /\ ~WriteRefused /\ Command \in commands /\ CommandState = state

SpunUp(commands) ==
  Active(commands, "SPIN_UP") /\ IndexPulse_Counter >= FDC_DELAY_IP_SPIN_UP

(* Of the functions FDC_Update...Cmd, what no state of them changes.       *)
Elsewhere ==
  /\ UNCHANGED <<CR, DR, InterruptCond, DriveSelSignal, SideSignal, Enabled, Disk>>
  /\ lag' = StillBehind

Unmoved == UNCHANGED <<TR, SR, StepDirection, HeadTrack, Indexed>>

Continue(state, soon) ==
  CommandState' = state /\ immediate' = soon /\ UNCHANGED <<Command, IRQ_Signal, GPIP5>>

Go(state, soon) == Continue(state, soon) /\ STR' = Status

(* A bug: the state of the command that is over is kept.                   *)
StateAfter_Kept == CommandState

StateAfter == "MOTOR_STOP"

FDC_CmdCompleteCommon(bits) ==
  /\ STR' = (Status \ {"BUSY"}) \union bits
  /\ FDC_SetIRQ("COMPLETE", IRQ_Signal)
  /\ Command' = "MOTOR_STOP" /\ CommandState' = StateAfter /\ immediate' = TRUE

FDC_Set_MotorON ==
  LET spin == "NO_SPIN_UP" \notin CR.flags /\ "MOTOR_ON" \notin STR
  IN  /\ Active(AllCommands, "START")
      /\ \/ spin /\ Continue("SPIN_UP", FALSE)
         \/ ~spin /\ Continue(IF Command \in TypeICommands THEN "MOTOR_ON" ELSE "HEAD_LOAD", TRUE)
      /\ STR' = Status \union {"MOTOR_ON"}
      /\ IndexPulse_Counter' = IF spin THEN 0 ELSE IndexPulse_Counter
      /\ Indexed' = IF Ready THEN [Indexed EXCEPT ![DriveSelSignal] = TRUE] ELSE Indexed
      /\ lag' = IF Ready THEN "none" ELSE lag
      /\ access' = Nothing
      /\ UNCHANGED <<CR, DR, InterruptCond, DriveSelSignal, SideSignal, Enabled, Disk,
                     TR, SR, StepDirection, HeadTrack, ReplaceCommandPossible, ID, Buffer,
                     found, dmaVars>>

(* Types II and III wait for the head, or fall through to MOTOR_ON.        *)
AtHeadLoad == SpunUp(TypeII \union TypeIII) \/ Active(TypeII \union TypeIII, "HEAD_LOAD")

HeadLoad ==
  /\ AtHeadLoad /\ "HEAD_LOAD" \in CR.flags
  /\ Go("MOTOR_ON", FALSE)
  /\ ReplaceCommandPossible' = (ReplaceCommandPossible /\ Command \notin TypeIII)
  /\ access' = Nothing
  /\ Elsewhere /\ Unmoved /\ UNCHANGED <<dataVars, dmaVars>>

AtMotorOn ==
  \/ AtHeadLoad /\ "HEAD_LOAD" \notin CR.flags
  \/ Active(TypeII \union TypeIII, "MOTOR_ON")

(* From here on a command cannot be replaced.                              *)
Sought_MotorOn ==
  /\ AtMotorOn /\ Command \in Sought
  /\ IF Selected THEN Go("NEXT_HEADER", TRUE) ELSE Go(CommandState, FALSE)
  /\ ReplaceCommandPossible' = FALSE /\ IndexPulse_Counter' = 0
  /\ access' = Nothing
  /\ Elsewhere /\ Unmoved /\ UNCHANGED <<ID, Buffer, found, dmaVars>>

Tracks_MotorOn ==
  /\ AtMotorOn /\ Command \in Tracks
  /\ IF Selected /\ Indexed[DriveSelSignal] THEN Go("INDEX", FALSE) ELSE Go(CommandState, FALSE)
  /\ ReplaceCommandPossible' = FALSE
  /\ access' = Nothing
  /\ Elsewhere /\ Unmoved /\ UNCHANGED <<dataVars, dmaVars>>

-----------------------------------------------------------------------------
(* Type I: the head moves.                                                 *)
Moving == Selected /\ Enabled[DriveSelSignal]

(* A bug: the head does not stop at track 0.                               *)
Blocked_Outer(direction) ==
  Moving /\ direction = 1 /\ HeadTrack[DriveSelSignal] = FDC_PHYSICAL_MAX_TRACK

Blocked(direction) ==
  Moving /\ HeadTrack[DriveSelSignal] = (IF direction = 1 THEN FDC_PHYSICAL_MAX_TRACK ELSE 0)
Moved(direction) ==
  IF Moving /\ ~Blocked(direction)
  THEN [HeadTrack EXCEPT ![DriveSelSignal] = HeadTrack[DriveSelSignal] + direction]
  ELSE HeadTrack

AtMotorOnI(commands) == SpunUp(commands) \/ Active(commands, "MOTOR_ON")

Restore_MotorOn ==
  /\ AtMotorOnI({"RESTORE"})
  /\ Go("LOOP", TRUE)
  /\ TR' = BYTE - 1 /\ ReplaceCommandPossible' = FALSE
  /\ access' = Nothing
  /\ Elsewhere
  /\ UNCHANGED <<SR, StepDirection, HeadTrack, Indexed, dataVars, dmaVars>>

(* Track 0 not found after so many steps, one more step, or found.         *)
Restore_Loop ==
  /\ Active({"RESTORE"}, "LOOP")
  /\ \/ TR = 0 /\ FDC_CmdCompleteCommon({"RNF"}) /\ UNCHANGED <<TR, HeadTrack>>
     \/ /\ TR # 0 /\ ~Blocked(-1)
        /\ Go("LOOP", FALSE)
        /\ TR' = TR - 1 /\ HeadTrack' = Moved(-1)
     \/ TR # 0 /\ Blocked(-1) /\ Go("VERIFY", TRUE) /\ TR' = 0 /\ UNCHANGED HeadTrack
  /\ access' = Nothing
  /\ Elsewhere
  /\ UNCHANGED <<SR, StepDirection, Indexed, ReplaceCommandPossible, dataVars, dmaVars>>

FDC_UpdateSeekCmd ==
  LET direction == IF DR < TR THEN -1 ELSE 1
  IN  /\ AtMotorOnI({"SEEK"})
      /\ \/ TR = DR /\ Go("VERIFY", TRUE) /\ UNCHANGED <<TR, StepDirection, HeadTrack>>
         \/ /\ TR # DR
            /\ StepDirection' = direction /\ HeadTrack' = Moved(direction)
            /\ TR' = IF direction = -1 /\ Blocked(-1) THEN 0 ELSE TR + direction
            /\ IF Blocked(direction) THEN Go("VERIFY", TRUE) ELSE Go(CommandState, FALSE)
      /\ ReplaceCommandPossible' = FALSE
      /\ access' = Nothing
      /\ Elsewhere /\ UNCHANGED <<SR, Indexed, dataVars, dmaVars>>

FDC_UpdateStepCmd ==
  /\ AtMotorOnI({"STEP"})
  /\ Go("VERIFY", Blocked(StepDirection))
  /\ TR' = IF "UPDATE_TRACK" \in CR.flags THEN (TR + StepDirection) % BYTE ELSE TR
  /\ HeadTrack' = Moved(StepDirection)
  /\ ReplaceCommandPossible' = FALSE
  /\ access' = Nothing
  /\ Elsewhere /\ UNCHANGED <<SR, StepDirection, Indexed, dataVars, dmaVars>>

Verify ==
  /\ Active(TypeICommands, "VERIFY")
  /\ Go(IF "VERIFY" \in CR.flags THEN "HEAD_OK" ELSE "COMPLETE", FALSE)
  /\ access' = Nothing
  /\ Elsewhere /\ Unmoved /\ UNCHANGED <<ReplaceCommandPossible, dataVars, dmaVars>>

Verify_HeadOk ==
  /\ Active(TypeICommands, "HEAD_OK")
  /\ Go("NEXT_HEADER", TRUE)
  /\ IndexPulse_Counter' = 0
  /\ access' = Nothing
  /\ Elsewhere /\ Unmoved
  /\ UNCHANGED <<ReplaceCommandPossible, ID, Buffer, found, dmaVars>>

-----------------------------------------------------------------------------
(* Sector headers.  Which one comes next depends on the position of the    *)
(* disk.  A position of more than a turn (FDC_IndexPulse_GetCurrentPos...) *)
(* is behind every header: FDC_NextSectorID_FdcCycles_ST gives the first   *)
(* one, with a wait of no bytes or fewer if that has passed as well.       *)
HeaderPasses ==
  /\ Selected /\ Indexed[DriveSelSignal]
  /\ Disk[DriveSelSignal] # NoDisk /\ HeadTrack[DriveSelSignal] < TracksPerDisk

(* A bug: as long as headers pass, the search goes on.                     *)
NotFound_Waiting ==
  IndexPulse_Counter >= FDC_DELAY_IP_ADDRESS_ID /\ ~HeaderPasses

NotFound == IndexPulse_Counter >= FDC_DELAY_IP_ADDRESS_ID

NextHeader ==
  /\ Active(TypeICommands \union Sought, "NEXT_HEADER")
  /\ \/ /\ NotFound
        /\ IF Command \in TypeICommands
           THEN Continue("COMPLETE", FALSE) /\ STR' = Status \union {"RNF"}
           ELSE Go("RNF", TRUE)
        /\ UNCHANGED ID
     \/ /\ ~NotFound /\ HeaderPasses
        /\ \E s \in 1..SectorsPerTrack, soon \in BOOLEAN :
             /\ (lag = "none" /\ ~soon) \/ (lag # "none" /\ s = 1)
             /\ Go(IF Command = "READADDRESS" THEN "TRANSFER_START" ELSE "CHECK_HEADER", soon)
             /\ ID' = [TR |-> HeadTrack[DriveSelSignal], SR |-> s]
     \/ /\ ~NotFound /\ ~HeaderPasses
        /\ Go("NEXT_HEADER", FALSE)
        /\ UNCHANGED ID
  /\ access' = Nothing
  /\ Elsewhere /\ Unmoved
  /\ UNCHANGED <<ReplaceCommandPossible, IndexPulse_Counter, Buffer, found, dmaVars>>

FDC_VerifyTrack ==
  /\ Active(TypeICommands, "CHECK_HEADER")
  /\ IF Ready /\ ID.TR = TR /\ (SideSignal = 1 => SidesPerDisk = 2)
     THEN Continue("COMPLETE", FALSE) /\ STR' = STR \ {"RNF"}
     ELSE Go("NEXT_HEADER", TRUE)
  /\ access' = Nothing
  /\ Elsewhere /\ Unmoved /\ UNCHANGED <<ReplaceCommandPossible, dataVars, dmaVars>>

(* The place that a transfer accesses.                                     *)
Place ==
  [drive |-> DriveSelSignal, side |-> SideSignal, track |-> HeadTrack[DriveSelSignal],
   sector |-> SR]

(* A bug: any header of the track will do.                                 *)
HeaderMatches_Track == ID.TR = TR

HeaderMatches == ID = [TR |-> TR, SR |-> SR]

CheckHeader ==
  /\ Active(TypeII, "CHECK_HEADER") /\ Selected
  /\ IF HeaderMatches
     THEN Go("TRANSFER_START", FALSE) /\ found' = [Place EXCEPT !.sector = ID.SR]
     ELSE Go("NEXT_HEADER", TRUE) /\ UNCHANGED found
  /\ access' = Nothing
  /\ Elsewhere /\ Unmoved
  /\ UNCHANGED <<ReplaceCommandPossible, IndexPulse_Counter, ID, Buffer, dmaVars>>

-----------------------------------------------------------------------------
(* Transfers.                                                              *)
OnDisk ==
  /\ Selected /\ Disk[DriveSelSignal] # NoDisk
  /\ HeadTrack[DriveSelSignal] < TracksPerDisk /\ SideSignal < SidesPerDisk
  /\ SR \in 1..SectorsPerTrack

FDC_ReadSector_ST ==
  /\ Active({"READSECTORS"}, "TRANSFER_START") /\ Selected
  /\ \/ /\ OnDisk
        /\ Go("TRANSFER_LOOP", FALSE)
        /\ Buffer' = [Size |-> SECTOR_SIZE, PosRead |-> 0]
        /\ access' = Place
     \/ /\ ~OnDisk
        /\ Go("RNF", TRUE)
        /\ Buffer' = [Size |-> 0, PosRead |-> 0]
        /\ access' = Nothing
  /\ Elsewhere /\ Unmoved
  /\ UNCHANGED <<ReplaceCommandPossible, IndexPulse_Counter, ID, found, dmaVars>>

(* The disk may be another one than that of the header: then the buffer is *)
(* left empty, and what it held before is used.                            *)
FDC_ReadAddress_ST ==
  /\ Active({"READADDRESS"}, "TRANSFER_START") /\ Selected
  /\ IF Disk[DriveSelSignal] # NoDisk /\ HeadTrack[DriveSelSignal] < TracksPerDisk
     THEN /\ Buffer' = [Size |-> ID_SIZE, PosRead |-> 0]
          /\ SR' = HeadTrack[DriveSelSignal]
          /\ Go("TRANSFER_LOOP", FALSE)
     ELSE /\ Buffer' = [Size |-> 0, PosRead |-> 0]
          /\ SR' \in Bytes
          /\ \E soon \in BOOLEAN : Go("TRANSFER_LOOP", soon)
  /\ access' = Nothing
  /\ Elsewhere
  /\ UNCHANGED <<TR, StepDirection, HeadTrack, Indexed, ReplaceCommandPossible,
                 IndexPulse_Counter, ID, found, dmaVars>>

FDC_ReadTrack_ST ==
  /\ Active({"READTRACK"}, "INDEX") /\ Selected
  /\ Go("TRANSFER_LOOP", FALSE)
  /\ Buffer' = [Size |-> TRACK_SIZE, PosRead |-> 0]
  /\ access' = Nothing
  /\ Elsewhere /\ Unmoved
  /\ UNCHANGED <<ReplaceCommandPossible, IndexPulse_Counter, ID, found, dmaVars>>

TransferToDma ==
  LET last == Buffer.PosRead + 1 >= Buffer.Size
  IN  /\ Active({"READSECTORS", "READADDRESS", "READTRACK"}, "TRANSFER_LOOP")
      /\ FDC_DMA_FIFO_Push /\ UNCHANGED <<BytesToTransfer, writing>>
      /\ Buffer' = [Buffer EXCEPT !.PosRead = Buffer.PosRead + 1]
      /\ Go(IF ~last THEN "TRANSFER_LOOP"
            ELSE IF Command = "READSECTORS" THEN "CRC" ELSE "COMPLETE", FALSE)
      /\ access' = Nothing
      /\ Elsewhere /\ Unmoved
      /\ UNCHANGED <<ReplaceCommandPossible, IndexPulse_Counter, ID, found>>

WriteSector_Start ==
  /\ Active({"WRITESECTORS"}, "TRANSFER_START") /\ Selected
  /\ Go("TRANSFER_LOOP", TRUE)
  /\ Buffer' = [Size |-> 0, PosRead |-> 0] /\ BytesToTransfer' = SECTOR_SIZE
  /\ access' = Nothing
  /\ Elsewhere /\ Unmoved
  /\ UNCHANGED <<ReplaceCommandPossible, IndexPulse_Counter, ID, found, SectorCount,
                 BytesInSector, FIFO_Size, writing, granted, moved>>

WriteTrack_Start ==
  /\ Active({"WRITETRACK"}, "INDEX") /\ Selected
  /\ IF Disk[DriveSelSignal] = "protected"
     THEN FDC_CmdCompleteCommon({"WPRT"}) /\ UNCHANGED <<Buffer, BytesToTransfer>>
     ELSE /\ Continue("TRANSFER_LOOP", TRUE) /\ STR' = STR \ {"WPRT"}
          /\ Buffer' = [Size |-> 0, PosRead |-> 0] /\ BytesToTransfer' = TRACK_SIZE
  /\ access' = Nothing
  /\ Elsewhere /\ Unmoved
  /\ UNCHANGED <<ReplaceCommandPossible, IndexPulse_Counter, ID, found, SectorCount,
                 BytesInSector, FIFO_Size, writing, granted, moved>>

TransferFromDma ==
  /\ Active({"WRITESECTORS", "WRITETRACK"}, "TRANSFER_LOOP")
  /\ BytesToTransfer' = BytesToTransfer - 1 /\ UNCHANGED writing
  /\ \/ /\ BytesToTransfer > 0
        /\ Go("TRANSFER_LOOP", FALSE)
        /\ FDC_DMA_FIFO_Pull
        /\ Buffer' = [Buffer EXCEPT !.Size = Buffer.Size + 1]
     \/ /\ BytesToTransfer <= 0
        /\ IF Command = "WRITESECTORS" THEN Go("CRC", FALSE) ELSE Go("COMPLETE", TRUE)
        /\ UNCHANGED <<SectorCount, BytesInSector, FIFO_Size, granted, moved, Buffer>>
  /\ access' = Nothing
  /\ Elsewhere /\ Unmoved
  /\ UNCHANGED <<ReplaceCommandPossible, IndexPulse_Counter, ID, found>>

Read_Crc ==
  /\ Active({"READSECTORS"}, "CRC")
  /\ Go("MULTI", TRUE)
  /\ access' = Nothing
  /\ Elsewhere /\ Unmoved /\ UNCHANGED <<ReplaceCommandPossible, dataVars, dmaVars>>

(* The sector is stored.  With no drive selected the tables of the drives  *)
(* are read outside of their bounds: the outcome can be either.            *)
FDC_WriteSector_ST ==
  /\ Active({"WRITESECTORS"}, "CRC")
  /\ \/ OnDisk /\ Disk[DriveSelSignal] = "writable" /\ Go("MULTI", TRUE) /\ access' = Place
     \/ Selected /\ ~(OnDisk /\ Disk[DriveSelSignal] = "writable") /\ Go("RNF", TRUE) /\ access' = Nothing
     \/ /\ ~Selected
        /\ \E state \in {"MULTI", "RNF"} : Go(state, TRUE)
        /\ access' = Nothing
  /\ Elsewhere /\ Unmoved /\ UNCHANGED <<ReplaceCommandPossible, dataVars, dmaVars>>

(* The next sector, or the end.                                            *)
Multi ==
  /\ Active(TypeII, "MULTI")
  /\ \/ /\ "MULTIPLE_SECTOR" \in CR.flags
        /\ SR' = (SR + 1) % BYTE
        /\ IF Command = "READSECTORS"
           THEN Go("NEXT_HEADER", TRUE) /\ IndexPulse_Counter' = 0
           ELSE Go("MOTOR_ON", TRUE) /\ UNCHANGED IndexPulse_Counter
     \/ /\ "MULTIPLE_SECTOR" \notin CR.flags
        /\ Go("COMPLETE", FALSE)
        /\ UNCHANGED <<SR, IndexPulse_Counter>>
  /\ access' = Nothing
  /\ Elsewhere
  /\ UNCHANGED <<TR, StepDirection, HeadTrack, Indexed, ReplaceCommandPossible, ID, Buffer,
                 found, dmaVars>>

(* The end of a command: no sector, a disk that is protected, or success.  *)
(* Writing a track to an image is not supported.                           *)
Finish ==
  /\ \/ Active(Sought, "RNF") /\ FDC_CmdCompleteCommon({"RNF"})
     \/ Active(AllCommands \ {"WRITETRACK"}, "COMPLETE") /\ FDC_CmdCompleteCommon({})
     \/ Active({"WRITETRACK"}, "COMPLETE") /\ FDC_CmdCompleteCommon({"LOST_DATA"})
     \/ Updated /\ WriteRefused /\ FDC_CmdCompleteCommon({"WPRT"})
  /\ access' = Nothing
  /\ Elsewhere /\ Unmoved /\ UNCHANGED <<ReplaceCommandPossible, dataVars, dmaVars>>

-----------------------------------------------------------------------------
(* The motor turns for some pulses more.                                   *)
MotorStop ==
  /\ Active({"MOTOR_STOP"}, "MOTOR_STOP")
  /\ Go("MOTOR_STOP_WAIT", FALSE)
  /\ IndexPulse_Counter' = 0
  /\ access' = Nothing
  /\ Elsewhere /\ Unmoved
  /\ UNCHANGED <<ReplaceCommandPossible, ID, Buffer, found, dmaVars>>

MotorStopped ==
  /\ Active({"MOTOR_STOP"}, "MOTOR_STOP_WAIT")
  /\ IndexPulse_Counter >= FDC_DELAY_IP_MOTOR_OFF
  /\ STR' = STR \ {"MOTOR_ON"} /\ Command' = "NULL" /\ immediate' = FALSE
  /\ IndexPulse_Counter' = 0
  /\ Indexed' = [d \in Drives |-> Indexed[d] /\ d # DriveSelSignal] /\ lag' = "none"
  /\ access' = Nothing
  /\ UNCHANGED <<CR, DR, InterruptCond, DriveSelSignal, SideSignal, Enabled, Disk,
                 TR, SR, StepDirection, HeadTrack, CommandState, ReplaceCommandPossible,
                 IRQ_Signal, GPIP5, ID, Buffer, found, dmaVars>>

-----------------------------------------------------------------------------
Init ==
  /\ CR = [op |-> "RESTORE", flags |-> {}] /\ STR = {}
  /\ TR = 0 /\ SR = 1 /\ DR = 0 /\ StepDirection = 1
  /\ Command = "NULL" /\ CommandState = "NULL"
  /\ ReplaceCommandPossible = FALSE /\ immediate = FALSE
  /\ InterruptCond = {} /\ IRQ_Signal = {} /\ GPIP5 = "HIGH"
  /\ IndexPulse_Counter = 0
  /\ ID = [TR |-> 0, SR |-> 0] /\ Buffer = [Size |-> 0, PosRead |-> 0] /\ found = Nothing
  /\ DriveSelSignal \in Drives \union {Nothing} /\ SideSignal = 0
  /\ Enabled = [d \in Drives |-> TRUE]
  /\ Disk \in [Drives -> {NoDisk, "writable", "protected"}]
  /\ HeadTrack = [d \in Drives |-> 0] /\ Indexed = [d \in Drives |-> FALSE] /\ lag = "none"
  /\ access = Nothing
  /\ DmaInit

(* What the timer of the controller runs, and the turning disks.           *)
FDC_InterruptHandler_Update ==
  \/ FDC_Set_MotorON \/ HeadLoad \/ Sought_MotorOn \/ Tracks_MotorOn
  \/ Restore_MotorOn \/ Restore_Loop \/ FDC_UpdateSeekCmd \/ FDC_UpdateStepCmd
  \/ Verify \/ Verify_HeadOk \/ NextHeader \/ FDC_VerifyTrack \/ CheckHeader
  \/ FDC_ReadSector_ST \/ FDC_ReadAddress_ST \/ FDC_ReadTrack_ST \/ TransferToDma
  \/ WriteSector_Start \/ WriteTrack_Start \/ TransferFromDma
  \/ Read_Crc \/ FDC_WriteSector_ST \/ Multi \/ Finish
  \/ MotorStop \/ MotorStopped

Machine ==
  \/ FDC_InterruptHandler_Update
  \/ FDC_IndexPulse_Increase \/ FDC_IndexPulse_Init \/ IndexPassesUnnoticed

(* The program, the hard disk controller and the user.                     *)
Outside ==
  \/ \E c \in Commands : FDC_WriteCommandRegister(c)
  \/ \E b \in Bytes : \/ FDC_WriteRegister(b, SR, DR)
                      \/ FDC_WriteRegister(TR, b, DR)
                      \/ FDC_WriteRegister(TR, SR, b)
  \/ FDC_ReadStatus \/ FDC_WriteDma \/ HDC_IRQ
  \/ \E d \in Drives \union {Nothing}, side \in Sides : FDC_SetDriveSide(d, side)
  \/ \E d \in Drives : \/ \E kind \in {"writable", "protected"} : FDC_InsertFloppy(d, kind)
                       \/ FDC_EjectFloppy(d)
                       \/ FDC_Drive_Set_Enable(d)
  \/ \E bCold \in BOOLEAN : FDC_Reset(bCold)

Next == Machine \/ Outside

Spec == Init /\ [][Next]_vars

(* The timer of the controller expires, and a disk that turns comes to its *)
(* index hole: not within a call of the controller, hence SF, but the time *)
(* between its calls adds up to a turn of the disk.                        *)
Fairness ==
  /\ WF_vars(FDC_InterruptHandler_Update) /\ WF_vars(FDC_IndexPulse_Init)
  /\ SF_vars(FDC_IndexPulse_Increase)

-----------------------------------------------------------------------------
States == {"NULL", "START", "SPIN_UP", "HEAD_LOAD", "MOTOR_ON", "LOOP", "VERIFY", "HEAD_OK",
           "NEXT_HEADER", "CHECK_HEADER", "TRANSFER_START", "INDEX", "TRANSFER_LOOP", "CRC",
           "MULTI", "RNF", "COMPLETE", "MOTOR_STOP", "MOTOR_STOP_WAIT"}

Places == [drive : Drives, side : Sides, track : 0..FDC_PHYSICAL_MAX_TRACK, sector : Nat]

RegistersOK ==
  /\ CR \in CommandSet
  /\ TR \in Bytes /\ SR \in Bytes /\ DR \in Bytes
  /\ StepDirection \in {-1, 1}

InterruptsOK ==
  /\ InterruptCond \subseteq Flags
  /\ IRQ_Signal \subseteq {"COMPLETE", "INDEX", "FORCED", "HDC"}
  /\ GPIP5 \in {"LOW", "HIGH"}

StatesOK ==
  /\ STR \subseteq {"BUSY", "MOTOR_ON", "RNF", "WPRT", "LOST_DATA"}
  /\ Command \in AllCommands \union {"NULL", "MOTOR_STOP"} /\ CommandState \in States

DrivesOK ==
  /\ DriveSelSignal \in Drives \union {Nothing} /\ SideSignal \in Sides
  /\ Disk \in [Drives -> {NoDisk, "writable", "protected"}]
  /\ HeadTrack \in [Drives -> 0..FDC_PHYSICAL_MAX_TRACK]
  /\ lag \in {"none", "behind", "counted"}

SwitchesOK ==
  /\ ReplaceCommandPossible \in BOOLEAN /\ immediate \in BOOLEAN /\ writing \in BOOLEAN
  /\ Enabled \in [Drives -> BOOLEAN] /\ Indexed \in [Drives -> BOOLEAN]

DataOK ==
  /\ IndexPulse_Counter \in Nat
  /\ ID \in [TR : Nat, SR : Nat] /\ Buffer \in [Size : Nat, PosRead : Nat]
  /\ found \in Places \union {Nothing} /\ access \in Places \union {Nothing}

(* The registers are bytes, the head stays on the tracks that the drive    *)
(* can reach (fdc.c, FDC_UpdateRestoreCmd, FDC_UpdateSeekCmd and           *)
(* FDC_UpdateStepCmd), whichever drive is selected while it moves.         *)
FdcTypeOK ==
  RegistersOK /\ InterruptsOK /\ StatesOK /\ DrivesOK /\ SwitchesOK /\ DataOK /\ DmaTypeOK

(* A program waits for the end of a command on the busy bit (fdc.c,        *)
(* FDC_CmdCompleteCommon, FDC_TypeIV_ForceInterrupt): it is set exactly    *)
(* while a command runs, however the command ended or was replaced.        *)
BusyRuns == "BUSY" \in STR <=> Command \in AllCommands

(* The line to the MFP asks for an interrupt exactly while a source of one *)
(* is recorded (fdc.c, FDC_SetIRQ, FDC_ClearIRQ, FDC_ClearHdcIRQ), for     *)
(* both controllers that share it and in every order of their requests.    *)
IrqLine == GPIP5 = "LOW" <=> IRQ_Signal # {}

(* A sector is read or written where its header was recognised, many       *)
(* events before for a write (fdc.c, FDC_UpdateWriteSectorsCmd): on that   *)
(* drive, side and track, also for the further sectors of a multiple       *)
(* command.  Unless the program has selected another drive or side or has  *)
(* written the sector register since.                                      *)
SectorMeant == access # Nothing /\ found # Nothing => access = found

(* Once the bytes of a sector or of a track pass, the command is not       *)
(* started anew by another one (fdc.c, FDC_WriteCommandRegister): only the *)
(* replacement of a command that has not moved anything is allowed.        *)
NotReplaced ==
  [][CommandState' = "START" =>
       CommandState \notin {"TRANSFER_START", "TRANSFER_LOOP", "CRC"}]_vars

(* What the program is promised (FdcPort.tla; fdc.c, FDC_UpdateAll,        *)
(* FDC_WriteCommandRegister, FDC_CmdCompleteCommon, FDC_SetIRQ,            *)
(* FDC_ClearIRQ): a command is replaced only by one of its type and before *)
(* it moves anything, the busy bit falls with the interrupt of the end or  *)
(* because the program forced or reset the controller, a command starts    *)
(* with no interrupt of an earlier one, and pulses ask only on request.    *)
Port == INSTANCE FdcPort WITH
  type <- IF Command \in AllCommands THEN FDC_GetCmdType(Command) ELSE 0,
  committed <- Command \in AllCommands /\ ~ReplaceCommandPossible,
  busy <- "BUSY" \in STR,
  conditions <- InterruptCond,
  sources <- IRQ_Signal,
  line <- GPIP5 = "LOW"

ImplementsPort == Port!Spec

(* A program that waits for the line instead is not shown the end of an    *)
(* earlier command (fdc.c, FDC_ExecuteCommand, FDC_CmdCompleteCommon):     *)
(* while a command runs, the end of none is recorded as a source.          *)
NoStaleEnd == Command \in AllCommands => "COMPLETE" \notin IRQ_Signal

(* A command whose drive has a disk to work on.                           *)
Served == Ready /\ Command \in AllCommands

Searching == CommandState \in {"NEXT_HEADER", "CHECK_HEADER"}

(* The command still counts pulses: until the disk is up to speed, or for  *)
(* as long as it looks for a header.                                       *)
Counts ==
  \/ CommandState = "SPIN_UP" /\ IndexPulse_Counter < FDC_DELAY_IP_SPIN_UP
  \/ Searching /\ ~NotFound

(* The controller is never stuck (fdc.c, FDC_InterruptHandler_Update): a   *)
(* drive that turns gets its reference pulse, and the pulses of a drive    *)
(* that was enabled again are made up for; with them the state that a      *)
(* call reached can run, and so can every state of a command that has a    *)
(* disk and does not wait for pulses; and the pulses that it waits for do  *)
(* come.  Whatever the drive, the registers and the DMA hold by then.      *)
Able ==
  /\ Spinning /\ ~Indexed[DriveSelSignal] => ENABLED <<FDC_IndexPulse_Init>>_vars
  /\ Spinning /\ Indexed[DriveSelSignal] /\ lag = "behind" =>
       ENABLED <<FDC_IndexPulse_Increase>>_vars
  /\ Updated /\ (immediate \/ (Served /\ ~Counts)) => ENABLED <<FDC_InterruptHandler_Update>>_vars
  /\ Updated /\ ~immediate /\ Served /\ Counts => ENABLED <<FDC_IndexPulse_Increase>>_vars

(* The search of a header in a drive that was disabled: its pulses are not *)
(* counted, and its first sector passes again and again without a delay.   *)
Astray == immediate /\ Searching /\ ~Ready /\ lag # "none"

(* The loop of FDC_InterruptHandler_Update, during which the emulator does *)
(* nothing else, ends: no state goes on at once for ever, also with pulses *)
(* to make up for.  Astray is where it does not (README).                  *)
LoopEnds == immediate ~> ~immediate \/ Astray

(* fdc.c:155: commands "will wait forever until the drive is enabled again *)
(* or a floppy is inserted ; at this point the command will complete as    *)
(* usual".  With a disk in the drive at last, the controller comes to be   *)
(* idle again.  A call that went astray is before that "at last": nobody   *)
(* can enable the drive again during it.                                   *)
CommandsEnd == <>[]Ready => []<>("BUSY" \notin STR)
=============================================================================
