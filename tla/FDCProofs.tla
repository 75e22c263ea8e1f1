------------------------------ MODULE FDCProofs ------------------------------
(* What holds of the floppy disk controller for every set of drives and    *)
(* commands, every size of a sector, a FIFO and a register.                *)
EXTENDS FDC, TLAPS

(* The turning of the disks.                                               *)
PulseStep == FDC_IndexPulse_Increase \/ FDC_IndexPulse_Init \/ IndexPassesUnnoticed

(* The machine starts with registers, drives and counters of their types.  *)
LEMMA InitType == Init => FdcTypeOK
<1> SUFFICES ASSUME Init PROVE FdcTypeOK
  OBVIOUS
<1> USE FdcAssumption, DmaAssumption DEF Init
<1>1. RegistersOK
  BY DEF RegistersOK, CommandSet, TypeI, Bytes
<1>2. InterruptsOK /\ StatesOK
  BY DEF InterruptsOK, StatesOK, States
<1>3. DrivesOK
  BY DEF DrivesOK, Sides, NoDisk
<1>4. DataOK
  BY DEF DataOK
<1>5. DmaTypeOK
  BY DEF DmaInit, DmaTypeOK
<1>6. SwitchesOK
  BY DEF DmaInit, SwitchesOK
<1> QED
  BY <1>1, <1>2, <1>3, <1>4, <1>5, <1>6 DEF FdcTypeOK

(* What the program grants is a number of bytes.                           *)
LEMMA GrantIsNat == \A n \in 0..MaxCount : n * FDC_DMA_SECTOR_SIZE \in Nat
BY DmaAssumption

(* What happens outside the controller (the program, the disks, the        *)
(* turning of the drives) keeps every part of the state in its type.       *)
LEMMA OutsideType == ASSUME FdcTypeOK, Outside PROVE FdcTypeOK'
<1> USE FdcAssumption, DmaAssumption DEF FdcTypeOK
<1>1. ASSUME NEW c \in Commands, FDC_WriteCommandRegister(c) PROVE FdcTypeOK'
  <2> USE <1>1 DEF FDC_WriteCommandRegister
  <2>1. RegistersOK'
    BY DEF RegistersOK, FDC_ExecuteCommand, FDC_TypeIV_ForceInterrupt
  <2>2. InterruptsOK'
    BY DEF InterruptsOK, FDC_ExecuteCommand, FDC_TypeIV_ForceInterrupt, FDC_SetIRQ, SetIRQ,
       FDC_ClearIRQ, ForcedOver, Flags
  <2>3. StatesOK'
    <3>1. CASE FDC_ExecuteCommand(c)
      <4>1. CommandOf(c.op) \in AllCommands
        BY <3>1 DEF FDC_ExecuteCommand, CommandSet, CommandOf, AllCommands, TypeICommands, TypeI
      <4> QED
        BY <3>1, <4>1 DEF FDC_ExecuteCommand, StatesOK, States
    <3>2. CASE FDC_TypeIV_ForceInterrupt(c)
      BY <3>2 DEF FDC_TypeIV_ForceInterrupt, ForcedStatus, StatesOK, States
    <3> QED
      BY <3>1, <3>2
  <2>4. DrivesOK' /\ DataOK' /\ DmaTypeOK' /\ SwitchesOK'
    BY DEF DrivesOK, DataOK, DmaTypeOK, SwitchesOK, StillBehind, driveVars, dmaVars
  <2> QED
    BY <2>1, <2>2, <2>3, <2>4
<1>2. ASSUME NEW tr \in Bytes, NEW sr \in Bytes, NEW dr \in Bytes, FDC_WriteRegister(tr, sr, dr)
      PROVE  FdcTypeOK'
  BY <1>2 DEF FDC_WriteRegister, irqVars, driveVars, stateVars, dmaVars, RegistersOK,
     InterruptsOK, StatesOK, DrivesOK, DataOK, DmaTypeOK, SwitchesOK, StillBehind
<1>3. CASE FDC_ReadStatus \/ HDC_IRQ
  <2>1. InterruptsOK'
    BY <1>3 DEF FDC_ReadStatus, HDC_IRQ, FDC_SetIRQ, SetIRQ, FDC_ClearIRQ, FDC_ClearHdcIRQ,
       ForcedOver, InterruptsOK
  <2>2. SwitchesOK'
    BY <1>3 DEF FDC_ReadStatus, HDC_IRQ, driveVars, stateVars, dmaVars, SwitchesOK
  <2>3. RegistersOK' /\ DataOK'
    BY <1>3 DEF FDC_ReadStatus, HDC_IRQ, regVars, dataVars, RegistersOK, DataOK
  <2>4. StatesOK'
    BY <1>3 DEF FDC_ReadStatus, HDC_IRQ, stateVars, StatesOK
  <2>5. DrivesOK' /\ DmaTypeOK'
    BY <1>3 DEF FDC_ReadStatus, HDC_IRQ, driveVars, dmaVars, DrivesOK, DmaTypeOK,
       StillBehind
  <2> QED
    BY <2>1, <2>2, <2>3, <2>4, <2>5
<1>4. CASE FDC_WriteDma
  <2>1. DmaTypeOK'
    BY <1>4, GrantIsNat DEF FDC_WriteDma, FDC_DmaModeControl_WriteWord, FDC_ResetDMA,
       FDC_WriteSectorCountRegister, DmaTypeOK
  <2>2. SwitchesOK'
    BY <1>4 DEF FDC_WriteDma, FDC_DmaModeControl_WriteWord,
       FDC_WriteSectorCountRegister, SwitchesOK, driveVars, stateVars
  <2> QED
    BY <1>4, <2>1, <2>2 DEF FDC_WriteDma, regVars, irqVars, driveVars, stateVars, dataVars,
       RegistersOK, InterruptsOK, StatesOK, DrivesOK, DataOK
<1>5. ASSUME NEW d \in Drives \union {Nothing}, NEW side \in Sides, FDC_SetDriveSide(d, side)
      PROVE  FdcTypeOK'
  <2>1. SwitchesOK'
    BY <1>5 DEF FDC_SetDriveSide, SwitchesOK, stateVars, dmaVars
  <2> QED
    BY <1>5, <2>1 DEF FDC_SetDriveSide, regVars, irqVars, stateVars, dmaVars, RegistersOK,
       InterruptsOK, StatesOK, DrivesOK, DataOK, DmaTypeOK
<1>6. ASSUME NEW d \in Drives,
             \/ \E kind \in {"writable", "protected"} : FDC_InsertFloppy(d, kind)
             \/ FDC_EjectFloppy(d) \/ FDC_Drive_Set_Enable(d)
      PROVE  FdcTypeOK'
  <2>1. SwitchesOK'
    <3>1. Indexed' \in [Drives -> BOOLEAN]
      <4>1. \A b \in BOOLEAN : [Indexed EXCEPT ![d] = b] \in [Drives -> BOOLEAN]
        BY DEF SwitchesOK
      <4>2. ("MOTOR_ON" \in STR) \in BOOLEAN
        OBVIOUS
      <4> QED
        BY <1>6, <4>1, <4>2, Zenon DEF FDC_InsertFloppy, FDC_EjectFloppy, FDC_Drive_Set_Enable,
           SwitchesOK
    <3>2. Enabled' \in [Drives -> BOOLEAN]
      BY <1>6 DEF FDC_InsertFloppy, FDC_EjectFloppy, FDC_Drive_Set_Enable, SwitchesOK
    <3> QED
      BY <1>6, <3>1, <3>2 DEF FDC_InsertFloppy, FDC_EjectFloppy, FDC_Drive_Set_Enable,
         SwitchesOK, stateVars, dmaVars
  <2>2. DrivesOK'
    BY <1>6 DEF FDC_InsertFloppy, FDC_EjectFloppy, FDC_Drive_Set_Enable, DrivesOK
  <2> QED
    BY <1>6, <2>1, <2>2 DEF FDC_InsertFloppy, FDC_EjectFloppy, FDC_Drive_Set_Enable, regVars,
       irqVars, stateVars, dataVars, dmaVars, RegistersOK, InterruptsOK, StatesOK, DataOK,
       DmaTypeOK
<1>7. ASSUME NEW bCold \in BOOLEAN, FDC_Reset(bCold) PROVE FdcTypeOK'
  <2>1. RegistersOK'
    BY <1>7 DEF FDC_Reset, RegistersOK, CommandSet, TypeI, Bytes
  <2>2. SwitchesOK'
    BY <1>7 DEF FDC_Reset, SwitchesOK
  <2> QED
    BY <1>7, <2>1, <2>2 DEF FDC_Reset, FDC_ResetDMA, FDC_ClearIRQ, InterruptsOK, StatesOK,
       States, DrivesOK, DataOK, DmaTypeOK
<1> QED
  BY <1>1, <1>2, <1>3, <1>4, <1>5, <1>6, <1>7 DEF Outside, RegistersOK

(* What a step of the controller does to the registers and the head.       *)
LEMMA UpdateRegisters ==
  ASSUME FdcTypeOK, FDC_InterruptHandler_Update
  PROVE  RegistersOK' /\ DrivesOK'
<1> USE FdcAssumption DEF FdcTypeOK, Elsewhere, StillBehind, Unmoved, Bytes
<1>1. CASE FDC_Set_MotorON \/ HeadLoad \/ Sought_MotorOn \/ Tracks_MotorOn \/ Verify
           \/ Verify_HeadOk \/ NextHeader \/ FDC_VerifyTrack \/ CheckHeader
           \/ FDC_ReadSector_ST \/ FDC_ReadTrack_ST \/ TransferToDma \/ WriteSector_Start
           \/ WriteTrack_Start \/ TransferFromDma \/ Read_Crc \/ FDC_WriteSector_ST \/ Finish
           \/ MotorStop \/ MotorStopped
  BY <1>1 DEF FDC_Set_MotorON, HeadLoad, Sought_MotorOn, Tracks_MotorOn, Verify,
     Verify_HeadOk, NextHeader, FDC_VerifyTrack, CheckHeader, FDC_ReadSector_ST,
     FDC_ReadTrack_ST, TransferToDma, WriteSector_Start, WriteTrack_Start, TransferFromDma,
     Read_Crc, FDC_WriteSector_ST, Finish, MotorStop, MotorStopped, RegistersOK, DrivesOK
<1>2. \A direction \in {-1, 1} :
        Moved(direction) \in [Drives -> 0..FDC_PHYSICAL_MAX_TRACK]
  <2> SUFFICES ASSUME NEW direction \in {-1, 1}, Moving, ~Blocked(direction)
               PROVE  HeadTrack[DriveSelSignal] + direction \in 0..FDC_PHYSICAL_MAX_TRACK
    BY DEF Moved, Moving, DrivesOK
  <2>1. HeadTrack[DriveSelSignal] \in 0..FDC_PHYSICAL_MAX_TRACK
    BY DEF Moving, Selected, DrivesOK
  <2>2. HeadTrack[DriveSelSignal] # (IF direction = 1 THEN FDC_PHYSICAL_MAX_TRACK ELSE 0)
    BY DEF Blocked
  <2>3. CASE direction = 1
    BY <2>1, <2>2, <2>3
  <2>4. CASE direction = -1
    BY <2>1, <2>2, <2>4
  <2> QED
    BY <2>3, <2>4
<1>3. CASE Restore_MotorOn
  BY <1>3 DEF Restore_MotorOn, RegistersOK, DrivesOK
<1>8. CASE Restore_Loop
  <2>1. DrivesOK'
    <3>1. Moved(-1) \in [Drives -> 0..FDC_PHYSICAL_MAX_TRACK]
      BY <1>2
    <3> QED
      BY <1>8, <3>1 DEF Restore_Loop, DrivesOK
  <2>2. RegistersOK'
    <3>1. TR' = TR \/ (TR # 0 /\ TR' = TR - 1) \/ TR' = 0
      BY <1>8 DEF Restore_Loop
    <3>2. TR' \in Bytes
      BY <3>1 DEF RegistersOK
    <3> QED
      BY <1>8, <3>2 DEF Restore_Loop, RegistersOK
  <2> QED
    BY <2>1, <2>2
<1>4. CASE FDC_UpdateSeekCmd
  <2> DEFINE direction == IF DR < TR THEN -1 ELSE 1
  <2>1. direction \in {-1, 1}
    OBVIOUS
  <2>2. TR' \in Bytes /\ StepDirection' \in {-1, 1}
    <3>1. CASE TR = DR
      BY <1>4, <3>1 DEF FDC_UpdateSeekCmd, RegistersOK
    <3>2. CASE TR # DR /\ DR < TR
      <4>1. (TR' = 0 \/ TR' = TR - 1) /\ StepDirection' = -1
        BY <1>4, <3>2 DEF FDC_UpdateSeekCmd
      <4> QED
        BY <3>2, <4>1 DEF RegistersOK
    <3>3. CASE TR # DR /\ ~(DR < TR)
      <4>1. TR' = TR + 1 /\ StepDirection' = 1
        <5>1. /\ TR' = IF direction = -1 /\ Blocked(-1) THEN 0 ELSE TR + direction
              /\ StepDirection' = direction
          BY <1>4, <3>3 DEF FDC_UpdateSeekCmd
        <5>2. direction = 1
          BY <3>3
        <5> QED
          BY <5>1, <5>2
      <4> QED
        BY <3>3, <4>1 DEF RegistersOK
    <3> QED
      BY <3>1, <3>2, <3>3
  <2>3. HeadTrack' = HeadTrack \/ HeadTrack' = Moved(direction)
    BY <1>4 DEF FDC_UpdateSeekCmd
  <2>4. HeadTrack' \in [Drives -> 0..FDC_PHYSICAL_MAX_TRACK]
    BY <1>2, <2>1, <2>3 DEF DrivesOK
  <2> QED
    BY <1>4, <2>2, <2>4 DEF FDC_UpdateSeekCmd, RegistersOK, DrivesOK
<1>5. CASE FDC_UpdateStepCmd
  <2>1. (TR + StepDirection) % BYTE \in Bytes
    BY DEF RegistersOK
  <2> QED
    <3>1. RegistersOK'
      BY <1>5, <2>1 DEF FDC_UpdateStepCmd, RegistersOK
    <3>2. Moved(StepDirection) \in [Drives -> 0..FDC_PHYSICAL_MAX_TRACK]
      BY <1>2 DEF RegistersOK
    <3>3. DrivesOK'
      BY <1>5, <3>2 DEF FDC_UpdateStepCmd, DrivesOK
    <3> QED
      BY <3>1, <3>3
<1>6. CASE FDC_ReadAddress_ST
  <2>1. Selected => HeadTrack[DriveSelSignal] \in Bytes
    BY DEF Selected, DrivesOK
  <2>2. SR' \in Bytes
    BY <1>6, <2>1 DEF FDC_ReadAddress_ST, RegistersOK
  <2> QED
    BY <1>6, <2>2 DEF FDC_ReadAddress_ST, RegistersOK, DrivesOK
<1>7. CASE Multi
  <2>1. (SR + 1) % BYTE \in Bytes
    BY DEF RegistersOK
  <2> QED
    BY <1>7, <2>1 DEF Multi, RegistersOK, DrivesOK
<1> QED
  BY <1>1, <1>3, <1>4, <1>5, <1>6, <1>7, <1>8 DEF FDC_InterruptHandler_Update

(* A step of the controller goes on to a state of its command, or ends the *)
(* command.                                                                *)
LEMMA UpdateStates ==
  ASSUME FdcTypeOK, FDC_InterruptHandler_Update
  PROVE  StatesOK' /\ InterruptsOK'
<1> USE DEF FdcTypeOK, Elsewhere, Go, Continue, Status, StatesOK, InterruptsOK, States
<1>1. CASE FDC_Set_MotorON \/ HeadLoad \/ Sought_MotorOn \/ Tracks_MotorOn \/ Restore_MotorOn
           \/ FDC_UpdateSeekCmd \/ FDC_UpdateStepCmd \/ Verify \/ Verify_HeadOk
  BY <1>1 DEF FDC_Set_MotorON, HeadLoad, Sought_MotorOn, Tracks_MotorOn, Restore_MotorOn,
     FDC_UpdateSeekCmd, FDC_UpdateStepCmd, Verify, Verify_HeadOk
<1>2. CASE Restore_Loop \/ WriteTrack_Start \/ Finish
  BY <1>2 DEF Restore_Loop, WriteTrack_Start, Finish, FDC_CmdCompleteCommon, FDC_SetIRQ, SetIRQ,
     StateAfter
<1>3. CASE NextHeader \/ FDC_VerifyTrack \/ CheckHeader \/ FDC_ReadSector_ST
           \/ FDC_ReadAddress_ST \/ FDC_ReadTrack_ST \/ TransferToDma \/ WriteSector_Start
  BY <1>3 DEF NextHeader, FDC_VerifyTrack, CheckHeader, FDC_ReadSector_ST,
     FDC_ReadAddress_ST, FDC_ReadTrack_ST, TransferToDma, WriteSector_Start
<1>4. CASE TransferFromDma \/ Read_Crc \/ FDC_WriteSector_ST \/ Multi \/ MotorStop
           \/ MotorStopped
  BY <1>4 DEF TransferFromDma, Read_Crc, FDC_WriteSector_ST, Multi, MotorStop, MotorStopped
<1> QED
  BY <1>1, <1>2, <1>3, <1>4 DEF FDC_InterruptHandler_Update

(* The DMA counters and the history of what it was given.                  *)
LEMMA UpdateDma ==
  ASSUME FdcTypeOK, FDC_InterruptHandler_Update
  PROVE  DmaTypeOK'
<1> USE DmaAssumption DEF FdcTypeOK, DmaTypeOK
<1>1. CASE TransferToDma
  <2>1. BytesToTransfer' = BytesToTransfer /\ FDC_DMA_FIFO_Push
    BY <1>1 DEF TransferToDma
  <2>2. CASE SectorCount = 0 \/ FIFO_Size + 1 < FDC_DMA_FIFO_SIZE
    BY <2>1, <2>2 DEF FDC_DMA_FIFO_Push
  <2>3. CASE ~(SectorCount = 0 \/ FIFO_Size + 1 < FDC_DMA_FIFO_SIZE)
    BY <2>1, <2>3 DEF FDC_DMA_FIFO_Push, SectorUsed
  <2> QED
    BY <2>2, <2>3
<1>2. CASE TransferFromDma
  <2>1. BytesToTransfer' = BytesToTransfer - 1
    BY <1>2 DEF TransferFromDma
  <2>2. FDC_DMA_FIFO_Pull \/ UNCHANGED <<SectorCount, BytesInSector, FIFO_Size, granted, moved>>
    BY <1>2 DEF TransferFromDma
  <2>3. CASE UNCHANGED <<SectorCount, BytesInSector, FIFO_Size, granted, moved>>
    BY <2>1, <2>3
  <2>4. CASE FDC_DMA_FIFO_Pull
    <3>1. CASE SectorCount = 0
      BY <2>1, <2>4, <3>1 DEF FDC_DMA_FIFO_Pull
    <3>2. CASE SectorCount # 0 /\ FIFO_Size > 0
      BY <2>1, <2>4, <3>2 DEF FDC_DMA_FIFO_Pull
    <3>3. CASE SectorCount # 0 /\ ~(FIFO_Size > 0)
      <4>1. CASE BytesInSector - FDC_DMA_FIFO_SIZE < 0
        BY <2>1, <2>4, <3>3, <4>1 DEF FDC_DMA_FIFO_Pull
      <4>2. CASE ~(BytesInSector - FDC_DMA_FIFO_SIZE < 0)
        BY <2>1, <2>4, <3>3, <4>2 DEF FDC_DMA_FIFO_Pull
      <4> QED
        BY <4>1, <4>2
    <3> QED
      BY <3>1, <3>2, <3>3
  <2> QED
    BY <2>2, <2>3, <2>4
<1>3. CASE WriteSector_Start \/ WriteTrack_Start
  <2>1. BytesToTransfer' \in {BytesToTransfer, SECTOR_SIZE, TRACK_SIZE}
    BY <1>3 DEF WriteSector_Start, WriteTrack_Start
  <2>2. UNCHANGED <<SectorCount, BytesInSector, FIFO_Size, granted, moved>>
    BY <1>3 DEF WriteSector_Start, WriteTrack_Start
  <2> QED
    BY <2>1, <2>2, FdcAssumption
<1>4. CASE ~(TransferToDma \/ TransferFromDma \/ WriteSector_Start \/ WriteTrack_Start)
  <2>1. UNCHANGED dmaVars
    BY <1>4 DEF FDC_InterruptHandler_Update, FDC_Set_MotorON, HeadLoad, Sought_MotorOn,
       Tracks_MotorOn, Restore_MotorOn, Restore_Loop, FDC_UpdateSeekCmd, FDC_UpdateStepCmd,
       Verify, Verify_HeadOk, NextHeader, FDC_VerifyTrack, CheckHeader, FDC_ReadSector_ST,
       FDC_ReadAddress_ST, FDC_ReadTrack_ST, Read_Crc, FDC_WriteSector_ST, Multi, Finish,
       MotorStop, MotorStopped
  <2> QED
    BY <2>1 DEF dmaVars
<1> QED
  BY <1>1, <1>2, <1>3, <1>4

(* A step of the controller leaves the switches of the drives and the mode *)
(* of the DMA as they are.                                                 *)
LEMMA UpdateSwitches ==
  ASSUME FdcTypeOK, FDC_InterruptHandler_Update
  PROVE  SwitchesOK'
<1> USE DEF FdcTypeOK, Elsewhere, Unmoved
<1>1. writing' = writing /\ Enabled' = Enabled
  BY DEF FDC_InterruptHandler_Update, FDC_Set_MotorON, HeadLoad, Sought_MotorOn,
     Tracks_MotorOn, Restore_MotorOn, Restore_Loop, FDC_UpdateSeekCmd, FDC_UpdateStepCmd,
     Verify, Verify_HeadOk, NextHeader, FDC_VerifyTrack, CheckHeader, FDC_ReadSector_ST,
     FDC_ReadAddress_ST, FDC_ReadTrack_ST, TransferToDma, WriteSector_Start, WriteTrack_Start,
     TransferFromDma, Read_Crc, FDC_WriteSector_ST, Multi, Finish,
     MotorStop, MotorStopped, dmaVars
<1>2. ReplaceCommandPossible' \in BOOLEAN
  <2>1. \/ ReplaceCommandPossible' = ReplaceCommandPossible
        \/ ReplaceCommandPossible' = FALSE
        \/ ReplaceCommandPossible' = (ReplaceCommandPossible /\ Command \notin TypeIII)
    BY DEF FDC_InterruptHandler_Update, FDC_Set_MotorON, HeadLoad, Sought_MotorOn,
       Tracks_MotorOn, Restore_MotorOn, Restore_Loop, FDC_UpdateSeekCmd, FDC_UpdateStepCmd,
       Verify, Verify_HeadOk, NextHeader, FDC_VerifyTrack, CheckHeader, FDC_ReadSector_ST,
       FDC_ReadAddress_ST, FDC_ReadTrack_ST, TransferToDma, WriteSector_Start,
       WriteTrack_Start, TransferFromDma, Read_Crc, FDC_WriteSector_ST, Multi, Finish,
       MotorStop, MotorStopped
  <2> QED
    BY <2>1, Zenon DEF SwitchesOK
<1>3. Indexed' \in [Drives -> BOOLEAN]
  <2>1. \/ Indexed' = Indexed
        \/ Indexed' = [Indexed EXCEPT ![DriveSelSignal] = TRUE]
        \/ Indexed' = [d \in Drives |-> Indexed[d] /\ d # DriveSelSignal]
    BY DEF FDC_InterruptHandler_Update, FDC_Set_MotorON, HeadLoad, Sought_MotorOn,
       Tracks_MotorOn, Restore_MotorOn, Restore_Loop, FDC_UpdateSeekCmd, FDC_UpdateStepCmd,
       Verify, Verify_HeadOk, NextHeader, FDC_VerifyTrack, CheckHeader, FDC_ReadSector_ST,
       FDC_ReadAddress_ST, FDC_ReadTrack_ST, TransferToDma, WriteSector_Start,
       WriteTrack_Start, TransferFromDma, Read_Crc, FDC_WriteSector_ST, Multi, Finish,
       MotorStop, MotorStopped
  <2> QED
    BY <2>1 DEF SwitchesOK
<1>4. immediate' \in BOOLEAN
  <2>1. CASE Restore_Loop \/ WriteTrack_Start \/ Finish \/ MotorStopped
    BY <2>1 DEF Restore_Loop, WriteTrack_Start, Finish, MotorStopped, FDC_CmdCompleteCommon, Go,
       Continue
  <2>2. CASE FDC_UpdateStepCmd
    BY <2>2 DEF FDC_UpdateStepCmd, Go, Continue, Blocked
  <2>3. CASE FDC_Set_MotorON \/ HeadLoad \/ Sought_MotorOn \/ Tracks_MotorOn
             \/ Restore_MotorOn \/ FDC_UpdateSeekCmd \/ Verify \/ Verify_HeadOk \/ NextHeader
             \/ FDC_VerifyTrack \/ CheckHeader \/ FDC_ReadSector_ST \/ FDC_ReadAddress_ST
             \/ FDC_ReadTrack_ST \/ TransferToDma \/ WriteSector_Start \/ TransferFromDma
             \/ Read_Crc \/ FDC_WriteSector_ST \/ Multi \/ MotorStop
    BY <2>3 DEF FDC_Set_MotorON, HeadLoad, Sought_MotorOn, Tracks_MotorOn, Restore_MotorOn,
       FDC_UpdateSeekCmd, Verify, Verify_HeadOk, NextHeader, FDC_VerifyTrack, CheckHeader,
       FDC_ReadSector_ST, FDC_ReadAddress_ST, FDC_ReadTrack_ST, TransferToDma,
       WriteSector_Start, TransferFromDma, Read_Crc, FDC_WriteSector_ST, Multi, MotorStop,
       Go, Continue
  <2> QED
    BY <2>1, <2>2, <2>3 DEF FDC_InterruptHandler_Update
<1> QED
  BY <1>1, <1>2, <1>3, <1>4, Zenon DEF SwitchesOK

(* The counter of index pulses, the header, the buffer and the places.     *)
LEMMA PlaceType == FdcTypeOK /\ Selected => Place \in Places
BY DEF FdcTypeOK, RegistersOK, DrivesOK, Selected, Place, Places, Bytes

(* A step of the controller keeps the pulse counter, the header, the       *)
(* buffer and the places of the transfer in their types.                   *)
LEMMA UpdateData ==
  ASSUME FdcTypeOK, FDC_InterruptHandler_Update
  PROVE  DataOK'
<1> USE FdcAssumption DEF FdcTypeOK, DataOK
<1>1. CASE NextHeader
  <2>1. Selected => HeadTrack[DriveSelSignal] \in Nat
    BY DEF Selected, DrivesOK
  <2>2. ID' \in [TR : Nat, SR : Nat]
    <3>1. \/ ID' = ID
          \/ /\ Selected
             /\ \E s \in 1..SectorsPerTrack : ID' = [TR |-> HeadTrack[DriveSelSignal], SR |-> s]
      BY <1>1 DEF NextHeader, HeaderPasses
    <3> QED
      BY <2>1, <3>1
  <2> QED
    BY <1>1, <2>2 DEF NextHeader
<1>2. CASE CheckHeader
  <2>1. Place \in Places
    BY <1>2, PlaceType DEF CheckHeader
  <2>2. [Place EXCEPT !.sector = ID.SR] \in Places
    BY <2>1 DEF Places
  <2> QED
    BY <1>2, <2>2 DEF CheckHeader
<1>3. CASE FDC_ReadSector_ST \/ FDC_WriteSector_ST
  <2>1. access' \in Places \union {Nothing}
    BY <1>3, PlaceType DEF FDC_ReadSector_ST, FDC_WriteSector_ST, OnDisk
  <2>2. Buffer' \in [Size : Nat, PosRead : Nat]
    <3>1. Buffer' \in {Buffer, [Size |-> SECTOR_SIZE, PosRead |-> 0], [Size |-> 0, PosRead |-> 0]}
      BY <1>3 DEF FDC_ReadSector_ST, FDC_WriteSector_ST, dataVars
    <3> QED
      BY <3>1
  <2> QED
    BY <1>3, <2>1, <2>2 DEF FDC_ReadSector_ST, FDC_WriteSector_ST, dataVars
<1>4. CASE FDC_ReadAddress_ST \/ FDC_ReadTrack_ST \/ TransferToDma \/ WriteSector_Start
           \/ WriteTrack_Start \/ TransferFromDma
  <2>1. Buffer' \in [Size : Nat, PosRead : Nat]
    <3>1. CASE FDC_ReadAddress_ST \/ FDC_ReadTrack_ST \/ WriteSector_Start \/ WriteTrack_Start
      <4>1. \/ Buffer' = Buffer
            \/ \E n \in {0, ID_SIZE, TRACK_SIZE} : Buffer' = [Size |-> n, PosRead |-> 0]
        BY <1>4, <3>1 DEF FDC_ReadAddress_ST, FDC_ReadTrack_ST, WriteSector_Start, WriteTrack_Start
      <4> QED
        BY <4>1
    <3>2. CASE TransferToDma
      BY <3>2 DEF TransferToDma
    <3>3. CASE TransferFromDma
      <4>1. Buffer' = Buffer \/ Buffer' = [Buffer EXCEPT !.Size = Buffer.Size + 1]
        BY <3>3 DEF TransferFromDma
      <4> QED
        BY <4>1
    <3> QED
      BY <1>4, <3>1, <3>2, <3>3
  <2>2. access' = Nothing /\ UNCHANGED <<IndexPulse_Counter, ID, found>>
    BY <1>4 DEF FDC_ReadAddress_ST, FDC_ReadTrack_ST, TransferToDma, WriteSector_Start,
       WriteTrack_Start, TransferFromDma
  <2> QED
    BY <2>1, <2>2
<1>5. CASE FDC_Set_MotorON \/ HeadLoad \/ Sought_MotorOn \/ Tracks_MotorOn \/ Restore_MotorOn
           \/ Restore_Loop \/ FDC_UpdateSeekCmd \/ FDC_UpdateStepCmd \/ Verify
           \/ Verify_HeadOk \/ FDC_VerifyTrack \/ Read_Crc \/ Multi \/ Finish \/ MotorStop
           \/ MotorStopped
  <2>1. IndexPulse_Counter' \in {0, IndexPulse_Counter}
    BY <1>5 DEF FDC_Set_MotorON, HeadLoad, Sought_MotorOn, Tracks_MotorOn, Restore_MotorOn,
       Restore_Loop, FDC_UpdateSeekCmd, FDC_UpdateStepCmd, Verify, Verify_HeadOk,
       FDC_VerifyTrack, Read_Crc, Multi, Finish, MotorStop, MotorStopped, dataVars
  <2>2. access' = Nothing /\ UNCHANGED <<ID, Buffer, found>>
    BY <1>5 DEF FDC_Set_MotorON, HeadLoad, Sought_MotorOn, Tracks_MotorOn, Restore_MotorOn,
       Restore_Loop, FDC_UpdateSeekCmd, FDC_UpdateStepCmd, Verify, Verify_HeadOk,
       FDC_VerifyTrack, Read_Crc, Multi, Finish, MotorStop, MotorStopped, dataVars
  <2> QED
    BY <2>1, <2>2
<1> QED
  BY <1>1, <1>2, <1>3, <1>4, <1>5 DEF FDC_InterruptHandler_Update

(* An index pulse.                                                         *)
LEMMA PulseType ==
  ASSUME FdcTypeOK, PulseStep
  PROVE  FdcTypeOK'
<1> USE DEF FdcTypeOK
<1>1. CASE FDC_IndexPulse_Increase
  <2>1. SwitchesOK'
    BY <1>1 DEF FDC_IndexPulse_Increase, stateVars, driveVars, dmaVars, SwitchesOK
  <2>2. InterruptsOK'
    BY <1>1 DEF FDC_IndexPulse_Increase, FDC_SetIRQ, SetIRQ, InterruptsOK
  <2>3. DataOK'
    BY <1>1 DEF FDC_IndexPulse_Increase, DataOK
  <2> QED
    BY <1>1, <2>1, <2>2, <2>3 DEF FDC_IndexPulse_Increase, regVars, stateVars, driveVars,
       dmaVars, RegistersOK, StatesOK, DrivesOK, DmaTypeOK
<1>2. CASE FDC_IndexPulse_Init
  <2>1. SwitchesOK'
    BY <1>2 DEF FDC_IndexPulse_Init, stateVars, dmaVars, SwitchesOK
  <2> QED
    BY <1>2, <2>1 DEF FDC_IndexPulse_Init, regVars, irqVars, stateVars, dataVars, dmaVars,
       RegistersOK, InterruptsOK, StatesOK, DrivesOK, DataOK, DmaTypeOK
<1>3. CASE IndexPassesUnnoticed
  <2>1. SwitchesOK'
    BY <1>3 DEF IndexPassesUnnoticed, stateVars, driveVars, dmaVars, SwitchesOK
  <2> QED
    BY <1>3, <2>1 DEF IndexPassesUnnoticed, regVars, irqVars, stateVars, driveVars, dataVars,
       dmaVars, RegistersOK, InterruptsOK, StatesOK, DrivesOK, DataOK, DmaTypeOK
<1> QED
  BY <1>1, <1>2, <1>3 DEF PulseStep

(* Every step keeps the type invariant.                                    *)
LEMMA NextType == FdcTypeOK /\ [Next]_vars => FdcTypeOK'
<1> SUFFICES ASSUME FdcTypeOK, [Next]_vars PROVE FdcTypeOK'
  OBVIOUS
<1>1. CASE FDC_InterruptHandler_Update
  BY <1>1, UpdateRegisters, UpdateStates, UpdateSwitches, UpdateData, UpdateDma DEF FdcTypeOK
<1>2. CASE PulseStep
  BY <1>2, PulseType
<1>3. CASE Outside
  BY <1>3, OutsideType
<1>4. CASE UNCHANGED vars
  <2>1. SwitchesOK'
    BY <1>4 DEF vars, stateVars, driveVars, dmaVars, FdcTypeOK, SwitchesOK
  <2> QED
    BY <1>4, <2>1 DEF vars, regVars, irqVars, stateVars, driveVars, dataVars, dmaVars, FdcTypeOK,
       RegistersOK, InterruptsOK, StatesOK, DrivesOK, DataOK, DmaTypeOK
<1> QED
  BY <1>1, <1>2, <1>3, <1>4 DEF Next, Machine, PulseStep

(* The registers are bytes and the head of every drive stays on its        *)
(* tracks, in every state the controller reaches.                          *)
THEOREM TypeCorrect == Spec => []FdcTypeOK
<1>1. Init => FdcTypeOK
  BY InitType
<1>2. FdcTypeOK /\ [Next]_vars => FdcTypeOK'
  BY NextType
<1> QED
  BY <1>1, <1>2, PTL DEF Spec

-----------------------------------------------------------------------------
(* The interrupt line.                                                     *)

(* The controller itself only adds the end of a command to the sources.    *)
LEMMA UpdateIrq ==
  FDC_InterruptHandler_Update =>
    \/ IRQ_Signal' = IRQ_Signal /\ GPIP5' = GPIP5
    \/ FDC_SetIRQ("COMPLETE", IRQ_Signal)
BY DEF FDC_InterruptHandler_Update, FDC_Set_MotorON, HeadLoad, Sought_MotorOn,
   Tracks_MotorOn, Restore_MotorOn, Restore_Loop, FDC_UpdateSeekCmd, FDC_UpdateStepCmd,
   Verify, Verify_HeadOk, NextHeader, FDC_VerifyTrack, CheckHeader, FDC_ReadSector_ST,
   FDC_ReadAddress_ST, FDC_ReadTrack_ST, TransferToDma, WriteSector_Start,
   WriteTrack_Start, TransferFromDma, Read_Crc, FDC_WriteSector_ST, Multi, Finish,
   MotorStop, MotorStopped, FDC_CmdCompleteCommon, Go, Continue

(* Setting a source, and clearing those that may be cleared, both keep the *)
(* line and the sources together.                                          *)
LEMMA SetKeepsLine ==
  ASSUME InterruptsOK, IrqLine, NEW source, FDC_SetIRQ(source, IRQ_Signal) \/ FDC_SetIRQ(source, ForcedOver)
  PROVE  IrqLine'
<1>1. IRQ_Signal' # {}
  BY DEF FDC_SetIRQ, SetIRQ
<1>2. GPIP5' = "LOW"
  BY DEF FDC_SetIRQ, ForcedOver, IrqLine, InterruptsOK
<1> QED
  BY <1>1, <1>2 DEF IrqLine

(* Reading the status, or the start of a command, clears the sources that  *)
(* may be cleared; a forced interrupt keeps the line up.                   *)
LEMMA ClearKeepsLine ==
  ASSUME InterruptsOK, IrqLine, FDC_ClearIRQ(ForcedOver) \/ FDC_ClearIRQ({}) \/ FDC_ClearHdcIRQ
  PROVE  IrqLine'
<1>1. CASE FDC_ClearIRQ(ForcedOver)
  BY <1>1 DEF FDC_ClearIRQ, ForcedOver, IrqLine
<1>2. CASE FDC_ClearIRQ({})
  BY <1>2 DEF FDC_ClearIRQ, IrqLine
<1>3. CASE FDC_ClearHdcIRQ
  BY <1>3 DEF FDC_ClearHdcIRQ, IrqLine
<1> QED
  BY <1>1, <1>2, <1>3

(* Every step keeps the line and its sources together.                     *)
LEMMA NextLine == FdcTypeOK /\ IrqLine /\ [Next]_vars => IrqLine'
<1> SUFFICES ASSUME FdcTypeOK, IrqLine, [Next]_vars PROVE IrqLine'
  OBVIOUS
<1>1. InterruptsOK
  BY DEF FdcTypeOK
<1>2. CASE IRQ_Signal' = IRQ_Signal /\ GPIP5' = GPIP5
  BY <1>2 DEF IrqLine
<1>3. CASE FDC_InterruptHandler_Update
  BY <1>1, <1>2, <1>3, UpdateIrq, SetKeepsLine
<1>4. CASE PulseStep
  BY <1>1, <1>2, <1>4, SetKeepsLine DEF PulseStep, FDC_IndexPulse_Increase, FDC_IndexPulse_Init,
       IndexPassesUnnoticed, irqVars
<1>5. CASE Outside
  <2>1. \/ IRQ_Signal' = IRQ_Signal /\ GPIP5' = GPIP5
        \/ \E source \in {"FORCED", "HDC"} :
             FDC_SetIRQ(source, IRQ_Signal) \/ FDC_SetIRQ(source, ForcedOver)
        \/ FDC_ClearIRQ(ForcedOver) \/ FDC_ClearIRQ({}) \/ FDC_ClearHdcIRQ
    BY <1>5 DEF Outside, FDC_WriteCommandRegister, FDC_ExecuteCommand, FDC_TypeIV_ForceInterrupt,
       FDC_WriteRegister, FDC_ReadStatus, FDC_WriteDma, HDC_IRQ, FDC_SetDriveSide,
       FDC_InsertFloppy, FDC_EjectFloppy, FDC_Drive_Set_Enable, FDC_Reset, irqVars
  <2> QED
    BY <1>1, <1>2, <2>1, SetKeepsLine, ClearKeepsLine
<1>6. CASE UNCHANGED vars
  BY <1>2, <1>6 DEF vars, irqVars
<1> QED
  BY <1>3, <1>4, <1>5, <1>6 DEF Next, Machine, PulseStep

(* Whatever the two controllers, the program and the turning disk do, the  *)
(* line asks for an interrupt exactly while a source is recorded.          *)
THEOREM LineCorrect == Spec => []IrqLine
<1>1. Init => IrqLine
  BY DEF Init, IrqLine
<1>2. FdcTypeOK /\ IrqLine /\ [Next]_vars => IrqLine'
  BY NextLine
<1> QED
  BY <1>1, <1>2, TypeCorrect, PTL DEF Spec

-----------------------------------------------------------------------------
(* Commands and their states.                                              *)

(* The states in which a command has begun to move something.              *)
Late ==
  {"LOOP", "VERIFY", "HEAD_OK", "NEXT_HEADER", "CHECK_HEADER", "TRANSFER_START", "INDEX",
   "TRANSFER_LOOP", "CRC", "MULTI", "RNF", "COMPLETE"}

Resting == {"NULL", "MOTOR_STOP", "MOTOR_STOP_WAIT"}

(* A state belongs to a command that runs, and from the late ones on the   *)
(* command cannot be replaced.                                             *)
Staged ==
  /\ BusyRuns
  /\ Command \in AllCommands <=> CommandState \notin Resting
  /\ CommandState \in Late => ~ReplaceCommandPossible

Names == {"NULL", "MOTOR_STOP"} \intersect AllCommands = {}

(* No command is named like a resting state.                               *)
LEMMA NamesDiffer == Names
BY DEF Names, AllCommands, TypeICommands, TypeII, TypeIII

(* A step of the controller within a command: the command runs on.         *)
GoesOn ==
  /\ Command \in AllCommands /\ Command' = Command
  /\ UNCHANGED <<IRQ_Signal, GPIP5>>
  /\ "BUSY" \in STR' <=> "BUSY" \in STR
  /\ CommandState' \notin Resting \union {"START"}
  /\ \/ CommandState' \notin Late
     \/ CommandState \in Late /\ (ReplaceCommandPossible' => ReplaceCommandPossible)
     \/ ~ReplaceCommandPossible'

Ends ==
  /\ "BUSY" \notin STR' /\ Command' = "MOTOR_STOP" /\ CommandState' = "MOTOR_STOP"

(* The controller ends a command with an interrupt.                        *)
Completes == Command \in AllCommands /\ Ends /\ FDC_SetIRQ("COMPLETE", IRQ_Signal)

Idles ==
  /\ Command = "MOTOR_STOP" /\ Command' \in {"MOTOR_STOP", "NULL"}
  /\ UNCHANGED <<IRQ_Signal, GPIP5>>
  /\ "BUSY" \in STR' <=> "BUSY" \in STR
  /\ CommandState' \in {"MOTOR_STOP", "MOTOR_STOP_WAIT"}

(* A step of the controller goes on with its command, ends it, or lets the *)
(* motor run out.                                                          *)
LEMMA UpdateCommand == FDC_InterruptHandler_Update => GoesOn \/ Completes \/ Idles
<1> USE DEF GoesOn, Ends, Completes, Idles, Resting, Late, Active, AllCommands, TypeICommands, TypeII, TypeIII,
        Sought, Tracks, Status, Go, Continue
<1>1. CASE FDC_Set_MotorON
  BY <1>1 DEF FDC_Set_MotorON
<1>2. CASE HeadLoad \/ Sought_MotorOn \/ Tracks_MotorOn
  BY <1>2 DEF HeadLoad, Sought_MotorOn, Tracks_MotorOn, AtHeadLoad, AtMotorOn, SpunUp
<1>3. CASE Restore_MotorOn \/ Restore_Loop
  BY <1>3 DEF Restore_MotorOn, Restore_Loop, AtMotorOnI, SpunUp, FDC_CmdCompleteCommon, StateAfter
<1>4. CASE FDC_UpdateSeekCmd
  BY <1>4 DEF FDC_UpdateSeekCmd, AtMotorOnI, SpunUp
<1>5. CASE FDC_UpdateStepCmd
  BY <1>5 DEF FDC_UpdateStepCmd, AtMotorOnI, SpunUp
<1>6. CASE Verify \/ Verify_HeadOk \/ NextHeader \/ FDC_VerifyTrack \/ CheckHeader
  BY <1>6 DEF Verify, Verify_HeadOk, NextHeader, FDC_VerifyTrack, CheckHeader
<1>7. CASE FDC_ReadSector_ST \/ FDC_ReadAddress_ST \/ FDC_ReadTrack_ST \/ TransferToDma
  BY <1>7 DEF FDC_ReadSector_ST, FDC_ReadAddress_ST, FDC_ReadTrack_ST, TransferToDma
<1>8. CASE WriteSector_Start \/ WriteTrack_Start \/ TransferFromDma
  BY <1>8 DEF WriteSector_Start, WriteTrack_Start, TransferFromDma, FDC_CmdCompleteCommon, StateAfter
<1>9. CASE Read_Crc \/ FDC_WriteSector_ST \/ Multi \/ Finish
  BY <1>9 DEF Read_Crc, FDC_WriteSector_ST, Multi, Finish, WriteRefused, FDC_CmdCompleteCommon,
     StateAfter
<1>10. CASE MotorStop \/ MotorStopped
  BY <1>10 DEF MotorStop, MotorStopped
<1> QED
  BY <1>1, <1>2, <1>3, <1>4, <1>5, <1>6, <1>7, <1>8, <1>9, <1>10 DEF FDC_InterruptHandler_Update

(* From outside a command is begun, interrupted or left alone.             *)
Begins ==
  /\ Command' \in AllCommands /\ "BUSY" \in STR' /\ CommandState' = "START"
  /\ "BUSY" \in STR => ReplaceCommandPossible

Alone == UNCHANGED <<Command, CommandState, ReplaceCommandPossible, STR>>

Cleared == Command' = "NULL" /\ CommandState' = "NULL" /\ STR' = {}

(* A step outside the controller begins a command, ends one, leaves it     *)
(* alone or resets the controller.                                         *)
LEMMA OutsideCommand == Outside => Begins \/ Ends \/ Alone \/ Cleared
<1> SUFFICES ASSUME Outside PROVE Begins \/ Ends \/ Alone \/ Cleared
  OBVIOUS
<1>1. ASSUME NEW c \in Commands, FDC_WriteCommandRegister(c) PROVE Begins \/ Ends
  <2>1. CASE FDC_ExecuteCommand(c)
    <3>1. c.op \in TypeI \union TypeII \union TypeIII
      BY <2>1, FdcAssumption DEF FDC_ExecuteCommand, CommandSet
    <3>2. CommandOf(c.op) \in AllCommands /\ FDC_GetCmdType(c.op) # 4
      BY <3>1 DEF CommandOf, AllCommands, TypeICommands, TypeI, TypeII, TypeIII, FDC_GetCmdType
    <3> QED
      BY <1>1, <2>1, <3>2 DEF FDC_WriteCommandRegister, Accepted, FDC_ExecuteCommand, Begins
  <2>2. CASE FDC_TypeIV_ForceInterrupt(c)
    BY <2>2 DEF FDC_TypeIV_ForceInterrupt, ForcedStatus, Ends
  <2> QED
    BY <1>1, <2>1, <2>2 DEF FDC_WriteCommandRegister
<1>2. ASSUME NEW bCold \in BOOLEAN, FDC_Reset(bCold) PROVE Cleared
  BY <1>2 DEF FDC_Reset, Cleared
<1>3. CASE ~(\E c \in Commands : FDC_WriteCommandRegister(c)) /\ ~(\E bCold \in BOOLEAN : FDC_Reset(bCold))
  BY <1>3 DEF Outside, FDC_WriteRegister, FDC_ReadStatus, FDC_WriteDma, HDC_IRQ, FDC_SetDriveSide,
     FDC_InsertFloppy, FDC_EjectFloppy, FDC_Drive_Set_Enable, stateVars, Alone
<1> QED
  BY <1>1, <1>2, <1>3

(* Every step keeps the command, its state and the busy bit together.      *)
LEMMA NextStaged ==
  Staged /\ [Next]_vars =>
    Staged' /\ (CommandState' = "START" => CommandState \notin {"TRANSFER_START", "TRANSFER_LOOP", "CRC"})
<1> SUFFICES ASSUME Staged, [Next]_vars
             PROVE  Staged' /\ (CommandState' = "START" =>
                       CommandState \notin {"TRANSFER_START", "TRANSFER_LOOP", "CRC"})
  OBVIOUS
<1> USE NamesDiffer DEF Names, Staged, BusyRuns, Resting
<1>1. CASE GoesOn
  BY <1>1 DEF GoesOn
<1>2. CASE Ends \/ Cleared
  BY <1>2 DEF Ends, Cleared, Late
<1>3. CASE Idles
  BY <1>3 DEF Idles, Late
<1>4. CASE Begins
  BY <1>4 DEF Begins, Late
<1>5. CASE Alone
  BY <1>5 DEF Alone
<1>6. CASE PulseStep \/ UNCHANGED vars
  BY <1>5, <1>6 DEF PulseStep, FDC_IndexPulse_Increase, FDC_IndexPulse_Init,
       IndexPassesUnnoticed, vars, stateVars, Alone
<1> QED
  BY <1>1, <1>2, <1>3, <1>4, <1>5, <1>6, UpdateCommand, OutsideCommand DEF Next, Machine, PulseStep, Completes

(* In every reachable state the command, its state and the busy bit belong *)
(* together.                                                               *)
LEMMA StagedCorrect == Spec => []Staged
<1>1. Init => Staged
  BY NamesDiffer DEF Init, Names, Staged, BusyRuns, Resting, Late
<1>2. Staged /\ [Next]_vars => Staged'
  BY NextStaged
<1> QED
  BY <1>1, <1>2, PTL DEF Spec

(* The busy bit is set exactly while a command runs.                       *)
THEOREM BusyCorrect == Spec => []BusyRuns
<1>1. Staged => BusyRuns
  BY DEF Staged
<1> QED
  BY <1>1, StagedCorrect, PTL

(* No command takes the place of one that transfers bytes.                 *)
THEOREM NotReplacedCorrect == Spec => NotReplaced
<1>1. Staged /\ [Next]_vars =>
        [CommandState' = "START" => CommandState \notin {"TRANSFER_START", "TRANSFER_LOOP", "CRC"}]_vars
  BY NextStaged
<1> QED
  BY <1>1, StagedCorrect, PTL DEF Spec, NotReplaced

-----------------------------------------------------------------------------
(* What the program is promised.                                           *)

(* The command register holds a command of the type of the one that runs,  *)
(* which is what the replacement of a command compares.                    *)
Registered ==
  Command \in AllCommands => FDC_GetCmdType(CR.op) = FDC_GetCmdType(Command)

(* A direction of a step is another command of the same type.              *)
LEMMA TypesKept ==
  /\ \A op \in TypeI \union TypeII \union TypeIII :
       /\ CommandOf(op) \in AllCommands
       /\ FDC_GetCmdType(CommandOf(op)) = FDC_GetCmdType(op)
       /\ FDC_GetCmdType(op) \in 1..3
  /\ AllCommands \subseteq TypeI \union TypeII \union TypeIII
BY DEF CommandOf, AllCommands, TypeICommands, TypeI, TypeII, TypeIII, FDC_GetCmdType

(* The controller itself leaves the command register and the conditions,   *)
(* and never allows a replacement that was not allowed.                    *)
LEMMA UpdateKeeps ==
  ASSUME FdcTypeOK, FDC_InterruptHandler_Update
  PROVE  /\ CR' = CR /\ InterruptCond' = InterruptCond
         /\ ReplaceCommandPossible' => ReplaceCommandPossible
<1>1. CR' = CR /\ InterruptCond' = InterruptCond
  BY DEF FDC_InterruptHandler_Update, FDC_Set_MotorON, HeadLoad, Sought_MotorOn,
     Tracks_MotorOn, Restore_MotorOn, Restore_Loop, FDC_UpdateSeekCmd, FDC_UpdateStepCmd,
     Verify, Verify_HeadOk, NextHeader, FDC_VerifyTrack, CheckHeader, FDC_ReadSector_ST,
     FDC_ReadAddress_ST, FDC_ReadTrack_ST, TransferToDma, WriteSector_Start,
     WriteTrack_Start, TransferFromDma, Read_Crc, FDC_WriteSector_ST, Multi, Finish,
     MotorStop, MotorStopped, Elsewhere
<1>2. \/ ReplaceCommandPossible' = ReplaceCommandPossible
      \/ ReplaceCommandPossible' = FALSE
      \/ ReplaceCommandPossible' = (ReplaceCommandPossible /\ Command \notin TypeIII)
  BY DEF FDC_InterruptHandler_Update, FDC_Set_MotorON, HeadLoad, Sought_MotorOn,
     Tracks_MotorOn, Restore_MotorOn, Restore_Loop, FDC_UpdateSeekCmd, FDC_UpdateStepCmd,
     Verify, Verify_HeadOk, NextHeader, FDC_VerifyTrack, CheckHeader, FDC_ReadSector_ST,
     FDC_ReadAddress_ST, FDC_ReadTrack_ST, TransferToDma, WriteSector_Start,
     WriteTrack_Start, TransferFromDma, Read_Crc, FDC_WriteSector_ST, Multi, Finish,
     MotorStop, MotorStopped
<1>3. ReplaceCommandPossible \in BOOLEAN
  BY DEF FdcTypeOK, SwitchesOK
<1>4. ReplaceCommandPossible' => ReplaceCommandPossible
  BY <1>2, <1>3, Zenon
<1> QED
  BY <1>1, <1>4

(* What the steps from outside may do that the program sees.               *)
Taken(c) ==
  /\ Accepted(c) /\ c \in CommandSet
  /\ CR' = c /\ ReplaceCommandPossible' = TRUE
  /\ FDC_ExecuteCommand(c) \/ FDC_TypeIV_ForceInterrupt(c)

Asked ==
  \/ FDC_ClearIRQ(ForcedOver)
  \/ FDC_SetIRQ("HDC", IRQ_Signal) \/ FDC_ClearHdcIRQ
  \/ UNCHANGED <<IRQ_Signal, GPIP5>>

Silent == UNCHANGED <<CR, InterruptCond>> /\ Alone /\ Asked

ResetPort == Cleared /\ InterruptCond' = {} /\ IRQ_Signal' = {}

(* A step outside the controller gives it a command, leaves the command    *)
(* alone, or resets it.                                                    *)
LEMMA OutsidePort == Outside => (\E c \in Commands : Taken(c)) \/ Silent \/ ResetPort
<1> SUFFICES ASSUME Outside PROVE (\E c \in Commands : Taken(c)) \/ Silent \/ ResetPort
  OBVIOUS
<1>1. ASSUME NEW c \in Commands, FDC_WriteCommandRegister(c) PROVE Taken(c)
  BY <1>1, FdcAssumption DEF FDC_WriteCommandRegister, Taken
<1>2. ASSUME NEW bCold \in BOOLEAN, FDC_Reset(bCold) PROVE ResetPort
  BY <1>2 DEF FDC_Reset, FDC_ClearIRQ, Cleared, ResetPort
<1>3. CASE ~(\E c \in Commands : FDC_WriteCommandRegister(c)) /\ ~(\E bCold \in BOOLEAN : FDC_Reset(bCold))
  BY <1>3 DEF Outside, FDC_WriteRegister, FDC_ReadStatus, FDC_WriteDma, HDC_IRQ, FDC_SetDriveSide,
     FDC_InsertFloppy, FDC_EjectFloppy, FDC_Drive_Set_Enable, regVars, irqVars, stateVars, Alone,
     Asked, Silent
<1> QED
  BY <1>1, <1>2, <1>3

(* Every step keeps the register and the command of one type.              *)
LEMMA NextRegistered == FdcTypeOK /\ Registered /\ [Next]_vars => Registered'
<1> SUFFICES ASSUME FdcTypeOK, Registered, [Next]_vars PROVE Registered'
  OBVIOUS
<1> USE NamesDiffer DEF Names, Registered
<1>1. CASE FDC_InterruptHandler_Update
  BY <1>1, UpdateKeeps, UpdateCommand DEF GoesOn, Completes, Ends, Idles
<1>2. ASSUME NEW c \in Commands, Taken(c) PROVE Registered'
  <2>1. CASE FDC_ExecuteCommand(c)
    <3>1. c.op \in TypeI \union TypeII \union TypeIII
      BY <1>2, <2>1 DEF Taken, FDC_ExecuteCommand, CommandSet
    <3> QED
      BY <1>2, <2>1, <3>1, TypesKept DEF Taken, FDC_ExecuteCommand
  <2>2. CASE FDC_TypeIV_ForceInterrupt(c)
    BY <2>2 DEF FDC_TypeIV_ForceInterrupt
  <2> QED
    BY <1>2, <2>1, <2>2 DEF Taken
<1>3. CASE Silent \/ ResetPort
  BY <1>3 DEF Silent, Alone, ResetPort, Cleared
<1>4. CASE PulseStep \/ UNCHANGED vars
  BY <1>4 DEF PulseStep, FDC_IndexPulse_Increase, FDC_IndexPulse_Init,
       IndexPassesUnnoticed, vars, stateVars, regVars
<1> QED
  BY <1>1, <1>2, <1>3, <1>4, OutsidePort DEF Next, Machine, PulseStep

PortInv == FdcTypeOK /\ IrqLine /\ Staged /\ Registered

(* The state as the program is promised it.                                *)
PortType == IF Command \in AllCommands THEN FDC_GetCmdType(Command) ELSE 0
PortCommitted == Command \in AllCommands /\ ~ReplaceCommandPossible
PortBusy == "BUSY" \in STR
PortLine == GPIP5 = "LOW"

(* With the invariants the busy bit and the line follow from the command   *)
(* and from the sources.                                                   *)
LEMMA PortFollows ==
  ASSUME PortInv
  PROVE  /\ PortBusy = (PortType # 0) /\ PortLine = (IRQ_Signal # {})
         /\ PortType \in 0..3 /\ (PortType # 0 <=> Command \in AllCommands)
BY TypesKept DEF PortInv, Staged, BusyRuns, IrqLine, PortBusy, PortType, PortLine

(* Every step of the controller, of the program, the user, the disks or    *)
(* the hard disk controller is a step of the port, or leaves it as it is.  *)
LEMMA NextPort == PortInv /\ PortInv' /\ [Next]_vars => [Port!Next]_(Port!vars)
<1> SUFFICES ASSUME PortInv, PortInv', [Next]_vars PROVE [Port!Next]_(Port!vars)
  OBVIOUS
<1>1. /\ PortBusy' = (PortType' # 0) /\ PortLine' = (IRQ_Signal' # {})
      /\ PortType' \in 0..3 /\ (PortType' # 0 <=> Command' \in AllCommands)
  <2>1. PortInv' => (/\ PortBusy = (PortType # 0) /\ PortLine = (IRQ_Signal # {})
                     /\ PortType \in 0..3 /\ (PortType # 0 <=> Command \in AllCommands))'
    BY PortFollows, PTL
  <2> QED
    BY <2>1
<1>2. /\ PortBusy = (PortType # 0) /\ PortLine = (IRQ_Signal # {})
      /\ PortType \in 0..3 /\ (PortType # 0 <=> Command \in AllCommands)
  BY PortFollows
<1> USE NamesDiffer DEF Names
<1>3. CASE GoesOn /\ UNCHANGED InterruptCond /\ (ReplaceCommandPossible' => ReplaceCommandPossible)
  <2>1. PortType # 0 /\ PortType' = PortType /\ PortBusy' = PortBusy
    BY <1>1, <1>2, <1>3 DEF GoesOn, PortType
  <2>2. PortCommitted' \in {PortCommitted, TRUE}
    BY <1>3 DEF GoesOn, PortCommitted
  <2>3. PortLine' = PortLine /\ UNCHANGED <<InterruptCond, IRQ_Signal>>
    BY <1>3 DEF GoesOn, PortLine
  <2>4. Port!Proceed
    BY <2>1, <2>2, <2>3 DEF Port!Proceed, Port!Unasked, PortType, PortCommitted, PortBusy, PortLine
  <2> QED
    BY <2>4 DEF Port!Next
<1>4. CASE Completes /\ UNCHANGED InterruptCond
  <2>1. PortType # 0 /\ PortType' = 0 /\ PortBusy' = FALSE /\ PortCommitted' = FALSE
    BY <1>1, <1>2, <1>4 DEF Completes, Ends, PortType, PortCommitted
  <2>2. IRQ_Signal' = (IRQ_Signal \ {"HDC"}) \union {"COMPLETE"}
    BY <1>4 DEF Completes, FDC_SetIRQ, SetIRQ
  <2>3. Port!Complete
    BY <1>1, <1>4, <2>1, <2>2 DEF Port!Complete, Port!Runs, Port!Asks, PortType, PortCommitted, PortBusy, PortLine
  <2> QED
    BY <2>3 DEF Port!Next
<1>5. CASE Idles /\ UNCHANGED InterruptCond
  <2>1. PortType = 0 /\ PortType' = 0
    BY <1>1, <1>2, <1>5 DEF Idles
  <2>2. UNCHANGED <<PortType, PortCommitted, PortBusy, InterruptCond, IRQ_Signal, PortLine>>
    BY <1>5, <1>1, <1>2, <2>1 DEF Idles, PortCommitted, PortLine
  <2> QED
    BY <2>2 DEF Port!vars, PortType, PortCommitted, PortBusy, PortLine
<1>6. ASSUME NEW c \in Commands, Taken(c), FDC_ExecuteCommand(c) PROVE Port!Next
  <2>1. c.op \in TypeI \union TypeII \union TypeIII
    BY <1>6 DEF Taken, FDC_ExecuteCommand, CommandSet
  <2>2. /\ FDC_GetCmdType(c.op) \in 1..3 /\ Command' \in AllCommands
        /\ FDC_GetCmdType(Command') = FDC_GetCmdType(c.op)
    BY <1>6, <2>1, TypesKept DEF FDC_ExecuteCommand
  <2> DEFINE t == FDC_GetCmdType(c.op)
  <2>3. PortType' = t /\ t \in 1..3 /\ PortBusy' = (t # 0) /\ PortCommitted' = FALSE
    BY <1>1, <1>6, <2>2 DEF PortType, PortCommitted, Taken
  <2>4. PortType = 0 \/ (PortType = t /\ t # 3 /\ ~PortCommitted)
    BY <1>2, <1>6, <2>2 DEF Taken, Accepted, PortInv, Registered, PortType, PortCommitted, PortBusy
  <2>5. InterruptCond' = {} /\ IRQ_Signal' = Port!Lasting
    BY <1>6 DEF FDC_ExecuteCommand, FDC_ClearIRQ, ForcedOver, Port!Lasting
  <2> HIDE DEF t
  <2>6. Port!Begin(t)
    BY <1>1, <2>3, <2>4, <2>5 DEF Port!Begin, Port!Runs, Port!Asks, PortType, PortCommitted, PortBusy, PortLine
  <2> QED
    BY <2>3, <2>6 DEF Port!Next
<1>7. ASSUME NEW c \in Commands, Taken(c), FDC_TypeIV_ForceInterrupt(c) PROVE Port!Next
  <2> DEFINE wanted == c.flags \intersect {"IMMEDIATE", "IP"}
  <2>1. wanted \in SUBSET {"IMMEDIATE", "IP"} /\ InterruptCond' = wanted
    BY <1>7 DEF FDC_TypeIV_ForceInterrupt
  <2>2. PortType' = 0 /\ PortBusy' = FALSE /\ PortCommitted' = FALSE
    BY <1>1, <1>7 DEF FDC_TypeIV_ForceInterrupt, PortType, PortCommitted
  <2>3. IRQ_Signal' = IF "IMMEDIATE" \in wanted THEN (IRQ_Signal \ {"HDC"}) \union {"FORCED"}
                                               ELSE Port!Lasting
    BY <1>7 DEF FDC_TypeIV_ForceInterrupt, FDC_SetIRQ, SetIRQ, FDC_ClearIRQ, ForcedOver, Port!Lasting
  <2> HIDE DEF wanted
  <2>4. Port!Force(wanted)
    BY <1>1, <2>1, <2>2, <2>3 DEF Port!Force, Port!Runs, Port!Asks, PortType, PortCommitted, PortBusy, PortLine
  <2> QED
    BY <2>1, <2>4 DEF Port!Next
<1>8. CASE Silent
  <2>1. UNCHANGED <<PortType, PortCommitted, PortBusy, InterruptCond>>
    BY <1>8 DEF Silent, Alone, PortType, PortCommitted, PortBusy
  <2>2. CASE UNCHANGED <<IRQ_Signal, GPIP5>>
    BY <2>1, <2>2 DEF Port!vars, PortType, PortCommitted, PortBusy, PortLine
  <2>3. CASE FDC_ClearIRQ(ForcedOver)
    <3>1. IRQ_Signal' = Port!Lasting
      BY <2>3 DEF FDC_ClearIRQ, ForcedOver, Port!Lasting
    <3>2. Port!Acknowledge
      BY <1>1, <2>1, <3>1 DEF Port!Acknowledge, Port!Asks, Port!Uncommanded, PortType, PortCommitted, PortBusy, PortLine
    <3> QED
      BY <3>2 DEF Port!Next
  <2>4. CASE FDC_SetIRQ("HDC", IRQ_Signal) \/ FDC_ClearHdcIRQ
    <3>1. IRQ_Signal' = {"HDC"} \/ IRQ_Signal' = IRQ_Signal \ {"HDC"}
      BY <2>4 DEF FDC_SetIRQ, SetIRQ, FDC_ClearHdcIRQ
    <3>2. Port!Share
      BY <1>1, <2>1, <3>1 DEF Port!Share, Port!Asks, Port!Uncommanded, PortType, PortCommitted, PortBusy, PortLine
    <3> QED
      BY <3>2 DEF Port!Next
  <2> QED
    BY <1>8, <2>2, <2>3, <2>4 DEF Silent, Asked
<1>9. CASE ResetPort
  <2>1. PortType' = 0 /\ PortBusy' = FALSE /\ PortCommitted' = FALSE
    BY <1>1, <1>9 DEF ResetPort, Cleared, PortType, PortCommitted
  <2>2. Port!Reset
    BY <1>1, <1>9, <2>1 DEF ResetPort, Port!Reset, Port!Runs, Port!Asks, PortType, PortCommitted, PortBusy, PortLine
  <2> QED
    BY <2>2 DEF Port!Next
<1>10. CASE PulseStep
  <2>1. UNCHANGED <<PortType, PortCommitted, PortBusy, InterruptCond>>
    BY <1>10 DEF PulseStep, FDC_IndexPulse_Increase, FDC_IndexPulse_Init,
       IndexPassesUnnoticed, stateVars, irqVars, PortType,
       PortCommitted, PortBusy
  <2>2. CASE UNCHANGED <<IRQ_Signal, GPIP5>>
    BY <2>1, <2>2 DEF Port!vars, PortType, PortCommitted, PortBusy, PortLine
  <2>3. CASE "IP" \in InterruptCond /\ FDC_SetIRQ("INDEX", IRQ_Signal)
    <3>1. IRQ_Signal' = (IRQ_Signal \ {"HDC"}) \union {"INDEX"}
      BY <2>3 DEF FDC_SetIRQ, SetIRQ
    <3>2. Port!Pulse
      BY <1>1, <2>1, <2>3, <3>1 DEF Port!Pulse, Port!Asks, Port!Uncommanded, PortType, PortCommitted, PortBusy, PortLine
    <3> QED
      BY <3>2 DEF Port!Next
  <2> QED
    BY <1>10, <2>2, <2>3 DEF PulseStep, FDC_IndexPulse_Increase, FDC_IndexPulse_Init,
       IndexPassesUnnoticed, irqVars
<1>11. CASE UNCHANGED vars
  BY <1>11 DEF vars, stateVars, irqVars, Port!vars
<1>12. CASE FDC_InterruptHandler_Update
  BY <1>3, <1>4, <1>5, <1>12, UpdateCommand, UpdateKeeps DEF PortInv
<1>13. CASE Outside
  BY <1>6, <1>7, <1>8, <1>9, <1>13, OutsidePort DEF Taken
<1> QED
  BY <1>10, <1>11, <1>12, <1>13 DEF Next, Machine, PulseStep

(* All that the port relies on holds in every reachable state.             *)
LEMMA PortInvCorrect == Spec => []PortInv
<1>1. Init => Registered
  BY NamesDiffer DEF Init, Names, Registered
<1>2. FdcTypeOK /\ Registered /\ [Next]_vars => Registered'
  BY NextRegistered
<1>3. Spec => []Registered
  BY <1>1, <1>2, TypeCorrect, PTL DEF Spec
<1>4. FdcTypeOK /\ IrqLine /\ Staged /\ Registered => PortInv
  BY DEF PortInv
<1> QED
  BY <1>3, <1>4, TypeCorrect, LineCorrect, StagedCorrect, PTL

(* fdc.c keeps its promises to the program, whatever disks, drives and     *)
(* registers do meanwhile and whenever the hard disk controller takes the  *)
(* line.                                                                   *)
THEOREM PortCorrect == Spec => ImplementsPort
<1>1. Init => Port!Init
  BY NamesDiffer DEF Init, Names, Port!Init
<1> QED
  BY <1>1, NextPort, PortInvCorrect, PTL DEF Spec, ImplementsPort, Port!Spec


(* While a command runs, the line never stands for the end of another one. *)
THEOREM NoStaleEndCorrect == Spec => []NoStaleEnd
<1>1. Init => NoStaleEnd
  BY DEF Init, NoStaleEnd
<1>2. FdcTypeOK /\ NoStaleEnd /\ [Next]_vars => NoStaleEnd'
  <2> SUFFICES ASSUME FdcTypeOK, NoStaleEnd, [Next]_vars PROVE NoStaleEnd'
    OBVIOUS
  <2> USE NamesDiffer DEF Names, NoStaleEnd
  <2>1. CASE FDC_InterruptHandler_Update
    BY <2>1, UpdateCommand DEF GoesOn, Completes, Ends, Idles
  <2>2. ASSUME NEW c \in Commands, Taken(c) PROVE NoStaleEnd'
    BY <2>2 DEF Taken, FDC_ExecuteCommand, FDC_TypeIV_ForceInterrupt, FDC_ClearIRQ, ForcedOver
  <2>3. CASE Silent \/ ResetPort
    BY <2>3 DEF Silent, Alone, Asked, ResetPort, Cleared, FDC_ClearIRQ, ForcedOver, FDC_SetIRQ, SetIRQ,
       FDC_ClearHdcIRQ
  <2>4. CASE PulseStep \/ UNCHANGED vars
    BY <2>4 DEF PulseStep, FDC_IndexPulse_Increase, FDC_IndexPulse_Init,
       IndexPassesUnnoticed, FDC_SetIRQ, SetIRQ, vars, stateVars,
       irqVars
  <2> QED
    BY <2>1, <2>2, <2>3, <2>4, OutsidePort DEF Next, Machine, PulseStep
<1> QED
  BY <1>1, <1>2, TypeCorrect, PTL DEF Spec

-----------------------------------------------------------------------------
(* The loop of FDC_InterruptHandler_Update.                                *)

(* How many states a call of the handler still runs at most: what follows  *)
(* a state at once is further down.                                        *)
StepsLeft(state) ==
  CASE state \in {"START", "CRC"} -> 8
    [] state \in {"SPIN_UP", "HEAD_LOAD", "MULTI"} -> 7
    [] state \in {"MOTOR_ON", "CHECK_HEADER", "HEAD_OK"} -> 6
    [] state \in {"LOOP", "NEXT_HEADER"} -> 5
    [] state \in {"VERIFY", "TRANSFER_START", "INDEX"} -> 4
    [] state \in {"RNF", "TRANSFER_LOOP"} -> 3
    [] state = "COMPLETE" -> 2
    [] state = "MOTOR_STOP" -> 1
    [] OTHER -> 0

(* The first header of a track is looked at without a delay.               *)
LateHeader == NextHeader /\ lag # "none" /\ CommandState' = "CHECK_HEADER"

(* A call of the handler runs the states of a command only downwards, at   *)
(* most nine of them, whatever the disk, the registers and the DMA hold:   *)
(* one thing goes up, and only in a drive whose index has passed unnoticed *)
(* while it was disabled.                                                  *)
HandlerShrinks ==
  [][FDC_InterruptHandler_Update /\ immediate' =>
       StepsLeft(CommandState') < StepsLeft(CommandState) \/ LateHeader]_vars

(* Each state is followed at once only by those further down.              *)
LEMMA UpdateShrinks ==
  ASSUME FdcTypeOK, Staged, FDC_InterruptHandler_Update, immediate'
  PROVE  StepsLeft(CommandState') < StepsLeft(CommandState) \/ LateHeader
<1> USE DEF StepsLeft, Active, Go, Continue
<1>1. CASE FDC_Set_MotorON
  BY <1>1 DEF FDC_Set_MotorON
<1>2. CASE HeadLoad \/ Sought_MotorOn \/ Tracks_MotorOn
  BY <1>2 DEF HeadLoad, Sought_MotorOn, Tracks_MotorOn, AtHeadLoad, AtMotorOn, SpunUp
<1>3. CASE Restore_MotorOn \/ Restore_Loop
  BY <1>3 DEF Restore_MotorOn, Restore_Loop, AtMotorOnI, SpunUp, FDC_CmdCompleteCommon, StateAfter
<1>4. CASE FDC_UpdateSeekCmd
  BY <1>4 DEF FDC_UpdateSeekCmd, AtMotorOnI, SpunUp
<1>5. CASE FDC_UpdateStepCmd
  BY <1>5 DEF FDC_UpdateStepCmd, AtMotorOnI, SpunUp
<1>6. CASE Verify \/ Verify_HeadOk \/ FDC_VerifyTrack \/ CheckHeader
  BY <1>6 DEF Verify, Verify_HeadOk, FDC_VerifyTrack, CheckHeader
<1>13. CASE NextHeader
  <2>1. CommandState = "NEXT_HEADER"
    BY <1>13 DEF NextHeader
  <2>2. CASE lag = "none"
    <3>1. CommandState' = "RNF"
      BY <1>13, <2>2 DEF NextHeader
    <3> QED
      BY <2>1, <3>1
  <2>3. CASE lag # "none"
    <3>1. CommandState' \in {"RNF", "TRANSFER_START", "CHECK_HEADER"}
      BY <1>13 DEF NextHeader
    <3> QED
      BY <1>13, <2>1, <2>3, <3>1 DEF LateHeader
  <2> QED
    BY <2>2, <2>3
<1>7. CASE FDC_ReadSector_ST \/ FDC_ReadTrack_ST \/ TransferToDma
  BY <1>7 DEF FDC_ReadSector_ST, FDC_ReadTrack_ST, TransferToDma
<1>12. CASE FDC_ReadAddress_ST
  <2>1. CommandState = "TRANSFER_START" /\ CommandState' = "TRANSFER_LOOP"
    BY <1>12 DEF FDC_ReadAddress_ST
  <2> QED
    BY <2>1
<1>8. CASE WriteSector_Start \/ WriteTrack_Start \/ TransferFromDma
  BY <1>8 DEF WriteSector_Start, WriteTrack_Start, TransferFromDma, FDC_CmdCompleteCommon, StateAfter
<1>9. CASE Read_Crc \/ FDC_WriteSector_ST \/ Multi
  BY <1>9 DEF Read_Crc, FDC_WriteSector_ST, Multi
<1>10. CASE Finish
  <2>1. Command \in AllCommands
    BY <1>10 DEF Finish, WriteRefused, AllCommands, Sought, TypeICommands, TypeII, TypeIII
  <2>2. StepsLeft(CommandState') = 1
    BY <1>10 DEF Finish, FDC_CmdCompleteCommon, StateAfter
  <2>3. CommandState \notin Resting /\ CommandState \in States
    BY <2>1 DEF Staged, FdcTypeOK, StatesOK
  <2>4. \A state \in States \ Resting : StepsLeft(state) > 1
    BY DEF States, Resting
  <2> QED
    BY <2>2, <2>3, <2>4
<1>11. CASE MotorStop \/ MotorStopped
  BY <1>11 DEF MotorStop, MotorStopped
<1> QED
  BY <1>1, <1>2, <1>3, <1>4, <1>5, <1>6, <1>7, <1>8, <1>9, <1>10, <1>11, <1>12, <1>13
     DEF FDC_InterruptHandler_Update

(* While the call is not over, nothing but the controller moves, and the   *)
(* pulses that it makes up for.                                            *)
LEMMA OnlyController ==
  ASSUME immediate, [Next]_vars
  PROVE  /\ \/ FDC_InterruptHandler_Update
            \/ FDC_IndexPulse_Init \/ UNCHANGED vars
            \/ FDC_IndexPulse_Increase /\ lag = "behind"
         /\ [Machine]_vars
BY DEF Next, Machine, Outside, FDC_IndexPulse_Increase, IndexPassesUnnoticed,
   FDC_WriteCommandRegister,
   FDC_WriteRegister, FDC_ReadStatus, FDC_WriteDma, HDC_IRQ, FDC_SetDriveSide,
   FDC_InsertFloppy, FDC_EjectFloppy, FDC_Drive_Set_Enable, FDC_Reset

(* The states that a call of the handler runs go down, at most nine of     *)
(* them, for every disk, drive and DMA (fdc.c,                             *)
(* FDC_InterruptHandler_Update); only the first header of a track is       *)
(* looked at again, in a drive that was disabled.                          *)
THEOREM HandlerBounded == Spec => HandlerShrinks
<1>1. FdcTypeOK /\ Staged /\ [Next]_vars =>
        [FDC_InterruptHandler_Update /\ immediate' =>
           StepsLeft(CommandState') < StepsLeft(CommandState) \/ LateHeader]_vars
  BY UpdateShrinks
<1> QED
  BY <1>1, TypeCorrect, StagedCorrect, PTL DEF Spec, HandlerShrinks

(* A drive that turns lacks its reference pulse, or a pulse that is to be  *)
(* made up for.                                                            *)
Unindexed == Spinning /\ ~Indexed[DriveSelSignal]
Behind == Spinning /\ Indexed[DriveSelSignal] /\ lag = "behind"

(* Every state of the controller finds its drive updated.                  *)
LEMMA UpdateUpdated == FDC_InterruptHandler_Update => Updated
BY DEF FDC_InterruptHandler_Update, FDC_Set_MotorON, HeadLoad, Sought_MotorOn, Tracks_MotorOn,
   AtHeadLoad, AtMotorOn, AtMotorOnI, SpunUp, Restore_MotorOn, Restore_Loop, FDC_UpdateSeekCmd,
   FDC_UpdateStepCmd, Verify, Verify_HeadOk, NextHeader, FDC_VerifyTrack, CheckHeader,
   FDC_ReadSector_ST, FDC_ReadAddress_ST, FDC_ReadTrack_ST, TransferToDma, WriteSector_Start,
   WriteTrack_Start, TransferFromDma, Read_Crc, FDC_WriteSector_ST, Multi, Finish, MotorStop,
   MotorStopped, Active

(* Between two states of the controller its drive comes to be updated, and *)
(* stays so.                                                               *)
Settles ==
  /\ Updated => Updated'
  /\ Unindexed => (Unindexed' \/ Updated') /\ (immediate' <=> immediate)
  /\ Behind => Behind' \/ Updated'

LEMMA PulsesUpdate ==
  ASSUME FdcTypeOK, [Machine]_vars
  PROVE  /\ <<FDC_IndexPulse_Init>>_vars \/ <<FDC_IndexPulse_Increase>>_vars => Updated'
         /\ Settles \/ <<FDC_InterruptHandler_Update>>_vars
         /\ Unindexed => Settles
         /\ Updated \/ Unindexed \/ Behind
         /\ ~(Updated /\ Unindexed) /\ ~(Updated /\ Behind)
<1>1. FDC_IndexPulse_Init =>
        Updated' /\ immediate' = immediate /\ ~Behind
  BY DEF FDC_IndexPulse_Init, Updated, Behind, Spinning, Ready, Selected, FdcTypeOK, DrivesOK,
     SwitchesOK, stateVars
<1>2. FDC_IndexPulse_Increase => Updated' /\ immediate' = immediate
  BY DEF FDC_IndexPulse_Increase, Updated, Spinning, Ready, Selected, driveVars, stateVars
<1>3. IndexPassesUnnoticed => Updated' /\ immediate' = immediate /\ ~Unindexed /\ ~Behind
  BY DEF IndexPassesUnnoticed, Updated, Unindexed, Behind, Spinning, Ready, Selected, driveVars,
     stateVars
<1>4. UNCHANGED vars => Settles
  BY DEF Settles, vars, driveVars, stateVars, Updated, Unindexed, Behind, Spinning, Ready, Selected
<1>5. Updated \/ Unindexed \/ Behind
  BY DEF Updated, Unindexed, Behind
<1>6. ~(Updated /\ Unindexed) /\ ~(Updated /\ Behind)
  BY DEF Updated, Unindexed, Behind
<1>7. Settles \/ <<FDC_InterruptHandler_Update>>_vars
  BY <1>1, <1>2, <1>3, <1>4 DEF Settles, Machine
<1>8. Unindexed => Settles
  BY <1>1, <1>2, <1>3, <1>4, <1>6, UpdateUpdated DEF Settles, Machine
<1> QED
  BY <1>1, <1>2, <1>5, <1>6, <1>7, <1>8

(* As long as a call is not over the next state is taken.                  *)
LEMMA CallGoesOn ==
  Spec /\ Fairness /\ []Able => []<>(~immediate) \/ []<><<FDC_InterruptHandler_Update>>_vars
<1>1. immediate /\ [Next]_vars => [Machine]_vars
  BY OnlyController
<1>2. FdcTypeOK /\ [Machine]_vars =>
        /\ (<<FDC_IndexPulse_Init>>_vars \/ <<FDC_IndexPulse_Increase>>_vars => Updated')
        /\ (Settles \/ <<FDC_InterruptHandler_Update>>_vars)
        /\ (Updated \/ Unindexed \/ Behind)
        /\ ~(Updated /\ Unindexed) /\ ~(Updated /\ Behind)
  BY PulsesUpdate
<1>3. Settles => (/\ (Updated => Updated')
                  /\ (Unindexed => Unindexed' \/ Updated')
                  /\ (Behind => Behind' \/ Updated'))
  BY DEF Settles
<1>4. Able =>
        /\ (Unindexed => ENABLED <<FDC_IndexPulse_Init>>_vars)
        /\ (Behind => ENABLED <<FDC_IndexPulse_Increase>>_vars)
        /\ (Updated /\ immediate => ENABLED <<FDC_InterruptHandler_Update>>_vars)
  BY PTL DEF Able, Unindexed, Behind
<1> QED
  BY <1>1, <1>2, <1>3, <1>4, TypeCorrect, PTL DEF Spec, Fairness

-----------------------------------------------------------------------------
(* The sector that is meant.                                               *)

Transferring ==
  Command \in TypeII /\ CommandState \in {"TRANSFER_START", "TRANSFER_LOOP", "CRC"}

(* From the recognition of the header to the end of the sector, the place  *)
(* that a transfer would access is that of the header.                     *)
Meant ==
  /\ Transferring /\ found # Nothing => found = Place
  /\ SectorMeant

(* The head rests, and so does the sector register.                        *)
SamePlace == UNCHANGED <<DriveSelSignal, SideSignal, HeadTrack, SR>>

(* The place under the head depends on the drive, the side, the track and  *)
(* the sector register only.                                               *)
LEMMA SamePlaceSame == SamePlace => Place' = Place
BY DEF SamePlace, Place

(* A step of the controller fills and stores the buffer only for the place *)
(* its header was found at.                                                *)
LEMMA UpdateMeant == ASSUME Meant, FDC_InterruptHandler_Update PROVE Meant'
<1> USE SamePlaceSame DEF Meant, Transferring, SectorMeant, Elsewhere, Go, Continue, Active,
        TypeII, TypeIII, TypeICommands, AllCommands
<1>1. CASE CheckHeader
  <2>1. SamePlace
    BY <1>1 DEF CheckHeader, Unmoved, SamePlace
  <2>2. HeaderMatches => [Place EXCEPT !.sector = ID.SR] = Place
    BY DEF HeaderMatches, Place
  <2> QED
    BY <1>1, <2>1, <2>2 DEF CheckHeader
<1>2. CASE FDC_ReadSector_ST \/ FDC_WriteSector_ST
  <2>1. SamePlace
    BY <1>2 DEF FDC_ReadSector_ST, FDC_WriteSector_ST, Unmoved, SamePlace
  <2> QED
    BY <1>2, <2>1 DEF FDC_ReadSector_ST, FDC_WriteSector_ST, dataVars
<1>3. CASE TransferToDma \/ WriteSector_Start \/ TransferFromDma
  <2>1. SamePlace
    BY <1>3 DEF TransferToDma, WriteSector_Start, TransferFromDma, Unmoved, SamePlace
  <2> QED
    BY <1>3, <2>1 DEF TransferToDma, WriteSector_Start, TransferFromDma
<1>4. CASE ~(CheckHeader \/ FDC_ReadSector_ST \/ FDC_WriteSector_ST \/ TransferToDma
             \/ WriteSector_Start \/ TransferFromDma)
  <2>1. access' = Nothing
    BY <1>4 DEF FDC_InterruptHandler_Update, FDC_Set_MotorON, HeadLoad, Sought_MotorOn,
       Tracks_MotorOn, Restore_MotorOn, Restore_Loop, FDC_UpdateSeekCmd, FDC_UpdateStepCmd,
       Verify, Verify_HeadOk, NextHeader, FDC_VerifyTrack, FDC_ReadAddress_ST,
       FDC_ReadTrack_ST, WriteTrack_Start, Read_Crc, Multi, Finish, MotorStop, MotorStopped
  <2>2. ~Transferring'
    <3>1. CASE FDC_Set_MotorON \/ HeadLoad \/ Sought_MotorOn \/ Tracks_MotorOn
      BY <3>1 DEF FDC_Set_MotorON, HeadLoad, Sought_MotorOn, Tracks_MotorOn, AtHeadLoad,
         AtMotorOn, SpunUp
    <3>2. CASE Restore_MotorOn \/ Restore_Loop \/ FDC_UpdateSeekCmd \/ FDC_UpdateStepCmd
               \/ Verify \/ Verify_HeadOk \/ FDC_VerifyTrack
      BY <3>2 DEF Restore_MotorOn, Restore_Loop, FDC_UpdateSeekCmd, FDC_UpdateStepCmd,
         AtMotorOnI, SpunUp, Verify, Verify_HeadOk, FDC_VerifyTrack, FDC_CmdCompleteCommon,
         StateAfter
    <3>3. CASE NextHeader \/ FDC_ReadAddress_ST \/ FDC_ReadTrack_ST \/ WriteTrack_Start
      BY <3>3 DEF NextHeader, FDC_ReadAddress_ST, FDC_ReadTrack_ST, WriteTrack_Start,
         FDC_CmdCompleteCommon, StateAfter
    <3>4. CASE Read_Crc \/ Multi \/ Finish \/ MotorStop \/ MotorStopped
      BY <3>4 DEF Read_Crc, Multi, Finish, MotorStop, MotorStopped, FDC_CmdCompleteCommon,
         StateAfter
    <3> QED
      BY <1>4, <3>1, <3>2, <3>3, <3>4 DEF FDC_InterruptHandler_Update
  <2> QED
    BY <2>1, <2>2
<1> QED
  BY <1>1, <1>2, <1>3, <1>4

(* A step outside the controller that changes the place is recorded as     *)
(* meddling.                                                               *)
LEMMA OutsideMeant == ASSUME Meant, Outside PROVE Meant'
<1>1. access' = Nothing
  BY DEF Outside, FDC_WriteCommandRegister, FDC_WriteRegister, FDC_ReadStatus, FDC_WriteDma,
     HDC_IRQ, FDC_SetDriveSide, FDC_InsertFloppy, FDC_EjectFloppy, FDC_Drive_Set_Enable, FDC_Reset
<1>2. \/ found' = Nothing
      \/ SamePlace /\ UNCHANGED <<found, Command, CommandState>>
  BY DEF Outside, FDC_WriteCommandRegister, FDC_WriteRegister, FDC_ReadStatus, FDC_WriteDma,
     HDC_IRQ, FDC_SetDriveSide, FDC_InsertFloppy, FDC_EjectFloppy, FDC_Drive_Set_Enable, FDC_Reset,
     SamePlace, regVars, driveVars, stateVars, dataVars
<1> QED
  BY <1>1, <1>2, SamePlaceSame DEF Meant, SectorMeant, Transferring

(* Every step keeps the transfer at the place it was begun for.            *)
LEMMA NextMeant == Meant /\ [Next]_vars => Meant'
<1> SUFFICES ASSUME Meant, [Next]_vars PROVE Meant'
  OBVIOUS
<1>1. CASE PulseStep
  <2>1. SamePlace /\ UNCHANGED <<found, Command, CommandState>> /\ access' = Nothing
    BY <1>1 DEF PulseStep, FDC_IndexPulse_Increase, FDC_IndexPulse_Init,
       IndexPassesUnnoticed, SamePlace, regVars, driveVars,
       stateVars, dataVars
  <2> QED
    BY <2>1, SamePlaceSame DEF Meant, SectorMeant, Transferring
<1>2. CASE UNCHANGED vars
  <2>1. SamePlace /\ UNCHANGED <<found, Command, CommandState, access>>
    BY <1>2 DEF vars, SamePlace, regVars, driveVars, stateVars, dataVars
  <2> QED
    BY <2>1, SamePlaceSame DEF Meant, SectorMeant, Transferring
<1> QED
  BY <1>1, <1>2, UpdateMeant, OutsideMeant DEF Next, Machine, PulseStep

(* Whatever happens between the header of a sector and its bytes, they are *)
(* those of that sector, or the program has meddled.                       *)
THEOREM SectorCorrect == Spec => []SectorMeant
<1>1. Init => Meant
  BY DEF Init, Meant, SectorMeant
<1>2. Meant /\ [Next]_vars => Meant'
  BY NextMeant
<1>3. Meant => SectorMeant
  BY DEF Meant
<1> QED
  BY <1>1, <1>2, <1>3, PTL DEF Spec

-----------------------------------------------------------------------------
(* The bytes that the DMA stores.                                          *)

F == FDC_DMA_FIFO_SIZE
S == FDC_DMA_SECTOR_SIZE

(* Bytes that may still be stored before the sector count goes down.       *)
Rest == IF BytesInSector = 0 THEN F ELSE BytesInSector

(* What is stored and what the sector count still allows is within what    *)
(* the program gave; the rest of a sector is a number of whole FIFOs.      *)
Granted ==
  /\ WithinGrant
  /\ SectorCount > 0 => moved + (SectorCount - 1) * S + Rest <= granted
  /\ \E k \in Nat : BytesInSector = k * F

(* A DMA sector is a whole number of FIFOs.                                *)
LEMMA WholeFifos == \E k \in Nat \ {0} : S = k * F
<1>1. S % F = 0 /\ S \in Nat \ {0} /\ F \in Nat \ {0}
  BY DmaAssumption DEF S, F
<1>2. S = F * (S \div F) + (S % F)
  BY <1>1
<1>3. S \div F \in Nat
  BY <1>1
<1>4. S \div F # 0
  BY <1>1, <1>2
<1>5. S = (S \div F) * F
  BY <1>1, <1>2, <1>3
<1> QED
  BY <1>3, <1>4, <1>5

(* Arithmetic the solver does not find inside a larger leaf.               *)
LEMMA Distribute == \A a \in Int : \A b \in Nat : (a - 1) * b = a * b - b
OBVIOUS

(* What is left of the current DMA sector is at least one FIFO and at most *)
(* a sector.                                                               *)
LEMMA RestBounds == DmaTypeOK /\ Granted => Rest \in Nat /\ Rest >= F /\ Rest <= S
<1> SUFFICES ASSUME DmaTypeOK, Granted PROVE Rest \in Nat /\ Rest >= F /\ Rest <= S
  OBVIOUS
<1>0. F \in Nat \ {0} /\ S \in Nat \ {0}
  BY DmaAssumption DEF F, S
<1>1. \A k \in Nat \ {0} : k * F >= F
  BY <1>0
<1>2. S >= F
  BY <1>0, <1>1, WholeFifos
<1>3. BytesInSector = 0 \/ BytesInSector >= F
  BY <1>0, <1>1 DEF Granted
<1> QED
  BY <1>0, <1>2, <1>3 DEF Rest, DmaTypeOK, S

(* A sector that is used up, and the next one.                             *)
LEMMA NextUnit ==
  DmaTypeOK /\ SectorCount > 0 =>
    (SectorCount - 1) * S \in Nat /\ (SectorCount - 1 - 1) * S = (SectorCount - 1) * S - S
<1> SUFFICES ASSUME DmaTypeOK, SectorCount > 0
             PROVE  /\ (SectorCount - 1) * S \in Nat
                    /\ (SectorCount - 1 - 1) * S = (SectorCount - 1) * S - S
  OBVIOUS
<1>1. SectorCount - 1 \in Nat /\ S \in Nat
  BY DmaAssumption DEF DmaTypeOK, S
<1> QED
  BY <1>1, Distribute

(* A FIFO of bytes from the disk reaches memory only out of the grant.     *)
LEMMA PushGranted ==
  ASSUME DmaTypeOK, Granted, FDC_DMA_FIFO_Push
  PROVE  Granted'
<1>0. F \in Nat \ {0} /\ S \in Nat \ {0} /\ F = FDC_DMA_FIFO_SIZE /\ S = FDC_DMA_SECTOR_SIZE
  BY DmaAssumption DEF F, S
<1>1. CASE UNCHANGED <<SectorCount, BytesInSector, granted, moved>>
  BY <1>1 DEF Granted, WithinGrant, Rest
<1>2. CASE ~UNCHANGED <<SectorCount, BytesInSector, granted, moved>>
  <2>1. /\ SectorCount > 0 /\ SectorCount \in Nat
        /\ granted' = granted /\ moved' = moved + F
    BY <1>0, <1>2 DEF FDC_DMA_FIFO_Push, DmaTypeOK
  <2>2. moved + (SectorCount - 1) * S + Rest <= granted
    BY <2>1 DEF Granted
  <2>3. granted \in Nat /\ moved \in Nat /\ BytesInSector \in Nat
    BY DEF DmaTypeOK
  <2>4. WithinGrant'
    BY <1>0, <2>1, <2>2, <2>3, NextUnit, RestBounds DEF WithinGrant
  <2>5. CASE BytesInSector - F <= 0
    <3>1. SectorCount' = SectorCount - 1 /\ BytesInSector' = S
      BY <1>0, <1>2, <2>5 DEF FDC_DMA_FIFO_Push, SectorUsed
    <3>2. Rest' = S
      BY <1>0, <3>1 DEF Rest
    <3>3. (SectorCount' - 1) * S = (SectorCount - 1) * S - S
      BY <2>1, <3>1, NextUnit
    <3>4. moved' + (SectorCount' - 1) * S + S <= granted'
      BY <1>0, <2>1, <2>2, <2>3, <3>3, NextUnit, RestBounds
    <3>5. S' = S /\ F' = F
      BY DEF S, F
    <3> QED
      BY <2>4, <3>1, <3>2, <3>4, <3>5, WholeFifos DEF Granted
  <2>6. CASE ~(BytesInSector - F <= 0)
    <3>1. SectorCount' = SectorCount /\ BytesInSector' = BytesInSector - F
      BY <1>0, <1>2, <2>1, <2>3, <2>6 DEF FDC_DMA_FIFO_Push, SectorUsed
    <3>2. Rest = BytesInSector /\ Rest' = BytesInSector - F
      BY <1>0, <2>3, <2>6, <3>1 DEF Rest
    <3>3. moved' + (SectorCount' - 1) * S + Rest' <= granted'
      BY <1>0, <2>1, <2>2, <2>3, <3>1, <3>2, NextUnit
    <3>4. \E k \in Nat : BytesInSector' = k * F
      <4>1. PICK k \in Nat : BytesInSector = k * F
        BY DEF Granted
      <4>2. k # 0
        BY <1>0, <2>6, <4>1
      <4>3. BytesInSector' = (k - 1) * F
        BY <1>0, <3>1, <4>1, Distribute
      <4> QED
        BY <4>2, <4>3
    <3>5. S' = S /\ F' = F
      BY DEF S, F
    <3> QED
      BY <2>4, <3>3, <3>4, <3>5 DEF Granted
  <2> QED
    BY <2>5, <2>6
<1> QED
  BY <1>1, <1>2

(* A FIFO taken from memory for the disk is counted as a whole.            *)
LEMMA PullGranted ==
  ASSUME DmaTypeOK, Granted, FDC_DMA_FIFO_Pull
  PROVE  Granted'
<1>0. F \in Nat \ {0} /\ S \in Nat \ {0} /\ F = FDC_DMA_FIFO_SIZE /\ S = FDC_DMA_SECTOR_SIZE
  BY DmaAssumption DEF F, S
<1>1. granted' = granted /\ moved' = moved
  BY DEF FDC_DMA_FIFO_Pull
<1>2. CASE UNCHANGED <<SectorCount, BytesInSector>>
  BY <1>1, <1>2 DEF Granted, WithinGrant, Rest
<1>3. CASE ~UNCHANGED <<SectorCount, BytesInSector>>
  <2>1. SectorCount > 0 /\ SectorCount \in Nat
    BY <1>3 DEF FDC_DMA_FIFO_Pull, DmaTypeOK
  <2>2. moved + (SectorCount - 1) * S + Rest <= granted
    BY <2>1 DEF Granted
  <2>3. granted \in Nat /\ moved \in Nat /\ BytesInSector \in Nat
    BY DEF DmaTypeOK
  <2>4. WithinGrant'
    BY <1>1 DEF WithinGrant, Granted
  <2>5. S' = S /\ F' = F
    BY DEF S, F
  <2>6. CASE BytesInSector - F < 0
    <3>1. SectorCount' = SectorCount - 1 /\ BytesInSector' = S
      BY <1>0, <1>3, <2>6 DEF FDC_DMA_FIFO_Pull
    <3>2. Rest' = S
      BY <1>0, <3>1 DEF Rest
    <3>3. (SectorCount' - 1) * S = (SectorCount - 1) * S - S
      BY <2>1, <3>1, NextUnit
    <3>4. moved' + (SectorCount' - 1) * S + S <= granted'
      BY <1>0, <1>1, <2>1, <2>2, <2>3, <3>3, NextUnit, RestBounds
    <3> QED
      BY <2>4, <2>5, <3>1, <3>2, <3>4, WholeFifos DEF Granted
  <2>7. CASE ~(BytesInSector - F < 0)
    <3>1. SectorCount' = SectorCount /\ BytesInSector' = BytesInSector - F
      BY <1>0, <1>3, <2>1, <2>3, <2>7 DEF FDC_DMA_FIFO_Pull
    <3>2. Rest = BytesInSector /\ Rest' <= BytesInSector /\ Rest' \in Nat
      BY <1>0, <2>3, <2>5, <2>7, <3>1 DEF Rest
    <3>3. moved' + (SectorCount' - 1) * S + Rest' <= granted'
      <4>1. (SectorCount - 1) * S \in Nat
        BY <2>1, NextUnit
      <4>2. moved' + (SectorCount - 1) * S + Rest' <= granted'
        BY <1>0, <1>1, <2>2, <2>3, <3>2, <4>1
      <4> QED
        BY <3>1, <4>2
    <3>4. \E k \in Nat : BytesInSector' = k * F
      <4>1. PICK k \in Nat : BytesInSector = k * F
        BY DEF Granted
      <4>2. k # 0
        BY <1>0, <2>7, <4>1
      <4>3. BytesInSector' = (k - 1) * F
        BY <1>0, <3>1, <4>1, Distribute
      <4> QED
        BY <4>2, <4>3
    <3> QED
      BY <2>4, <2>5, <3>3, <3>4 DEF Granted
  <2> QED
    BY <2>6, <2>7
<1> QED
  BY <1>2, <1>3

(* A reset of the DMA takes back what was granted and what was used.       *)
LEMMA ResetGranted == ASSUME FDC_ResetDMA PROVE Granted'
<1>1. PICK k \in Nat \ {0} : S = k * F
  BY WholeFifos
<1>2. BytesInSector' = k * F'
  BY <1>1 DEF FDC_ResetDMA, S, F
<1> QED
  BY <1>2 DEF FDC_ResetDMA, Granted, WithinGrant

(* Writing the sector count grants that many sectors anew.                 *)
LEMMA CountGranted ==
  ASSUME DmaTypeOK, Granted, NEW n \in 0..MaxCount, FDC_WriteSectorCountRegister(n)
  PROVE  Granted'
<1>0. F \in Nat \ {0} /\ S \in Nat \ {0} /\ F = FDC_DMA_FIFO_SIZE /\ S = FDC_DMA_SECTOR_SIZE
  BY DmaAssumption DEF F, S
<1>1. SectorCount' = n /\ granted' = n * S /\ moved' = 0 /\ BytesInSector' = BytesInSector
  BY <1>0 DEF FDC_WriteSectorCountRegister
<1>2. n \in Nat /\ n * S \in Nat
  BY <1>0
<1>3. Rest' = Rest /\ S' = S /\ F' = F
  BY <1>1 DEF Rest, S, F
<1>4. (n - 1) * S + Rest <= n * S
  BY <1>0, <1>2, RestBounds, Distribute
<1>5. WithinGrant'
  BY <1>1, <1>2 DEF WithinGrant
<1>6. moved' + (SectorCount' - 1) * S + Rest' <= granted'
  <2>1. (n - 1) * S \in Int /\ Rest \in Nat
    BY <1>0, <1>2, RestBounds
  <2> QED
    BY <1>1, <1>2, <1>3, <1>4, <2>1
<1>7. \E k \in Nat : BytesInSector' = k * F
  BY <1>1 DEF Granted
<1> QED
  BY <1>3, <1>5, <1>6, <1>7 DEF Granted

(* Every step keeps the bytes transferred within the grant.                *)
LEMMA NextGranted == FdcTypeOK /\ Granted /\ [Next]_vars => Granted'
<1> SUFFICES ASSUME FdcTypeOK, Granted, [Next]_vars PROVE Granted'
  OBVIOUS
<1>1. DmaTypeOK
  BY DEF FdcTypeOK
<1>2. CASE UNCHANGED <<SectorCount, BytesInSector, granted, moved>>
  BY <1>2 DEF Granted, WithinGrant, Rest
<1>3. CASE FDC_InterruptHandler_Update
  <2>1. \/ UNCHANGED <<SectorCount, BytesInSector, granted, moved>>
        \/ FDC_DMA_FIFO_Push \/ FDC_DMA_FIFO_Pull
    BY <1>3 DEF FDC_InterruptHandler_Update, FDC_Set_MotorON, HeadLoad, Sought_MotorOn,
       Tracks_MotorOn, Restore_MotorOn, Restore_Loop, FDC_UpdateSeekCmd, FDC_UpdateStepCmd,
       Verify, Verify_HeadOk, NextHeader, FDC_VerifyTrack, CheckHeader, FDC_ReadSector_ST,
       FDC_ReadAddress_ST, FDC_ReadTrack_ST, TransferToDma, WriteSector_Start,
       WriteTrack_Start, TransferFromDma, Read_Crc, FDC_WriteSector_ST, Multi, Finish,
       MotorStop, MotorStopped, dmaVars
  <2> QED
    BY <1>1, <1>2, <2>1, PushGranted, PullGranted
<1>4. CASE Outside
  <2>1. \/ UNCHANGED <<SectorCount, BytesInSector, granted, moved>>
        \/ FDC_ResetDMA
        \/ \E n \in 0..MaxCount : FDC_WriteSectorCountRegister(n)
    BY <1>4 DEF Outside, FDC_WriteCommandRegister, FDC_WriteRegister, FDC_ReadStatus,
       FDC_WriteDma, FDC_DmaModeControl_WriteWord, HDC_IRQ, FDC_SetDriveSide,
       FDC_InsertFloppy, FDC_EjectFloppy, FDC_Drive_Set_Enable, FDC_Reset, dmaVars
  <2> QED
    BY <1>1, <1>2, <2>1, ResetGranted, CountGranted
<1>5. CASE PulseStep \/ UNCHANGED vars
  BY <1>2, <1>5 DEF PulseStep, FDC_IndexPulse_Increase, FDC_IndexPulse_Init,
       IndexPassesUnnoticed, vars, dmaVars
<1> QED
  BY <1>3, <1>4, <1>5 DEF Next, Machine, PulseStep

(* The DMA never stores more than the program gave it.                     *)
THEOREM GrantCorrect == Spec => []WithinGrant
<1>1. Init => Granted
  <2>1. PICK k \in Nat \ {0} : S = k * F
    BY WholeFifos
  <2> QED
    BY <2>1 DEF Init, DmaInit, Granted, WithinGrant, S
<1>2. FdcTypeOK /\ Granted /\ [Next]_vars => Granted'
  BY NextGranted
<1>3. Granted => WithinGrant
  BY DEF Granted
<1> QED
  BY <1>1, <1>2, <1>3, TypeCorrect, PTL DEF Spec

-----------------------------------------------------------------------------
(* What a command still has to do.                                         *)

SectorsFrom(s) == IF s \in 1..SectorsPerTrack THEN SectorsPerTrack + 1 - s ELSE 0

Transfers == {"TRANSFER_START", "TRANSFER_LOOP", "CRC", "MULTI"}
Closing == {"RNF", "COMPLETE"}

(* Most significant: the sectors of a type II command, counted twice: with *)
(* its header recognised a sector is half done.                            *)
SectorsToDo ==
  IF Command \notin TypeII \/ CommandState \in Closing THEN 0
  ELSE IF CommandState \in Transfers THEN 2 * SectorsFrom((SR + 1) % BYTE) + 1
  ELSE 2 * SectorsFrom(SR)

(* Then the stages that one sector, or the command, still goes through.    *)
Stage(state) ==
  CASE state = "START" -> 14
    [] state = "SPIN_UP" -> 13
    [] state = "HEAD_LOAD" -> 12
    [] state = "MOTOR_ON" -> 11
    [] state = "LOOP" -> 10
    [] state = "VERIFY" -> 9
    [] state = "HEAD_OK" -> 8
    [] state \in {"NEXT_HEADER", "CHECK_HEADER"} -> 7
    [] state = "TRANSFER_START" -> 6
    [] state = "INDEX" -> 5
    [] state = "TRANSFER_LOOP" -> 4
    [] state = "CRC" -> 3
    [] state = "MULTI" -> 2
    [] state = "RNF" -> 1
    [] OTHER -> 0

Remaining(done, all) == IF done < all THEN all - done ELSE 0

(* FDC_UpdateSeekCmd moves the head in SPIN_UP or in MOTOR_ON.             *)
TracksToGo ==
  IF Command = "SEEK" THEN (IF TR < DR THEN DR - TR ELSE TR - DR) ELSE 0

BytesToGo ==
  IF Command \in {"WRITESECTORS", "WRITETRACK"} THEN Remaining(0, BytesToTransfer)
  ELSE Remaining(Buffer.PosRead, Buffer.Size)

(* Last, what is left of the stage: pulses, tracks or bytes.               *)
StageToDo ==
  CASE CommandState = "SPIN_UP" -> Remaining(IndexPulse_Counter, FDC_DELAY_IP_SPIN_UP) + TracksToGo
    [] CommandState = "MOTOR_ON" -> TracksToGo
    [] CommandState = "LOOP" -> TR
    [] Searching /\ ~NotFound -> FDC_DELAY_IP_ADDRESS_ID - IndexPulse_Counter + 1
    [] CommandState = "CHECK_HEADER" /\ NotFound -> 1
    [] CommandState = "TRANSFER_LOOP" -> BytesToGo
    [] OTHER -> 0

WorkDrops ==
  \/ SectorsToDo' < SectorsToDo
  \/ SectorsToDo' = SectorsToDo /\ Stage(CommandState') < Stage(CommandState)
  \/ /\ SectorsToDo' = SectorsToDo /\ Stage(CommandState') = Stage(CommandState)
     /\ StageToDo' < StageToDo

WorkKept ==
  /\ SectorsToDo' = SectorsToDo /\ Stage(CommandState') = Stage(CommandState)
  /\ StageToDo' = StageToDo

(* A running command with a disk in its drive gets on with every state of  *)
(* FDC_InterruptHandler_Update and with every pulse it counts (fdc.c),     *)
(* until it ends, whatever the program, the user and the DMA left behind:  *)
(* only the headers that pass before the last such pulse bring it no       *)
(* further.                                                                *)
WorkShrinks ==
  [][Machine /\ Ready /\ Command \in AllCommands =>
       \/ Command' \notin AllCommands
       \/ WorkDrops
       \/ /\ WorkKept
          /\ \/ FDC_IndexPulse_Init \/ IndexPassesUnnoticed
             \/ FDC_IndexPulse_Increase /\ ~Counts
             \/ FDC_InterruptHandler_Update /\ Searching /\ ~NotFound]_vars

(* The pulses that a search still counts.                                  *)
PulsesLeft ==
  IF NotFound THEN 0 ELSE FDC_DELAY_IP_ADDRESS_ID - IndexPulse_Counter

(* What is left is never negative: these numbers cannot fall for ever.     *)
WorkBounded ==
  /\ SectorsToDo \in Nat /\ Stage(CommandState) \in Nat /\ StageToDo \in Nat
  /\ PulsesLeft \in Nat

LEMMA WorkIsNat == FdcTypeOK => WorkBounded
<1> SUFFICES ASSUME FdcTypeOK PROVE WorkBounded
  OBVIOUS
<1> USE FdcAssumption, DmaAssumption
<1>1. TR \in Nat /\ DR \in Nat /\ SR \in Nat /\ IndexPulse_Counter \in Nat /\ BytesToTransfer \in Int
      /\ Buffer.Size \in Nat /\ Buffer.PosRead \in Nat
  BY DEF FdcTypeOK, RegistersOK, Bytes, DataOK, DmaTypeOK
<1>2. SectorsFrom(SR) \in Nat /\ SectorsFrom((SR + 1) % BYTE) \in Nat
  <2>1. (SR + 1) % BYTE \in Nat
    BY <1>1
  <2> QED
    BY <1>1, <2>1 DEF SectorsFrom
<1>3. SectorsToDo \in Nat
  BY <1>2 DEF SectorsToDo
<1>4. Stage(CommandState) \in Nat
  BY DEF Stage
<1>5. TracksToGo \in Nat /\ BytesToGo \in Nat
  BY <1>1 DEF TracksToGo, BytesToGo, Remaining
<1>6. StageToDo \in Nat
  BY <1>1, <1>5 DEF StageToDo, Remaining, NotFound
<1>7. PulsesLeft \in Nat
  BY <1>1 DEF PulsesLeft, NotFound
<1> QED
  BY <1>3, <1>4, <1>6, <1>7 DEF WorkBounded

(* What this needs to know of the states: a command that is past its start *)
(* has turned the motor on, and the header that is looked at is one of a   *)
(* sector of the disk.                                                     *)
Underway ==
  /\ Command \in AllCommands /\ CommandState # "START" => "MOTOR_ON" \in STR
  /\ CommandState = "CHECK_HEADER" => ID.SR \in 1..SectorsPerTrack

LEMMA UpdateUnderway ==
  ASSUME FdcTypeOK, Staged, Underway, FDC_InterruptHandler_Update
  PROVE  Underway'
<1> USE NamesDiffer DEF Names
<1>1. Command' \in AllCommands => Command \in AllCommands /\ "MOTOR_ON" \in STR'
  <2>1. CASE FDC_Set_MotorON
    BY <2>1 DEF FDC_Set_MotorON, Active
  <2>2. CASE HeadLoad \/ Sought_MotorOn \/ Tracks_MotorOn \/ Restore_MotorOn \/ Restore_Loop
             \/ FDC_UpdateSeekCmd \/ FDC_UpdateStepCmd \/ Verify \/ Verify_HeadOk \/ NextHeader
             \/ FDC_VerifyTrack \/ CheckHeader
    BY <2>2 DEF HeadLoad, Sought_MotorOn, Tracks_MotorOn, AtHeadLoad, AtMotorOn, AtMotorOnI, SpunUp,
       Restore_MotorOn, Restore_Loop, FDC_UpdateSeekCmd, FDC_UpdateStepCmd, Verify, Verify_HeadOk,
       NextHeader, FDC_VerifyTrack, CheckHeader, Active, Go, Continue, Status, FDC_CmdCompleteCommon,
       Underway
  <2>3. CASE FDC_ReadSector_ST \/ FDC_ReadAddress_ST \/ FDC_ReadTrack_ST \/ TransferToDma
             \/ WriteSector_Start \/ WriteTrack_Start \/ TransferFromDma
             \/ Read_Crc \/ FDC_WriteSector_ST \/ Multi \/ Finish
    BY <2>3 DEF FDC_ReadSector_ST, FDC_ReadAddress_ST, FDC_ReadTrack_ST, TransferToDma,
       WriteSector_Start, WriteTrack_Start, TransferFromDma, Read_Crc, FDC_WriteSector_ST, Multi,
       Finish, Active, Go, Continue, Status, FDC_CmdCompleteCommon, Underway
  <2>4. CASE MotorStop \/ MotorStopped
    BY <2>4 DEF MotorStop, MotorStopped, Active, Go, Continue
  <2> QED
    BY <2>1, <2>2, <2>3, <2>4 DEF FDC_InterruptHandler_Update
<1>2. CommandState' = "CHECK_HEADER" => ID'.SR \in 1..SectorsPerTrack
  <2>1. CASE NextHeader
    BY <2>1 DEF NextHeader, Go, Continue
  <2>2. CASE FDC_Set_MotorON \/ HeadLoad \/ Sought_MotorOn \/ Tracks_MotorOn \/ Restore_MotorOn
             \/ Restore_Loop \/ FDC_UpdateSeekCmd \/ FDC_UpdateStepCmd \/ Verify \/ Verify_HeadOk
             \/ FDC_VerifyTrack \/ CheckHeader
    BY <2>2 DEF FDC_Set_MotorON, HeadLoad, Sought_MotorOn, Tracks_MotorOn, AtHeadLoad, AtMotorOn,
       AtMotorOnI, SpunUp, Restore_MotorOn, Restore_Loop, FDC_UpdateSeekCmd, FDC_UpdateStepCmd, Verify,
       Verify_HeadOk, FDC_VerifyTrack, CheckHeader, Active, Go, Continue, FDC_CmdCompleteCommon,
       StateAfter, Underway
  <2>3. CASE FDC_ReadSector_ST \/ FDC_ReadAddress_ST \/ FDC_ReadTrack_ST \/ TransferToDma
             \/ WriteSector_Start \/ WriteTrack_Start \/ TransferFromDma
             \/ Read_Crc \/ FDC_WriteSector_ST \/ Multi \/ Finish \/ MotorStop \/ MotorStopped
    BY <2>3 DEF FDC_ReadSector_ST, FDC_ReadAddress_ST, FDC_ReadTrack_ST, TransferToDma,
       WriteSector_Start, WriteTrack_Start, TransferFromDma, Read_Crc, FDC_WriteSector_ST, Multi,
       Finish, MotorStop, MotorStopped, Active, Go, Continue, FDC_CmdCompleteCommon, StateAfter
  <2> QED
    BY <2>1, <2>2, <2>3 DEF FDC_InterruptHandler_Update
<1> QED
  BY <1>1, <1>2 DEF Underway

LEMMA UnderwayCorrect == Spec => []Underway
<1>1. Init => Underway
  BY NamesDiffer DEF Init, Names, Underway
<1>2. FdcTypeOK /\ Staged /\ Underway /\ [Next]_vars => Underway'
  <2> SUFFICES ASSUME FdcTypeOK, Staged, Underway, [Next]_vars PROVE Underway'
    OBVIOUS
  <2>1. CASE FDC_InterruptHandler_Update
    BY <2>1, UpdateUnderway
  <2>2. CASE PulseStep \/ UNCHANGED vars
    BY <2>2 DEF PulseStep, FDC_IndexPulse_Increase, FDC_IndexPulse_Init,
       IndexPassesUnnoticed, vars, stateVars, dataVars, Underway
  <2>3. CASE Outside
    <3>1. UNCHANGED ID
      BY <2>3 DEF Outside, FDC_WriteCommandRegister, FDC_WriteRegister, FDC_ReadStatus, FDC_WriteDma,
         HDC_IRQ, FDC_SetDriveSide, FDC_InsertFloppy, FDC_EjectFloppy, FDC_Drive_Set_Enable, FDC_Reset,
         dataVars
    <3>2. CASE Begins
      BY <3>1, <3>2, NamesDiffer DEF Begins, Names, Underway
    <3>3. CASE Ends \/ Cleared
      BY <3>1, <3>3, NamesDiffer DEF Ends, Cleared, Names, Underway
    <3>4. CASE Alone
      BY <3>1, <3>4 DEF Alone, Underway
    <3> QED
      BY <2>3, <3>2, <3>3, <3>4, OutsideCommand
  <2> QED
    BY <2>1, <2>2, <2>3 DEF Next, Machine, PulseStep
<1> QED
  BY <1>1, <1>2, TypeCorrect, StagedCorrect, PTL DEF Spec

(* A later stage of the same sector.                                       *)
LEMMA StageDrops ==
  ASSUME FdcTypeOK, FdcTypeOK', Command' = Command,
         Stage(CommandState') < Stage(CommandState),
         Command \in TypeII =>
           SR' = SR /\ (CommandState' \in Closing \/ (CommandState \in Transfers <=> CommandState' \in Transfers)),
         CommandState \notin Closing
  PROVE  WorkDrops
<1>1. SectorsToDo \in Nat /\ SectorsToDo' \in Nat
  <2>1. WorkBounded /\ WorkBounded'
    BY WorkIsNat, PTL
  <2> QED
    BY <2>1 DEF WorkBounded
<1>2. SectorsToDo' = 0 \/ SectorsToDo' = SectorsToDo
  BY DEF SectorsToDo
<1> QED
  BY <1>1, <1>2 DEF WorkDrops

(* The states of a command, with a disk in the drive, one by one.          *)
LEMMA UpdateDrops ==
  ASSUME FdcTypeOK, FdcTypeOK', Staged, Underway, FDC_InterruptHandler_Update, Ready,
         Command \in AllCommands, Command' \in AllCommands
  PROVE  WorkDrops \/ (WorkKept /\ Searching /\ ~NotFound)
<1>1. Command' = Command
  BY UpdateCommand, NamesDiffer DEF GoesOn, Completes, Ends, Idles, Names
<1>2. CommandState \in States \ Resting
  BY DEF Staged, FdcTypeOK, StatesOK
<1>3. SectorsToDo \in Nat /\ SectorsToDo' \in Nat /\ StageToDo \in Nat /\ StageToDo' \in Nat
  <2>1. WorkBounded /\ WorkBounded'
    BY WorkIsNat, PTL
  <2> QED
    BY <2>1 DEF WorkBounded
<1> USE DEF Active, Go, Continue, Elsewhere, Unmoved
<1>4. CASE FDC_Set_MotorON
  BY <1>1, <1>4, StageDrops DEF FDC_Set_MotorON, Stage, Transfers, Closing
<1>5. CASE HeadLoad
  BY <1>1, <1>5, StageDrops DEF HeadLoad, AtHeadLoad, SpunUp, Stage, Transfers, Closing
<1>6. CASE Sought_MotorOn
  BY <1>1, <1>6, StageDrops DEF Sought_MotorOn, AtMotorOn, AtHeadLoad, SpunUp, Ready, Stage, Transfers, Closing
<1>7. CASE Tracks_MotorOn
  <2>1. CommandState \in {"SPIN_UP", "HEAD_LOAD", "MOTOR_ON"} /\ Updated /\ Command \notin TypeII
    BY <1>7 DEF Tracks_MotorOn, AtMotorOn, AtHeadLoad, SpunUp, Tracks, TypeII
  <2>2. Selected /\ Indexed[DriveSelSignal]
    BY <2>1 DEF Underway, Updated, Spinning, Ready
  <2>3. CommandState' = "INDEX"
    BY <1>7, <2>2 DEF Tracks_MotorOn
  <2> QED
    BY <1>1, <2>1, <2>3, StageDrops DEF Stage, Closing
<1>8. CASE Restore_MotorOn
  BY <1>1, <1>8, StageDrops DEF Restore_MotorOn, AtMotorOnI, SpunUp, Stage, TypeII, Closing
<1>9. CASE Restore_Loop
  <2>1. Command = "RESTORE" /\ CommandState = "LOOP" /\ TR \in Nat
    BY <1>9 DEF Restore_Loop, FdcTypeOK, RegistersOK, Bytes
  <2>2. CASE CommandState' = "VERIFY"
    BY <1>1, <2>1, <2>2, StageDrops DEF Stage, TypeII, Closing
  <2>3. CASE CommandState' = "LOOP" /\ TR' = TR - 1
    <3>1. SectorsToDo' = SectorsToDo /\ StageToDo = TR /\ StageToDo' = TR'
      BY <1>1, <2>1, <2>3 DEF SectorsToDo, TypeII, StageToDo, Searching
    <3> QED
      BY <2>1, <2>3, <3>1 DEF WorkDrops
  <2>4. ~FDC_CmdCompleteCommon({"RNF"})
    BY NamesDiffer DEF FDC_CmdCompleteCommon, Names
  <2> QED
    BY <1>9, <2>2, <2>3, <2>4 DEF Restore_Loop
<1>10. CASE FDC_UpdateSeekCmd
  <2>1. /\ Command = "SEEK" /\ CommandState \in {"SPIN_UP", "MOTOR_ON"}
        /\ TR \in Nat /\ DR \in Nat /\ DR' = DR /\ IndexPulse_Counter' = IndexPulse_Counter
        /\ IndexPulse_Counter \in Nat
    BY <1>10 DEF FDC_UpdateSeekCmd, AtMotorOnI, SpunUp, FdcTypeOK, RegistersOK, DataOK, Bytes, dataVars
  <2>2. CASE CommandState' = "VERIFY"
    BY <1>1, <2>1, <2>2, StageDrops DEF Stage, TypeII, Closing
  <2>3. CASE CommandState' # "VERIFY"
    <3> DEFINE direction == IF DR < TR THEN -1 ELSE 1
    <3>1. TR # DR /\ ~Blocked(direction) /\ CommandState' = CommandState
          /\ TR' = IF direction = -1 /\ Blocked(-1) THEN 0 ELSE TR + direction
      BY <1>10, <2>3 DEF FDC_UpdateSeekCmd
    <3>2. TR' = TR + direction
      BY <3>1
    <3>3. TracksToGo \in Nat /\ TracksToGo' = TracksToGo - 1
      BY <1>1, <2>1, <3>1, <3>2 DEF TracksToGo
    <3>4. StageToDo' < StageToDo
      <4> DEFINE r == Remaining(IndexPulse_Counter, FDC_DELAY_IP_SPIN_UP)
      <4>1. r \in Nat /\ r' = r
        BY <2>1, FdcAssumption DEF Remaining
      <4>2. CASE CommandState = "SPIN_UP"
        <5>1. StageToDo = r + TracksToGo /\ StageToDo' = r' + TracksToGo'
          BY <3>1, <4>2 DEF StageToDo, Searching
        <5> HIDE DEF r
        <5> QED
          BY <3>3, <4>1, <5>1
      <4>3. CASE CommandState = "MOTOR_ON"
        <5>1. StageToDo = TracksToGo /\ StageToDo' = TracksToGo'
          BY <3>1, <4>3 DEF StageToDo, Searching
        <5> QED
          BY <3>3, <5>1
      <4> QED
        BY <2>1, <4>2, <4>3
    <3>5. SectorsToDo' = SectorsToDo
      BY <1>1, <2>1 DEF SectorsToDo, TypeII
    <3> QED
      BY <3>1, <3>4, <3>5 DEF WorkDrops
  <2> QED
    BY <2>2, <2>3
<1>11. CASE FDC_UpdateStepCmd
  BY <1>1, <1>11, StageDrops DEF FDC_UpdateStepCmd, AtMotorOnI, SpunUp, Stage, TypeII, Closing
<1>12. CASE Verify \/ Verify_HeadOk
  BY <1>1, <1>12, StageDrops DEF Verify, Verify_HeadOk, TypeICommands, Stage, TypeII, Closing
<1>13. CASE NextHeader
  <2>1. CommandState = "NEXT_HEADER" /\ SR' = SR /\ IndexPulse_Counter' = IndexPulse_Counter
    BY <1>13 DEF NextHeader
  <2>2. CASE CommandState' \in {"COMPLETE", "RNF"}
    BY <1>1, <2>1, <2>2, StageDrops DEF Stage, Closing, Transfers
  <2>3. CASE CommandState' = "TRANSFER_START"
    <3>1. Command \notin TypeII
      BY <1>13, <2>3 DEF NextHeader, TypeII
    <3> QED
      BY <1>1, <2>1, <2>3, <3>1, StageDrops DEF Stage, Closing, Transfers
  <2>4. CASE CommandState' \in {"NEXT_HEADER", "CHECK_HEADER"} /\ ~NotFound
    BY <1>1, <2>1, <2>4 DEF WorkKept, SectorsToDo, Stage, StageToDo, Searching, NotFound, Closing, Transfers
  <2> QED
    BY <1>13, <2>2, <2>3, <2>4 DEF NextHeader
<1>14. CASE FDC_VerifyTrack \/ CheckHeader
  <2>1. CommandState = "CHECK_HEADER" /\ SR' = SR /\ IndexPulse_Counter' = IndexPulse_Counter
    BY <1>14 DEF FDC_VerifyTrack, CheckHeader, dataVars
  <2>2. CASE CommandState' = "NEXT_HEADER" /\ ~NotFound
    BY <1>1, <2>1, <2>2 DEF WorkKept, SectorsToDo, Stage, StageToDo, Searching, NotFound, Closing, Transfers
  <2>3. CASE CommandState' = "NEXT_HEADER" /\ NotFound
    <3>1. SectorsToDo' = SectorsToDo /\ Stage(CommandState') = Stage(CommandState)
      BY <1>1, <2>1, <2>3 DEF SectorsToDo, Stage, Closing, Transfers
    <3>2. StageToDo = 1 /\ StageToDo' = 0
      BY <2>1, <2>3 DEF StageToDo, Searching, NotFound
    <3> QED
      BY <3>1, <3>2 DEF WorkDrops
  <2>4. CASE CommandState' = "COMPLETE"
    BY <1>1, <2>1, <2>4, StageDrops DEF Stage, Closing, Transfers
  <2>5. CASE CommandState' = "TRANSFER_START"
    <3>1. CheckHeader /\ HeaderMatches /\ Command \in TypeII
      BY <1>14, <2>5 DEF FDC_VerifyTrack, CheckHeader
    <3>2. SR \in 1..SectorsPerTrack
      BY <2>1, <3>1 DEF HeaderMatches, Underway
    <3>3. SectorsFrom(SR) = SectorsPerTrack + 1 - SR
      BY <3>2 DEF SectorsFrom
    <3>4. SectorsFrom((SR + 1) % BYTE) \in Nat
          /\ SectorsFrom((SR + 1) % BYTE) <= SectorsPerTrack - SR
      <4>1. CASE SR + 1 = BYTE
        <5>1. (SR + 1) % BYTE = 0
          BY <4>1, FdcAssumption
        <5> QED
          BY <3>2, <5>1, FdcAssumption DEF SectorsFrom
      <4>2. CASE SR + 1 # BYTE
        <5>1. (SR + 1) % BYTE = SR + 1
          BY <3>2, <4>2, FdcAssumption
        <5> QED
          BY <3>2, <5>1, FdcAssumption DEF SectorsFrom
      <4> QED
        BY <4>1, <4>2
    <3>5. SectorsToDo = 2 * SectorsFrom(SR)
      BY <2>1, <3>1 DEF SectorsToDo, Closing, Transfers
    <3>6. SectorsToDo' = 2 * SectorsFrom((SR + 1) % BYTE) + 1
      BY <1>1, <2>1, <2>5, <3>1 DEF SectorsToDo, Closing, Transfers
    <3> QED
      BY <3>2, <3>3, <3>4, <3>5, <3>6, FdcAssumption DEF WorkDrops
  <2> QED
    BY <1>14, <2>2, <2>3, <2>4, <2>5 DEF FDC_VerifyTrack, CheckHeader
<1>15. CASE FDC_ReadSector_ST \/ WriteSector_Start
  BY <1>1, <1>15, StageDrops DEF FDC_ReadSector_ST, WriteSector_Start, Stage, Closing, Transfers
<1>16. CASE FDC_ReadAddress_ST \/ FDC_ReadTrack_ST
  <2>1. CommandState \in {"TRANSFER_START", "INDEX"} /\ CommandState' = "TRANSFER_LOOP"
        /\ Command \notin TypeII
    BY <1>16 DEF FDC_ReadAddress_ST, FDC_ReadTrack_ST, TypeII
  <2> QED
    BY <1>1, <2>1, StageDrops DEF Stage, Closing
<1>17. CASE WriteTrack_Start
  <2>1. ~FDC_CmdCompleteCommon({"WPRT"})
    BY NamesDiffer DEF FDC_CmdCompleteCommon, Names
  <2> QED
    BY <1>1, <1>17, <2>1, StageDrops DEF WriteTrack_Start, Stage, Closing, TypeII
<1>18. CASE TransferToDma
  <2>1. CommandState = "TRANSFER_LOOP" /\ SR' = SR /\ Command \notin {"WRITESECTORS", "WRITETRACK"}
        /\ Buffer' = [Buffer EXCEPT !.PosRead = Buffer.PosRead + 1]
    BY <1>18 DEF TransferToDma
  <2>2. CASE CommandState' \in {"CRC", "COMPLETE"}
    BY <1>1, <2>1, <2>2, StageDrops DEF Stage, Closing, Transfers
  <2>3. CASE CommandState' = "TRANSFER_LOOP" /\ ~(Buffer.PosRead + 1 >= Buffer.Size)
    <3>1. Buffer \in [Size : Nat, PosRead : Nat]
      BY DEF FdcTypeOK, DataOK
    <3>2. Buffer'.Size = Buffer.Size /\ Buffer'.PosRead = Buffer.PosRead + 1
      BY <2>1, <3>1
    <3>3. BytesToGo' < BytesToGo
      BY <1>1, <2>1, <2>3, <3>1, <3>2 DEF BytesToGo, Remaining
    <3>4. StageToDo = BytesToGo /\ StageToDo' = BytesToGo'
      BY <2>1, <2>3 DEF StageToDo, Searching
    <3>5. SectorsToDo' = SectorsToDo
      BY <1>1, <2>1, <2>3 DEF SectorsToDo
    <3> QED
      BY <2>1, <2>3, <3>3, <3>4, <3>5 DEF WorkDrops
  <2> QED
    BY <1>18, <2>2, <2>3 DEF TransferToDma
<1>19. CASE TransferFromDma
  <2>1. CommandState = "TRANSFER_LOOP" /\ SR' = SR /\ Command \in {"WRITESECTORS", "WRITETRACK"}
        /\ BytesToTransfer' = BytesToTransfer - 1 /\ BytesToTransfer \in Int
    BY <1>19 DEF TransferFromDma, FdcTypeOK, DmaTypeOK
  <2>2. CASE CommandState' \in {"CRC", "COMPLETE"}
    BY <1>1, <2>1, <2>2, StageDrops DEF Stage, Closing, Transfers
  <2>3. CASE CommandState' = "TRANSFER_LOOP" /\ BytesToTransfer > 0
    <3>1. BytesToGo' < BytesToGo
      BY <1>1, <2>1, <2>3 DEF BytesToGo, Remaining
    <3>2. StageToDo = BytesToGo /\ StageToDo' = BytesToGo'
      BY <2>1, <2>3 DEF StageToDo, Searching
    <3>3. SectorsToDo' = SectorsToDo
      BY <1>1, <2>1, <2>3 DEF SectorsToDo
    <3> QED
      BY <2>1, <2>3, <3>1, <3>2, <3>3 DEF WorkDrops
  <2> QED
    BY <1>19, <2>2, <2>3 DEF TransferFromDma
<1>20. CASE Read_Crc \/ FDC_WriteSector_ST
  <2>1. CommandState = "CRC" /\ CommandState' \in {"MULTI", "RNF"} /\ SR' = SR
    BY <1>20 DEF Read_Crc, FDC_WriteSector_ST
  <2> QED
    BY <1>1, <2>1, StageDrops DEF Stage, Closing, Transfers
<1>21. CASE Multi
  <2>1. CommandState = "MULTI" /\ Command \in TypeII
    BY <1>21 DEF Multi
  <2>2. CASE CommandState' = "COMPLETE" /\ SR' = SR
    BY <1>1, <2>1, <2>2, StageDrops DEF Stage, Closing, Transfers
  <2>3. CASE CommandState' \in {"NEXT_HEADER", "MOTOR_ON"} /\ SR' = (SR + 1) % BYTE
    <3>1. SectorsToDo = 2 * SectorsFrom((SR + 1) % BYTE) + 1
      BY <2>1 DEF SectorsToDo, Closing, Transfers
    <3>2. SectorsToDo' = 2 * SectorsFrom((SR + 1) % BYTE)
      BY <1>1, <2>1, <2>3 DEF SectorsToDo, Closing, Transfers
    <3>3. SectorsToDo' < SectorsToDo
      BY <1>3, <3>1, <3>2
    <3> QED
      BY <3>3 DEF WorkDrops
  <2> QED
    BY <1>21, <2>2, <2>3 DEF Multi
<1>22. ~Finish
  <2>1. Command' # "MOTOR_STOP"
    BY NamesDiffer DEF Names
  <2> QED
    BY <2>1 DEF Finish, FDC_CmdCompleteCommon
<1>23. CASE MotorStop \/ MotorStopped
  BY <1>23, NamesDiffer DEF MotorStop, MotorStopped, Names
<1> QED
  BY <1>4, <1>5, <1>6, <1>7, <1>8, <1>9, <1>10, <1>11, <1>12, <1>13, <1>14, <1>15, <1>16, <1>17,
     <1>18, <1>19, <1>20, <1>21, <1>22, <1>23 DEF FDC_InterruptHandler_Update

(* A pulse takes one off what is counted.                                  *)
LEMMA PulseDrops ==
  ASSUME FdcTypeOK, FDC_IndexPulse_Increase
  PROVE  (Counts => WorkDrops) /\ (~Counts => WorkKept)
<1>1. UNCHANGED <<Command, CommandState, TR, SR, DR, Buffer, BytesToTransfer>>
  BY DEF FDC_IndexPulse_Increase, regVars, stateVars, dmaVars
<1>2. SectorsToDo' = SectorsToDo /\ Stage(CommandState') = Stage(CommandState)
      /\ TracksToGo' = TracksToGo /\ BytesToGo' = BytesToGo
  BY <1>1 DEF SectorsToDo, TracksToGo, BytesToGo
<1>3. IndexPulse_Counter \in Nat /\ TR \in Nat /\ TracksToGo \in Nat
      /\ FDC_DELAY_IP_SPIN_UP \in Nat \ {0} /\ FDC_DELAY_IP_ADDRESS_ID \in Nat \ {0}
  BY FdcAssumption DEF FdcTypeOK, RegistersOK, DataOK, Bytes, TracksToGo
<1>4. PulseLimit \in Nat /\ PulseLimit >= FDC_DELAY_IP_SPIN_UP /\ PulseLimit >= FDC_DELAY_IP_ADDRESS_ID
  <2> DEFINE D == {FDC_DELAY_IP_SPIN_UP, FDC_DELAY_IP_MOTOR_OFF, FDC_DELAY_IP_ADDRESS_ID}
  <2>1. \E x \in D : \A y \in D : x >= y
    BY FdcAssumption
  <2>2. Max(D) \in D /\ \A y \in D : Max(D) >= y
    BY <2>1 DEF Max
  <2> QED
    BY <2>2, FdcAssumption DEF PulseLimit
<1>5. IndexPulse_Counter' =
        IndexPulse_Counter + (IF IndexPulse_Counter < PulseLimit THEN 1 ELSE 0)
  BY DEF FDC_IndexPulse_Increase
<1>6. CASE CommandState = "SPIN_UP"
  <2> DEFINE r == Remaining(IndexPulse_Counter, FDC_DELAY_IP_SPIN_UP)
  <2>1. StageToDo = r + TracksToGo /\ StageToDo' = r' + TracksToGo
    BY <1>1, <1>2, <1>6 DEF StageToDo, Searching
  <2>2. CASE IndexPulse_Counter < FDC_DELAY_IP_SPIN_UP
    <3>1. r \in Nat /\ r' \in Nat /\ r' < r
      BY <1>3, <1>4, <1>5, <2>2 DEF Remaining
    <3>2. r' + TracksToGo < r + TracksToGo
      BY <1>3, <3>1
    <3>3. StageToDo' < StageToDo
      BY <2>1, <3>2
    <3> QED
      BY <1>2, <1>6, <2>2, <3>3 DEF Counts, WorkDrops
  <2>3. CASE ~(IndexPulse_Counter < FDC_DELAY_IP_SPIN_UP)
    <3>1. r = 0 /\ r' = 0
      BY <1>3, <1>4, <1>5, <2>3 DEF Remaining
    <3>2. StageToDo' = StageToDo
      BY <2>1, <3>1
    <3> QED
      BY <1>2, <1>6, <2>3, <3>2 DEF Counts, Searching, WorkKept
  <2> QED
    BY <2>2, <2>3
<1>7. CASE Searching
  <2>1. CASE ~NotFound
    <3>1. StageToDo = FDC_DELAY_IP_ADDRESS_ID - IndexPulse_Counter + 1
      BY <1>7, <2>1 DEF StageToDo, Searching
    <3>2. \/ StageToDo' \in {0, 1}
          \/ StageToDo' = FDC_DELAY_IP_ADDRESS_ID - IndexPulse_Counter' + 1
      <4>1. CASE NotFound'
        BY <1>1, <1>7, <4>1 DEF StageToDo, Searching
      <4>2. CASE ~NotFound'
        BY <1>1, <1>7, <4>2 DEF StageToDo, Searching
      <4> QED
        BY <4>1, <4>2
    <3>3. IndexPulse_Counter < FDC_DELAY_IP_ADDRESS_ID /\ IndexPulse_Counter' = IndexPulse_Counter + 1
      BY <1>3, <1>4, <1>5, <2>1 DEF NotFound
    <3>4. StageToDo' < StageToDo
      BY <1>3, <3>1, <3>2, <3>3
    <3> QED
      BY <1>2, <1>7, <2>1, <3>4 DEF Counts, WorkDrops
  <2>2. CASE NotFound
    <3>1. NotFound'
      BY <1>3, <1>4, <1>5, <2>2 DEF NotFound
    <3>2. StageToDo' = StageToDo
      BY <1>1, <1>7, <2>2, <3>1 DEF StageToDo, Searching
    <3> QED
      BY <1>2, <1>7, <2>2, <3>2 DEF Counts, Searching, WorkKept
  <2> QED
    BY <2>1, <2>2
<1>8. CASE CommandState # "SPIN_UP" /\ ~Searching
  <2>1. StageToDo' = StageToDo
    BY <1>1, <1>2, <1>8 DEF StageToDo, Searching
  <2> QED
    BY <1>2, <1>8, <2>1 DEF Counts, WorkKept
<1> QED
  BY <1>6, <1>7, <1>8

(* Every command gets on, with every size of the disk and the registers    *)
(* (fdc.c, FDC_InterruptHandler_Update): left alone, it can run for ever   *)
(* only by waiting for pulses that do not come.                            *)
THEOREM WorkShrinksCorrect == Spec => WorkShrinks /\ []WorkBounded
<1>1. FdcTypeOK /\ FdcTypeOK' /\ Staged /\ Underway /\ [Next]_vars =>
        [Machine /\ Ready /\ Command \in AllCommands =>
           \/ Command' \notin AllCommands
           \/ WorkDrops
           \/ /\ WorkKept
              /\ \/ FDC_IndexPulse_Init
                 \/ FDC_IndexPulse_Increase /\ ~Counts
                 \/ IndexPassesUnnoticed
                 \/ FDC_InterruptHandler_Update /\ Searching /\ ~NotFound]_vars
  <2> SUFFICES ASSUME FdcTypeOK, FdcTypeOK', Staged, Underway, Machine, Ready, Command \in AllCommands,
                      Command' \in AllCommands
               PROVE  \/ WorkDrops
                      \/ /\ WorkKept
                         /\ \/ FDC_IndexPulse_Init \/ IndexPassesUnnoticed
                            \/ FDC_IndexPulse_Increase /\ ~Counts
                            \/ FDC_InterruptHandler_Update /\ Searching /\ ~NotFound
    OBVIOUS
  <2>1. CASE FDC_InterruptHandler_Update
    BY <2>1, UpdateDrops
  <2>2. CASE FDC_IndexPulse_Increase
    BY <2>2, PulseDrops
  <2>3. CASE FDC_IndexPulse_Init \/ IndexPassesUnnoticed
    BY <2>3 DEF FDC_IndexPulse_Init, IndexPassesUnnoticed, regVars, stateVars, dataVars, dmaVars, WorkKept, SectorsToDo,
       StageToDo, TracksToGo, BytesToGo, Searching, NotFound
  <2> QED
    BY <2>1, <2>2, <2>3 DEF Machine
<1> QED
  BY <1>1, TypeCorrect, StagedCorrect, UnderwayCorrect, WorkIsNat, PTL DEF Spec, WorkShrinks

-----------------------------------------------------------------------------
(* A call of the handler ends.                                            *)

(* At most n + 1 states are still to run in this call, the first header    *)
(* counted once.                                                           *)
Level == IF Searching THEN StepsLeft("NEXT_HEADER") ELSE StepsLeft(CommandState)
Within(n) == immediate /\ Level <= n

PulsesFall == PulsesLeft' < PulsesLeft
PulsesRise == PulsesLeft' > PulsesLeft

(* A natural number does not fall infinitely often unless it rises         *)
(* infinitely often: a law of the natural numbers, whatever the behaviour, *)
(* that takes an induction over time.                                      *)
NoPulseDescent == []<><<PulsesFall>>_vars => []<><<PulsesRise>>_vars

(* The rest of a call goes down in the levels, or it is a search.          *)
LEMMA CallDescends ==
  ASSUME FdcTypeOK, Staged, immediate, [Next]_vars, immediate'
  PROVE  /\ Level' <= Level /\ Level \in 0..8 /\ Level' \in 0..8
         /\ <<FDC_InterruptHandler_Update>>_vars => Level' < Level \/ (Searching /\ Searching')
         /\ Searching => Level = 5
<1>1. \A state : StepsLeft(state) \in 0..8
  BY DEF StepsLeft
<1>2. Level \in 0..8 /\ Level' \in 0..8
  BY <1>1 DEF Level
<1>3. StepsLeft("NEXT_HEADER") = 5 /\ StepsLeft("CHECK_HEADER") = 6
  BY DEF StepsLeft
<1>4. CASE FDC_InterruptHandler_Update
  <2>1. StepsLeft(CommandState') < StepsLeft(CommandState) \/ LateHeader
    BY <1>4, UpdateShrinks
  <2>2. LateHeader => Searching /\ Searching'
    BY DEF LateHeader, NextHeader, Active, Searching
  <2>3. CASE Searching /\ ~Searching'
    <3>1. StepsLeft(CommandState') < 6 /\ StepsLeft(CommandState') # 5
      <4>1. NextHeader \/ FDC_VerifyTrack \/ CheckHeader \/ Finish
        BY <1>4, <2>3 DEF FDC_InterruptHandler_Update, Searching, Active, FDC_Set_MotorON,
           HeadLoad, Sought_MotorOn, Tracks_MotorOn, AtHeadLoad, AtMotorOn, AtMotorOnI, SpunUp,
           Restore_MotorOn, Restore_Loop, FDC_UpdateSeekCmd, FDC_UpdateStepCmd, Verify,
           Verify_HeadOk, FDC_ReadSector_ST, FDC_ReadAddress_ST, FDC_ReadTrack_ST, TransferToDma,
           WriteSector_Start, WriteTrack_Start, TransferFromDma, Read_Crc, FDC_WriteSector_ST,
           Multi, MotorStop, MotorStopped
      <4>2. CommandState' \in {"RNF", "COMPLETE", "TRANSFER_START", "MOTOR_STOP"}
        BY <2>3, <4>1 DEF NextHeader, FDC_VerifyTrack, CheckHeader, Finish, Go, Continue,
           FDC_CmdCompleteCommon, StateAfter, Searching
      <4> QED
        BY <4>2 DEF StepsLeft
    <3>2. StepsLeft(CommandState') < 5
      BY <1>1, <3>1
    <3> QED
      BY <1>2, <1>3, <2>3, <3>2 DEF Level
  <2>4. CASE ~Searching /\ Searching'
    <3>1. CommandState' \in {"NEXT_HEADER", "CHECK_HEADER"} /\ ~LateHeader
      BY <2>2, <2>4 DEF Searching
    <3>2. StepsLeft(CommandState) > 5
      BY <1>1, <1>3, <2>1, <3>1
    <3> QED
      BY <1>2, <1>3, <2>4, <3>2 DEF Level
  <2>5. CASE ~Searching /\ ~Searching'
    BY <1>2, <2>1, <2>2, <2>5 DEF Level
  <2>6. CASE Searching /\ Searching'
    BY <1>2, <1>3, <2>6 DEF Level
  <2> QED
    BY <1>2, <1>3, <2>3, <2>4, <2>5, <2>6 DEF Level
<1>5. CASE ~FDC_InterruptHandler_Update
  <2>1. CommandState' = CommandState
    BY <1>5, OnlyController DEF FDC_IndexPulse_Init, FDC_IndexPulse_Increase, vars, stateVars
  <2>2. Level' = Level
    BY <2>1 DEF Level, Searching
  <2> QED
    BY <1>2, <1>3, <1>5, <2>2 DEF Level
<1> QED
  BY <1>4, <1>5

(* No pulse is to be made up for, or enough of them have been counted.     *)
Settled == lag = "none" \/ NotFound

Lagging == ~Settled /\ lag = "behind"
Found == CommandState = "NEXT_HEADER"

(* A step of a search within a call.  Settled, a header is not looked at   *)
(* again; before, each header takes a pulse.                               *)
LEMMA SearchGoesOn ==
  ASSUME FdcTypeOK, FdcTypeOK', Staged, Underway, immediate, immediate', Searching, Searching',
         ~Astray, [Next]_vars
  PROVE  /\ Settled => Settled'
         /\ ~PulsesRise
         /\ <<FDC_InterruptHandler_Update>>_vars /\ Settled => ~Found /\ Found'
         /\ <<FDC_InterruptHandler_Update>>_vars /\ ~Settled =>
              ~Lagging /\ (Lagging' \/ Settled')
         /\ ~<<FDC_InterruptHandler_Update>>_vars =>
              /\ Found => Found'
              /\ Lagging => Lagging' \/ Settled' \/ <<PulsesFall>>_vars
<1>1. IndexPulse_Counter \in Nat /\ IndexPulse_Counter' \in Nat
      /\ FDC_DELAY_IP_ADDRESS_ID \in Nat \ {0}
  BY FdcAssumption DEF FdcTypeOK, DataOK
<1>2. CASE FDC_InterruptHandler_Update
  <2>1. NextHeader \/ FDC_VerifyTrack \/ CheckHeader
    <3>1. ~Finish
      BY DEF Finish, FDC_CmdCompleteCommon, StateAfter, Searching
    <3> QED
      BY <1>2, <3>1 DEF FDC_InterruptHandler_Update, Searching, Active, FDC_Set_MotorON,
         HeadLoad, Sought_MotorOn, Tracks_MotorOn, AtHeadLoad, AtMotorOn, AtMotorOnI, SpunUp,
         Restore_MotorOn, Restore_Loop, FDC_UpdateSeekCmd, FDC_UpdateStepCmd, Verify,
         Verify_HeadOk, FDC_ReadSector_ST, FDC_ReadAddress_ST, FDC_ReadTrack_ST, TransferToDma,
         WriteSector_Start, WriteTrack_Start, TransferFromDma, Read_Crc, FDC_WriteSector_ST,
         Multi, MotorStop, MotorStopped
  <2>2. IndexPulse_Counter' = IndexPulse_Counter /\ lag' = StillBehind
    BY <2>1 DEF NextHeader, FDC_VerifyTrack, CheckHeader, Elsewhere, dataVars
  <2>3. Settled <=> Settled'
    BY <2>2 DEF Settled, NotFound, StillBehind
  <2>4. ~PulsesRise
    <3>1. PulsesLeft' = PulsesLeft /\ PulsesLeft \in Int
      BY <1>1, <2>2 DEF PulsesLeft, NotFound
    <3> QED
      BY <3>1 DEF PulsesRise
  <2>5. Settled => ~Found /\ Found'
    <3>1. NextHeader => ~Settled
      BY DEF NextHeader, Settled, Go, Continue, Searching
    <3>2. FDC_VerifyTrack \/ CheckHeader => ~Found /\ Found'
      BY DEF FDC_VerifyTrack, CheckHeader, Active, Go, Continue, Found, Searching
    <3> QED
      BY <2>1, <3>1, <3>2
  <2>6. ~Settled => ~Lagging /\ Lagging'
    <3> SUFFICES ASSUME ~Settled PROVE ~Lagging /\ Lagging'
      OBVIOUS
    <3>1. Spinning
      BY DEF Astray, Settled, Underway, Staged, Searching, Resting, Spinning
    <3>2. lag = "counted"
      BY <1>2, <3>1, UpdateUpdated DEF Updated, Settled, FdcTypeOK, DrivesOK
    <3> QED
      BY <2>2, <2>3, <3>2 DEF Lagging, StillBehind
  <2>7. CASE <<FDC_InterruptHandler_Update>>_vars
    BY <2>3, <2>4, <2>5, <2>6, <2>7
  <2>8. CASE UNCHANGED vars
    <3>1. Found' = Found /\ (Lagging => Lagging')
      BY <2>8 DEF vars, stateVars, dataVars, Found, Lagging, Settled, NotFound
    <3> QED
      BY <2>3, <2>4, <2>8, <3>1
  <2> QED
    BY <1>2, <2>7, <2>8
<1>3. CASE FDC_IndexPulse_Increase /\ lag = "behind" /\ ~FDC_InterruptHandler_Update
  <2>1. CommandState' = CommandState
        /\ IndexPulse_Counter' =
             IndexPulse_Counter + (IF IndexPulse_Counter < PulseLimit THEN 1 ELSE 0)
    BY <1>3 DEF FDC_IndexPulse_Increase, stateVars
  <2>2. PulseLimit \in Nat /\ PulseLimit >= FDC_DELAY_IP_ADDRESS_ID
    <3> DEFINE D == {FDC_DELAY_IP_SPIN_UP, FDC_DELAY_IP_MOTOR_OFF, FDC_DELAY_IP_ADDRESS_ID}
    <3>1. \E x \in D : \A y \in D : x >= y
      BY FdcAssumption
    <3>2. Max(D) \in D /\ \A y \in D : Max(D) >= y
      BY <3>1 DEF Max
    <3> QED
      BY <3>2, FdcAssumption DEF PulseLimit
  <2>3. CASE NotFound
    <3>1. NotFound'
      BY <1>1, <2>1, <2>2, <2>3 DEF NotFound
    <3>2. PulsesLeft = 0 /\ PulsesLeft' = 0
      BY <2>3, <3>1 DEF PulsesLeft
    <3> QED
      BY <1>3, <2>1, <2>3, <3>1, <3>2 DEF Settled, Lagging, Found, PulsesRise
  <2>4. CASE ~NotFound
    <3>1. IndexPulse_Counter' = IndexPulse_Counter + 1
      BY <1>1, <2>1, <2>2, <2>4 DEF NotFound
    <3>2. PulsesLeft = FDC_DELAY_IP_ADDRESS_ID - IndexPulse_Counter
          /\ PulsesLeft' \in {0, FDC_DELAY_IP_ADDRESS_ID - IndexPulse_Counter'}
      BY <2>4 DEF PulsesLeft
    <3>3. PulsesLeft' < PulsesLeft
      BY <1>1, <2>4, <3>1, <3>2 DEF NotFound
    <3>4. ~Settled
      BY <1>3, <2>4 DEF Settled
    <3>5. <<PulsesFall>>_vars
      <4>1. vars' # vars
        BY <1>1, <3>1 DEF vars, dataVars
      <4> QED
        BY <3>3, <4>1 DEF PulsesFall
    <3>6. ~PulsesRise
      BY <1>1, <3>1, <3>2, <3>3 DEF PulsesRise
    <3> QED
      BY <1>3, <2>1, <3>4, <3>5, <3>6 DEF Found
  <2> QED
    BY <2>3, <2>4
<1>4. CASE (FDC_IndexPulse_Init \/ UNCHANGED vars) /\ ~FDC_InterruptHandler_Update
  <2>1. UNCHANGED <<CommandState, IndexPulse_Counter>> /\ lag' \in {lag, "none"}
    BY <1>4 DEF FDC_IndexPulse_Init, vars, stateVars, dataVars
  <2>2. PulsesLeft' = PulsesLeft /\ PulsesLeft \in Int
    BY <1>1, <2>1 DEF PulsesLeft, NotFound
  <2>3. (Settled => Settled') /\ (Lagging => Lagging' \/ Settled') /\ (Found => Found')
    BY <2>1 DEF Settled, NotFound, Lagging, Found
  <2> QED
    BY <1>4, <2>2, <2>3 DEF PulsesRise
<1>5. CASE FDC_InterruptHandler_Update /\ UNCHANGED vars
  BY <1>2, <1>5
<1> QED
  BY <1>2, <1>3, <1>4, OnlyController

(* A call of the handler ends, whatever the disk, the registers and the    *)
(* DMA hold, under the fairness of the specification and if the call is    *)
(* never stuck: it cannot go round in the states, but to look at a header  *)
(* again, and it cannot do that for ever, since each time costs a pulse    *)
(* that the search counts.  Unless the drive is disabled, and then none.   *)
(* Two facts are hypotheses, since no prover here handles ENABLED or an    *)
(* induction over time.                                                    *)
THEOREM LoopEndsCorrect ==
  Spec /\ Fairness /\ []Able /\ NoPulseDescent => LoopEnds
<1> DEFINE Inv == FdcTypeOK /\ Staged
<1>1. Inv /\ immediate /\ [Next]_vars =>
        \/ ~immediate'
        \/ /\ Level' <= Level /\ Level \in 0..8 /\ Level' \in 0..8
           /\ <<FDC_InterruptHandler_Update>>_vars => Level' < Level \/ (Searching /\ Searching')
           /\ Searching => Level = 5
  BY CallDescends
<1>2. Inv /\ [Next]_vars =>
        /\ (Within(8) => Within(8)' \/ ~immediate') /\ (Within(7) => Within(7)' \/ ~immediate')
        /\ (Within(6) => Within(6)' \/ ~immediate') /\ (Within(5) => Within(5)' \/ ~immediate')
        /\ (Within(4) => Within(4)' \/ ~immediate') /\ (Within(3) => Within(3)' \/ ~immediate')
        /\ (Within(2) => Within(2)' \/ ~immediate') /\ (Within(1) => Within(1)' \/ ~immediate')
        /\ (Within(0) => Within(0)' \/ ~immediate')
  BY <1>1 DEF Within
<1>3. Inv /\ [Next]_vars /\ <<FDC_InterruptHandler_Update>>_vars =>
        \/ ~immediate'
        \/ Searching /\ Searching'
        \/ /\ (Within(8) => Within(7)') /\ (Within(7) => Within(6)') /\ (Within(6) => Within(5)')
           /\ (Within(5) => Within(4)') /\ (Within(4) => Within(3)') /\ (Within(3) => Within(2)')
           /\ (Within(2) => Within(1)') /\ (Within(1) => Within(0)') /\ (Within(0) => FALSE)
  BY <1>1 DEF Within
<1>4. Inv => (immediate => Within(8)) /\ (Within(4) => ~Searching) /\ (immediate /\ Searching => Within(5))
  <2>1. \A state : StepsLeft(state) \in 0..8
    BY DEF StepsLeft
  <2>2. StepsLeft("NEXT_HEADER") = 5
    BY DEF StepsLeft
  <2> QED
    BY <2>1, <2>2 DEF Within, Level
<1>5. immediate /\ [Next]_vars /\ ~<<FDC_InterruptHandler_Update>>_vars => (Searching' <=> Searching)
  BY OnlyController DEF FDC_IndexPulse_Init, FDC_IndexPulse_Increase, vars, stateVars, Searching
<1> HIDE DEF Inv
<1>6. Spec => []Inv
  BY TypeCorrect, StagedCorrect, PTL DEF Inv
<1>7. Spec /\ []<><<FDC_InterruptHandler_Update>>_vars /\ <>[]immediate => <>[]Searching
  BY <1>2, <1>3, <1>4, <1>5, <1>6, PTL DEF Spec
<1> DEFINE Lost == immediate /\ Searching /\ ~Astray
           Round == FdcTypeOK /\ Staged /\ Underway /\ Lost
<1>8. Round /\ Round' /\ [Next]_vars =>
        /\ Settled => Settled'
        /\ ~PulsesRise
        /\ <<FDC_InterruptHandler_Update>>_vars /\ Settled => ~Found /\ Found'
        /\ <<FDC_InterruptHandler_Update>>_vars /\ ~Settled =>
             ~Lagging /\ (Lagging' \/ Settled')
        /\ ~<<FDC_InterruptHandler_Update>>_vars =>
             /\ Found => Found'
             /\ Lagging => Lagging' \/ Settled' \/ <<PulsesFall>>_vars
  BY SearchGoesOn
<1> HIDE DEF Round
<1>9. Spec /\ <>[]Lost => <>[]Round
  BY TypeCorrect, StagedCorrect, UnderwayCorrect, PTL DEF Round
<1>10. Lagging => ~Settled
  BY DEF Lagging
<1> HIDE DEF Lost
<1>11. Spec /\ <>[]Round /\ NoPulseDescent => <>[][~PulsesFall]_vars
  BY <1>8, PTL DEF Spec, NoPulseDescent
<1>12. Spec /\ <>[]Round /\ []<><<FDC_InterruptHandler_Update>>_vars /\ NoPulseDescent => <>[]Settled
  BY <1>8, <1>10, <1>11, PTL DEF Spec
<1>13. Spec /\ <>[]Round /\ <>[]Settled => ~[]<><<FDC_InterruptHandler_Update>>_vars
  BY <1>8, PTL DEF Spec
<1>14. Spec /\ []<><<FDC_InterruptHandler_Update>>_vars /\ <>[]immediate /\ NoPulseDescent =>
         ~<>[](~Astray)
  BY <1>7, <1>9, <1>12, <1>13, PTL DEF Lost
<1> QED
  BY <1>14, CallGoesOn, PTL DEF LoopEnds

-----------------------------------------------------------------------------
(* A command ends.                                                         *)

SectorsFall == SectorsToDo' < SectorsToDo
SectorsRise == SectorsToDo' > SectorsToDo
StageFalls == Stage(CommandState') < Stage(CommandState)
StageRises == Stage(CommandState') > Stage(CommandState)
RestFalls == StageToDo' < StageToDo
RestRises == StageToDo' > StageToDo

(* The same law for these three numbers, and for the pulses of a search.   *)
NoInfiniteDescent ==
  /\ NoPulseDescent
  /\ []<><<SectorsFall>>_vars => []<><<SectorsRise>>_vars
  /\ []<><<StageFalls>>_vars => []<><<StageRises>>_vars
  /\ []<><<RestFalls>>_vars => []<><<RestRises>>_vars

(* What a step that brings the command no further is: not a state, unless  *)
(* pulses are counted, and not a pulse if they are.                        *)
Waits ==
  /\ Counts' <=> Counts
  /\ <<FDC_InterruptHandler_Update>>_vars => Counts
  /\ <<FDC_IndexPulse_Increase>>_vars => ~Counts

(* Each step of the controller brings the command further, or it waits.    *)
Proceeds ==
  /\ ~SectorsRise
  /\ StageRises => SectorsFall
  /\ RestRises => SectorsFall \/ StageFalls
  /\ SectorsFall \/ StageFalls \/ RestFalls \/ Waits

LEMMA DropsProceed ==
  ASSUME WorkBounded, WorkBounded', WorkDrops
  PROVE  Proceeds
BY DEF WorkBounded, WorkDrops, Proceeds, SectorsFall, SectorsRise, StageFalls, StageRises,
   RestFalls, RestRises

LEMMA KeptProceeds ==
  ASSUME WorkBounded, WorkKept, Waits
  PROVE  Proceeds
BY DEF WorkBounded, WorkKept, Proceeds, SectorsFall, SectorsRise, StageFalls, StageRises,
   RestFalls, RestRises

(* The search for a header that brings the command no further goes on.     *)
LEMMA SearchWaits ==
  ASSUME FdcTypeOK, Staged, FDC_InterruptHandler_Update, WorkKept, Searching, ~NotFound
  PROVE  Counts /\ Counts'
<1>1. NextHeader \/ FDC_VerifyTrack \/ CheckHeader \/ (Updated /\ WriteRefused /\ FDC_CmdCompleteCommon({"WPRT"}))
  BY DEF FDC_InterruptHandler_Update, Searching, Active, FDC_Set_MotorON, HeadLoad, Sought_MotorOn,
     Tracks_MotorOn, AtHeadLoad, AtMotorOn, AtMotorOnI, SpunUp, Restore_MotorOn, Restore_Loop,
     FDC_UpdateSeekCmd, FDC_UpdateStepCmd, Verify, Verify_HeadOk, FDC_ReadSector_ST,
     FDC_ReadAddress_ST, FDC_ReadTrack_ST, TransferToDma, WriteSector_Start, WriteTrack_Start,
     TransferFromDma, Read_Crc, FDC_WriteSector_ST, Multi, Finish, MotorStop, MotorStopped
<1>2. Stage(CommandState) = 7 /\ Stage(CommandState') = 7
  BY DEF WorkKept, Searching, Stage
<1>3. CommandState' \in {"NEXT_HEADER", "CHECK_HEADER"}
  BY <1>2 DEF Stage
<1>4. IndexPulse_Counter' = IndexPulse_Counter
  <2>1. CASE NextHeader \/ FDC_VerifyTrack \/ CheckHeader
    BY <2>1 DEF NextHeader, FDC_VerifyTrack, CheckHeader, dataVars
  <2>2. CASE FDC_CmdCompleteCommon({"WPRT"})
    BY <1>3, <2>2 DEF FDC_CmdCompleteCommon, StateAfter
  <2> QED
    BY <1>1, <2>1, <2>2
<1>5. Searching' /\ ~NotFound'
  BY <1>3, <1>4 DEF Searching, NotFound
<1> QED
  BY <1>5 DEF Counts

(* With a pulse that the command does not count, it still counts none.     *)
LEMMA PulseWaits ==
  ASSUME FdcTypeOK, FDC_IndexPulse_Increase, ~Counts
  PROVE  ~Counts'
<1>1. UNCHANGED CommandState /\ IndexPulse_Counter \in Nat /\ IndexPulse_Counter' \in Nat
      /\ IndexPulse_Counter' >= IndexPulse_Counter
  BY DEF FDC_IndexPulse_Increase, stateVars, FdcTypeOK, DataOK
<1> QED
  BY <1>1, FdcAssumption DEF Counts, Searching, NotFound

LEMMA ServedProceeds ==
  ASSUME FdcTypeOK, FdcTypeOK', Staged, Underway, Served, Served', [Machine]_vars
  PROVE  Proceeds
<1>1. WorkBounded /\ WorkBounded'
  BY WorkIsNat, PTL
<1>2. CASE FDC_InterruptHandler_Update
  <2>1. WorkDrops \/ (WorkKept /\ Searching /\ ~NotFound)
    BY <1>2, UpdateDrops DEF Served
  <2>2. CASE WorkDrops
    BY <1>1, <2>2, DropsProceed
  <2>3. CASE WorkKept /\ Searching /\ ~NotFound
    <3>1. Counts /\ Counts'
      BY <1>2, <2>3, SearchWaits
    <3>2. ~FDC_IndexPulse_Increase
      BY <1>1, <2>3, <3>1, PulseDrops DEF WorkBounded, WorkKept, WorkDrops
    <3> QED
      BY <1>1, <2>3, <3>1, <3>2, KeptProceeds DEF Waits
  <2> QED
    BY <2>1, <2>2, <2>3
<1>3. CASE FDC_IndexPulse_Increase /\ ~FDC_InterruptHandler_Update
  <2>1. CASE Counts
    BY <1>1, <1>3, <2>1, PulseDrops, DropsProceed
  <2>2. CASE ~Counts
    BY <1>1, <1>3, <2>2, PulseDrops, PulseWaits, KeptProceeds DEF Waits
  <2> QED
    BY <2>1, <2>2
<1>4. ASSUME UNCHANGED <<regVars, stateVars, dataVars, dmaVars>>,
             ~<<FDC_InterruptHandler_Update>>_vars, ~<<FDC_IndexPulse_Increase>>_vars
      PROVE  Proceeds
  <2>1. WorkKept
    BY <1>4 DEF regVars, stateVars, dataVars, dmaVars, WorkKept, SectorsToDo, StageToDo, TracksToGo,
       BytesToGo, Searching, NotFound
  <2>2. Counts' <=> Counts
    BY <1>4 DEF stateVars, dataVars, Counts, Searching, NotFound
  <2> QED
    BY <1>1, <1>4, <2>1, <2>2, KeptProceeds DEF Waits
<1>5. CASE /\ FDC_IndexPulse_Init \/ IndexPassesUnnoticed
           /\ ~FDC_InterruptHandler_Update /\ ~FDC_IndexPulse_Increase
  BY <1>4, <1>5 DEF FDC_IndexPulse_Init, IndexPassesUnnoticed
<1>6. CASE UNCHANGED vars
  BY <1>4, <1>6 DEF vars
<1> QED
  BY <1>2, <1>3, <1>5, <1>6 DEF Machine

(* A command that has a disk at last, on a controller that is left alone   *)
(* at last, ends (fdc.c:155), with every size of the disk, the registers   *)
(* and the DMA, under the fairness of the specification: what it has to do *)
(* is three natural numbers that it uses up.  Two facts are hypotheses,    *)
(* since no prover here handles ENABLED or an induction over time: that    *)
(* the controller is never stuck, and that a natural number does not fall  *)
(* for ever.                                                               *)
THEOREM CommandsEndCorrect ==
  Spec /\ Fairness /\ []Able /\ <>[][Machine]_vars /\ NoInfiniteDescent => CommandsEnd
<1> DEFINE Calm == Spec /\ <>[][Machine]_vars /\ <>[]Served
<1>1. Calm => <>[][Proceeds]_vars
  <2>1. FdcTypeOK /\ FdcTypeOK' /\ Staged /\ Underway /\ Served /\ Served' /\ [Machine]_vars =>
          [Proceeds]_vars
    BY ServedProceeds
  <2> QED
    BY <2>1, TypeCorrect, StagedCorrect, UnderwayCorrect, PTL DEF Spec
<1>2. Calm /\ NoInfiniteDescent => <>[][~SectorsFall]_vars
  BY <1>1, PTL DEF Proceeds, NoInfiniteDescent
<1>3. Calm /\ NoInfiniteDescent => <>[][~StageFalls]_vars
  BY <1>1, <1>2, PTL DEF Proceeds, NoInfiniteDescent
<1>4. Calm /\ NoInfiniteDescent => <>[][~RestFalls]_vars
  BY <1>1, <1>2, <1>3, PTL DEF Proceeds, NoInfiniteDescent
<1>5. Calm /\ NoInfiniteDescent => <>[][Waits]_vars
  BY <1>1, <1>2, <1>3, <1>4, PTL DEF Proceeds
<1>6. /\ Able =>
           /\ (Unindexed => ENABLED <<FDC_IndexPulse_Init>>_vars)
           /\ (Behind => ENABLED <<FDC_IndexPulse_Increase>>_vars)
           /\ (Updated /\ Served /\ ~Counts => ENABLED <<FDC_InterruptHandler_Update>>_vars)
           /\ (Updated /\ ~immediate /\ Served /\ Counts => ENABLED <<FDC_IndexPulse_Increase>>_vars)
      /\ FdcTypeOK /\ [Machine]_vars =>
           /\ (<<FDC_IndexPulse_Init>>_vars \/ <<FDC_IndexPulse_Increase>>_vars => Updated')
           /\ (Settles \/ <<FDC_InterruptHandler_Update>>_vars) /\ (Unindexed => Settles)
           /\ (Updated \/ Unindexed \/ Behind)
           /\ ~(Updated /\ Unindexed) /\ ~(Updated /\ Behind)
      /\ Settles =>
           /\ (Updated => Updated')
           /\ (Unindexed => (Unindexed' \/ Updated') /\ (immediate' <=> immediate))
           /\ (Behind => Behind' \/ Updated')
  <2>1. Able =>
           /\ (Unindexed => ENABLED <<FDC_IndexPulse_Init>>_vars)
           /\ (Behind => ENABLED <<FDC_IndexPulse_Increase>>_vars)
           /\ (Updated /\ Served /\ ~Counts => ENABLED <<FDC_InterruptHandler_Update>>_vars)
           /\ (Updated /\ ~immediate /\ Served /\ Counts => ENABLED <<FDC_IndexPulse_Increase>>_vars)
    BY PTL DEF Able, Unindexed, Behind
  <2>2. FdcTypeOK /\ [Machine]_vars =>
           /\ (<<FDC_IndexPulse_Init>>_vars \/ <<FDC_IndexPulse_Increase>>_vars => Updated')
           /\ (Settles \/ <<FDC_InterruptHandler_Update>>_vars) /\ (Unindexed => Settles)
           /\ (Updated \/ Unindexed \/ Behind)
           /\ ~(Updated /\ Unindexed) /\ ~(Updated /\ Behind)
    BY PulsesUpdate
  <2>3. Settles =>
           /\ (Updated => Updated')
           /\ (Unindexed => (Unindexed' \/ Updated') /\ (immediate' <=> immediate))
           /\ (Behind => Behind' \/ Updated')
    BY DEF Settles
  <2> QED
    BY <2>1, <2>2, <2>3
<1>7. UNCHANGED vars => (Counts' <=> Counts)
  BY DEF vars, stateVars, dataVars, Counts, Searching, NotFound
<1>8. Calm /\ Fairness /\ []Able /\ NoInfiniteDescent => ~<>[](~Counts)
  <2>1. Calm /\ NoInfiniteDescent /\ <>[](~Counts) => <>[][~FDC_InterruptHandler_Update]_vars
    BY <1>5, PTL DEF Waits
  <2>2. Calm /\ Fairness /\ []Able /\ <>[][~FDC_InterruptHandler_Update]_vars => <>[]Updated
    BY <1>6, TypeCorrect, PTL DEF Fairness
  <2> QED
    BY <1>6, <2>1, <2>2, PTL DEF Fairness
<1>9. Calm /\ Fairness /\ []Able /\ NoInfiniteDescent => ~<>[]Counts
  <2>1. Calm /\ Fairness /\ []Able /\ NoInfiniteDescent => []<>(~immediate)
    <3>1. Served => ~Astray
      BY DEF Served, Astray
    <3> QED
      BY <3>1, LoopEndsCorrect, PTL DEF LoopEnds, NoInfiniteDescent
  <2>2. Calm /\ NoInfiniteDescent /\ <>[]Counts => <>[][~FDC_IndexPulse_Increase]_vars
    BY <1>5, PTL DEF Waits
  <2>3. Calm /\ Fairness /\ []Able /\ []<>(~immediate) =>
          []<>(~immediate /\ Updated) \/ []<>(Behind)
    BY <1>6, TypeCorrect, PTL DEF Fairness
  <2>4. Calm /\ Fairness /\ []Able /\ []<>(~immediate) /\ <>[]Counts =>
          []<>ENABLED <<FDC_IndexPulse_Increase>>_vars
    BY <1>6, <2>3, PTL
  <2> QED
    BY <2>1, <2>2, <2>4, PTL DEF Fairness
<1>10. Calm /\ Fairness /\ []Able /\ NoInfiniteDescent => FALSE
  BY <1>5, <1>7, <1>8, <1>9, PTL DEF Waits
<1>11. BusyRuns /\ Ready /\ ~("BUSY" \notin STR) => Served
  BY DEF BusyRuns, Served
<1> QED
  BY <1>10, <1>11, BusyCorrect, PTL DEF CommandsEnd
=============================================================================
