------------------------------- MODULE Floppy -------------------------------
(***************************************************************************)
(* The two emulated floppy drives (floppy.c): images are copied into a     *)
(* drive when they are inserted and saved when they are ejected; the user  *)
(* exchanges them by a shortcut, in the dialog or through the libretro     *)
(* interface, the guest reads and writes sectors and watches the write     *)
(* protect signal (fdc.c) to notice that a disk was exchanged.             *)
(***************************************************************************)
EXTENDS Integers

CONSTANTS
  Images,       \* image files
  None,         \* the empty file name
  Recognized,   \* images with a content that one of the readers accepts
  Savable,      \* images of a type that is written back: ST, MSA, DIM
  ReadOnly,     \* images that are write protected
  PartnerB,     \* Floppy_CreateDiskBFileName, None if there is no disk B
  Sectors,
  Boot,         \* the boot sector
  Values,       \* contents of a sector
  BadBoots,     \* contents of a boot sector that Floppy_IsBootSectorOK rejects
  DELAY,        \* FLOPPY_DRIVE_TRANSITION_DELAY_VBL
  POLL,         \* the guest looks at each drive at least every POLL VBLs
  UserDelay,    \* VBLs the user waits before changing the disks again
  Frontends,    \* of "shortcut", "dialog" and "retro": how disks are changed
  MaxVBL        \* bound: the VBL counter stops there

Drives == {0, 1}
Other(d) == 1 - d

ASSUME ImagesAssumption ==
  /\ None \notin Images
  /\ Recognized \subseteq Images /\ Savable \subseteq Images /\ ReadOnly \subseteq Images
  /\ PartnerB \in [Images -> Images \union {None}]
  /\ \A i \in Images : PartnerB[i] # i

ASSUME ContentAssumption ==
  /\ Boot \in Sectors
  /\ Values # {}
  /\ BadBoots \subseteq Values

ASSUME DelayAssumption ==
  /\ DELAY \in Nat /\ POLL \in Nat /\ POLL < DELAY
  /\ UserDelay \in Nat
  /\ Frontends \subseteq {"shortcut", "dialog", "retro"}
  /\ MaxVBL \in Nat

VARIABLES
  name,     \* ConfigureParams.DiskImage.szDiskFileName[]
  opened,   \* the names to restore if the dialog is cancelled, or Closed
  drive,    \* EmulationDrives[]
  file,     \* the image files
  nVBLs,
  on,       \* between Floppy_Init and Floppy_UnInit
  guest     \* what happened, for the properties

vars == <<name, opened, drive, file, nVBLs, on, guest>>

Contents == [Sectors -> Values]
Names == Images \union {None}

(* TransitionState and the VBL it starts at, which is read only while the  *)
(* state is set.                                                           *)
Phases == [is : {"none", "insert", "eject"}, vbl : Nat]
NoPhase == [is |-> "none", vbl |-> 0]

(* The longest time that a property speaks of, in VBLs. *)
Long == 2 * DELAY

Drive ==
  [sFileName : Names, pBuffer : Contents, bContentsChanged : BOOLEAN,
   bOKToSave : BOOLEAN,
   State1 : Phases, State2 : Phases]

(* History: what the guest last wrote to each image; for each drive the    *)
(* disk that was there if it was not seen protected at the last look, and  *)
(* the VBLs since that look and since the user changed the disk.           *)
Guest ==
  [written : [Images -> Contents],
   saw : [Drives -> Names],
   polled : [Drives -> 0..Long], touched : [Drives -> 0..Long]]

Closed == <<>>

TypeOK ==
  /\ name \in [Drives -> Names]
  /\ opened = Closed \/ opened \in [Drives -> Names]
  /\ drive \in [Drives -> Drive]
  /\ file \in [Images -> Contents]
  /\ nVBLs \in Nat
  /\ on \in BOOLEAN
  /\ guest \in Guest

-----------------------------------------------------------------------------
(* The phases of an exchange: each lasts DELAY VBLs, State2 after State1.  *)

(* A bug: a phase ends a VBL too soon. *)
Elapsed_TooSoon(phase) == nVBLs + 1 >= phase.vbl + DELAY

Elapsed(phase) == nVBLs >= phase.vbl + DELAY

(* A bug: the end of an ejection goes unnoticed. *)
UpdateState_KeepsEject(r) ==
  [r EXCEPT !.State1 = IF Elapsed(@) /\ @.is = "insert" THEN NoPhase ELSE @,
            !.State2 = IF Elapsed(@) THEN NoPhase ELSE @]

UpdateState(r) ==
  [r EXCEPT !.State1 = IF Elapsed(@) THEN NoPhase ELSE @,
            !.State2 = IF Elapsed(@) THEN NoPhase ELSE @]

(* What Floppy_DriveTransitionUpdateState returns: is WPRT forced to 1? *)
ForcedWPRT(r) ==
  LET u == UpdateState(r) IN
  IF u.State2.is # "none" /\ nVBLs >= u.State2.vbl
    THEN u.State2.is = "eject"
    ELSE u.State1.is = "eject"

(* A bug: the second phase starts before the first. *)
SetState_Before(r, state) ==
  LET u == UpdateState(r) IN
  IF u.State1.is = "none"
    THEN [u EXCEPT !.State1 = [is |-> state, vbl |-> nVBLs], !.State2 = NoPhase]
  ELSE IF u.State1.is = state
    THEN [u EXCEPT !.State2 = NoPhase]
    ELSE [u EXCEPT !.State2 = [is |-> state, vbl |-> u.State1.vbl - DELAY]]

SetState(r, state) ==
  LET u == UpdateState(r) IN
  IF u.State1.is = "none"
    THEN [u EXCEPT !.State1 = [is |-> state, vbl |-> nVBLs], !.State2 = NoPhase]
  ELSE IF u.State1.is = state
    THEN [u EXCEPT !.State2 = NoPhase]
    ELSE [u EXCEPT !.State2 = [is |-> state, vbl |-> u.State1.vbl + DELAY]]

-----------------------------------------------------------------------------
(* Ejecting and inserting, on s = [drive, file]. *)

BootSectorOK(content) == content[Boot] \notin BadBoots

Blank == [s \in Sectors |-> CHOOSE v \in Values : TRUE]

Empty(r) ==
  [r EXCEPT !.sFileName = None, !.pBuffer = Blank,
            !.bContentsChanged = FALSE, !.bOKToSave = FALSE]

EjectDiskFromDrive(s, d) ==
  LET r == s.drive[d] IN
  IF r.sFileName = None THEN s
  ELSE [drive |-> [s.drive EXCEPT ![d] = Empty(SetState(r, "eject"))],
        file |-> IF r.bContentsChanged /\ r.bOKToSave
                   THEN [s.file EXCEPT ![r.sFileName] = r.pBuffer]
                   ELSE s.file]

(* A bug: the image is read before the disk that is in the drive is saved. *)
InsertDiskIntoDrive_ReadsFirst(s, d, names) ==
  LET e == EjectDiskFromDrive(s, d)
      img == names[d]
  IN IF img \notin Recognized THEN e
     ELSE [e EXCEPT !.drive[d] =
             [SetState(@, "insert") EXCEPT
                !.sFileName = img,
                !.pBuffer = s.file[img],
                !.bContentsChanged = FALSE,
                !.bOKToSave = img \in Savable /\ BootSectorOK(s.file[img])]]

InsertDiskIntoDrive(s, d, names) ==
  LET e == EjectDiskFromDrive(s, d)
      img == names[d]
  IN IF img \notin Recognized THEN e
     ELSE [e EXCEPT !.drive[d] =
             [SetState(@, "insert") EXCEPT
                !.sFileName = img,
                !.pBuffer = e.file[img],
                !.bContentsChanged = FALSE,
                !.bOKToSave = img \in Savable /\ BootSectorOK(e.file[img])]]

(* The drives of D, in the order A, B. *)
InsertAll(s, D, names) ==
  LET a == IF 0 \in D THEN InsertDiskIntoDrive(s, 0, names) ELSE s
  IN IF 1 \in D THEN InsertDiskIntoDrive(a, 1, names) ELSE a

SetOneName(names, d, img) ==
  IF img # None /\ names[Other(d)] = img THEN names
  ELSE [names EXCEPT ![d] = img]

SetDiskFileName(names, d, img) ==
  IF img \in Images /\ d = 0 /\ PartnerB[img] # None
    THEN SetOneName(SetOneName(names, 1, PartnerB[img]), 0, img)
    ELSE SetOneName(names, d, img)

(* The drives are left as s says; the history notes who was touched. *)
Exchange(s, D) ==
  /\ drive' = s.drive
  /\ file' = s.file
  /\ guest' = [guest EXCEPT
       !.touched = [d \in Drives |-> IF d \in D THEN 0 ELSE @[d]]]

Patient == \A d \in Drives : guest.touched[d] >= UserDelay

-----------------------------------------------------------------------------
(* The user changes disks while the emulation is paused. *)

MachineUnchanged == UNCHANGED <<nVBLs, on>>

Running == on /\ opened = Closed

(* Drive B's old name is compared with its new one, and with the path      *)
(* inside an archive, which differs from every name of an image.           *)
InsertedByShortcut(d, old, new) ==
  {0} \union (IF new[1] # old[1] \/ old[1] # None THEN {1} ELSE {})

ShortCut_InsertDisk(d, img) ==
  LET names == SetDiskFileName(name, d, img)
      D == InsertedByShortcut(d, name, names)
  IN
  /\ "shortcut" \in Frontends
  /\ Running
  /\ Patient
  /\ name' = names
  /\ Exchange(InsertAll([drive |-> drive, file |-> file], D, names), D)
  /\ UNCHANGED opened
  /\ MachineUnchanged

Dialog_Open ==
  /\ "dialog" \in Frontends
  /\ Running
  /\ Patient
  /\ opened' = name
  /\ UNCHANGED <<name, drive, file, guest>>
  /\ MachineUnchanged

(* Browse, eject (None), or insert a newly created image. *)
DlgFloppy_Set(d, img) ==
  /\ opened # Closed
  /\ name' = SetDiskFileName(name, d, img)
  /\ UNCHANGED <<opened, drive, file, guest>>
  /\ MachineUnchanged

Dialog_Cancel ==
  /\ opened # Closed
  /\ name' = opened
  /\ opened' = Closed
  /\ UNCHANGED <<drive, file, guest>>
  /\ MachineUnchanged

(* A bug: drive B is looked at only when drive A has not changed. *)
Changed_One == IF name[0] # opened[0] THEN {0}
               ELSE IF name[1] # opened[1] THEN {1} ELSE {}

Changed == {d \in Drives : name[d] # opened[d]}

(* Change_CopyChangedParamsToConfiguration inserts what has changed. *)
Dialog_OK ==
  /\ opened # Closed
  /\ opened' = Closed
  /\ Exchange(InsertAll([drive |-> drive, file |-> file], Changed, name), Changed)
  /\ UNCHANGED name
  /\ MachineUnchanged

(* The libretro interface fills drive A. *)
retro_load_game(img) ==
  LET names == SetDiskFileName(name, 0, img) IN
  /\ "retro" \in Frontends
  /\ Running
  /\ Patient
  /\ name' = names
  /\ Exchange(InsertAll([drive |-> drive, file |-> file], {0}, names), {0})
  /\ UNCHANGED opened
  /\ MachineUnchanged

retro_unload_game ==
  /\ "retro" \in Frontends
  /\ Running
  /\ Patient
  /\ Exchange(EjectDiskFromDrive([drive |-> drive, file |-> file], 0), {0})
  /\ UNCHANGED <<name, opened>>
  /\ MachineUnchanged

-----------------------------------------------------------------------------
(* The machine. *)

(* The guest looks often enough at both drives. *)
VBL ==
  /\ Running
  /\ nVBLs < MaxVBL
  /\ \A d \in Drives : guest.polled[d] < POLL
  /\ nVBLs' = nVBLs + 1
  /\ guest' = [guest EXCEPT
       !.polled = [d \in Drives |-> @[d] + 1],
       !.touched = [d \in Drives |-> IF @[d] < Long THEN @[d] + 1 ELSE @[d]]]
  /\ UNCHANGED <<name, opened, drive, file, on>>

Floppy_IsWriteProtected(d) == drive[d].sFileName \in ReadOnly

(* The write protect bit that FDC_DiskControllerStatus_ReadWord returns. *)
WPRT(d) ==
  \/ drive[d].sFileName = None
  \/ Floppy_IsWriteProtected(d)
  \/ ForcedWPRT(drive[d])

ReadStatus(d) ==
  /\ Running
  /\ drive' = [drive EXCEPT ![d] = UpdateState(@)]
  /\ guest' = [guest EXCEPT
       !.saw[d] = IF WPRT(d) THEN None ELSE drive[d].sFileName,
       !.polled[d] = 0]
  /\ UNCHANGED <<name, opened, file, nVBLs, on>>

Floppy_WriteSectors(d, s, v) ==
  LET r == drive[d] IN
  /\ Running
  /\ r.sFileName # None
  /\ ~Floppy_IsWriteProtected(d)
  /\ drive' = [drive EXCEPT ![d].pBuffer[s] = v, ![d].bContentsChanged = TRUE]
  /\ guest' = [guest EXCEPT !.written[r.sFileName] = [r.pBuffer EXCEPT ![s] = v]]
  /\ UNCHANGED <<name, opened, file, nVBLs, on>>

Unseen ==
  [written |-> guest.written,
   saw |-> [d \in Drives |-> None],
   polled |-> [d \in Drives |-> 0], touched |-> guest.touched]

Floppy_Reset(r) == [r EXCEPT !.State1 = NoPhase, !.State2 = NoPhase]

(* Reset_Cold or Reset_Warm: the VBLs are counted from 0 and the guest     *)
(* looks at the drives anew.                                               *)
Reset_ST ==
  /\ Running
  /\ drive' = [d \in Drives |-> Floppy_Reset(drive[d])]
  /\ nVBLs' = 0
  /\ guest' = Unseen
  /\ UNCHANGED <<name, opened, file, on>>

(* The emulator ends and is started again with the same configuration. *)
Floppy_UnInit ==
  LET s == EjectDiskFromDrive(EjectDiskFromDrive([drive |-> drive, file |-> file], 0), 1) IN
  /\ Running
  /\ on' = FALSE
  /\ drive' = s.drive
  /\ file' = s.file
  /\ UNCHANGED <<name, opened, nVBLs, guest>>

NewDrive ==
  [sFileName |-> None, pBuffer |-> Blank, bContentsChanged |-> FALSE,
   bOKToSave |-> FALSE, State1 |-> NoPhase, State2 |-> NoPhase]

(* The drives with the disks the configuration names, before the first VBL *)
(* and the reset that follows.                                             *)
Started(f) ==
  LET s == InsertAll([drive |-> [d \in Drives |-> NewDrive], file |-> f], Drives, name)
  IN [d \in Drives |-> Floppy_Reset(s.drive[d])]

Floppy_Init ==
  /\ ~on
  /\ on' = TRUE
  /\ drive' = Started(file)
  /\ nVBLs' = 0
  /\ guest' = Unseen
  /\ UNCHANGED <<name, opened, file>>

Init ==
  /\ name = [d \in Drives |-> None]
  /\ opened = Closed
  /\ drive = [d \in Drives |-> NewDrive]
  /\ file = [i \in Images |-> Blank]
  /\ nVBLs = 0
  /\ on = TRUE
  /\ guest = [written |-> file,
              saw |-> [d \in Drives |-> None],
              polled |-> [d \in Drives |-> 0],
              touched |-> [d \in Drives |-> Long]]

User ==
  \/ \E d \in Drives, img \in Names : ShortCut_InsertDisk(d, img)
  \/ Dialog_Open
  \/ \E d \in Drives, img \in Names : DlgFloppy_Set(d, img)
  \/ Dialog_Cancel
  \/ Dialog_OK
  \/ \E img \in Names : retro_load_game(img)
  \/ retro_unload_game

Machine ==
  \/ VBL
  \/ \E d \in Drives : ReadStatus(d)
  \/ \E d \in Drives, s \in Sectors, v \in Values : Floppy_WriteSectors(d, s, v)
  \/ Reset_ST
  \/ Floppy_UnInit
  \/ Floppy_Init

Next == User \/ Machine

Spec == Init /\ [][Next]_vars

-----------------------------------------------------------------------------
(* Properties. *)

(* Nothing the guest wrote to a disk that can be saved is lost: it is in   *)
(* the drive that holds the disk or, once it is ejected, in the file,      *)
(* through any exchange of disks, end and restart of the emulator.         *)
NothingLost ==
  \A img \in Savable :
    BootSectorOK(file[img]) =>
      LET holders == {d \in Drives : drive[d].sFileName = img} IN
      /\ \A d \in holders : drive[d].pBuffer = guest.written[img]
      /\ holders = {} => file[img] = guest.written[img]

(* A guest that sees a drive not protected twice in a row finds the same   *)
(* disk there: when the user exchanged it, the guest saw the write protect *)
(* signal in between.                                                      *)
ChangeSeen ==
  [][\A d \in Drives :
       ReadStatus(d) /\ guest.saw[d] # None /\ guest'.saw[d] # None
         => guest'.saw[d] = guest.saw[d]]_vars

(* The forced signal ends: a disk left alone for the two phases of its     *)
(* exchange is seen with its own protection, also after a reset.           *)
TransitionEnds ==
  \A d \in Drives : on /\ guest.touched[d] = Long => ~ForcedWPRT(drive[d])

(* A drive holds the disk the user interface shows for it, or is empty     *)
(* when that is not a disk.                                                *)
NamesMatch ==
  Running =>
    \A d \in Drives :
      drive[d].sFileName = IF name[d] \in Recognized THEN name[d] ELSE None
=============================================================================
