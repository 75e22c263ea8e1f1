# Verification of AtariSandbox

AtariSandbox is the Atari ST/STE/TT/Falcon emulator Hatari with two additions:
hooks that record what the guest does to its memory and disks
(`src/src/atarisandbox_analysis.c`), and Python tools that run the emulator in
an analysis directory and keep the evidence (`src/tools/`).  This directory
holds TLA+ models of the parts where the order of events decides what happens,
the TLC configurations that check them, and proofs for TLAPS.

All paths below are relative to the directory above this one: `src/src/` is the
emulator, `src/tools/` the Python tools, `src/docs/` the documents of the project.

1. [The system and its parts](#1-the-system-and-its-parts)
2. [The modules](#2-the-modules)
3. [CycInt and EventQueue](#3-cycint-and-eventqueue-the-internal-events)
4. [MFP](#4-mfp-the-interrupt-controller)
5. [Floppy](#5-floppy-the-drives-and-their-images)
6. [FDC and FdcDma](#6-fdc-and-fdcdma-the-floppy-disk-controller)
7. [Gemdos](#7-gemdos-the-emulated-hard-disk-drives)
8. [SessionRunner](#8-sessionrunner-the-evidence-of-a-session)
9. [AtariAnalysis](#9-atarianalysis-what-the-emulator-records)
10. [Findings](#10-findings)
11. [Other observations](#11-other-observations)
12. [What is proved, and what is only model-checked](#12-what-is-proved-and-what-is-only-model-checked)
13. [Not modelled](#13-not-modelled)
14. [Plan](#14-plan)
15. [Running the checks](#15-running-the-checks)

## 1. The system and its parts

The emulator is one thread (the sound callback of the host apart).  Its heart is
a loop that executes one instruction of the 68000, adds its cycles to a clock,
has the *internal events* of the devices that are due by now called
(`CycInt_Process`), and then looks for interrupts to give to the processor
(`do_specialties`).  There is no concurrency of threads, and yet everything
interleaves: an instruction accesses device registers in its middle; an access
to the MFP first has the events called that are due *within* the instruction;
the handler of the blitter's event has other events called from inside the
loop; the acknowledge cycle of an interrupt has events called between the
decision to interrupt and the reading of the vector.

| Part | State | Operations | Talks to | What is hard |
|---|---|---|---|---|
| Internal events (`cycInt.c`) | sorted doubly linked list, cached head and its time, lateness of the handler that runs | add, remove, modify, acknowledge, process, reset | every device adds events and gets its handler called; the processor and the blitter run the loop | list changes from handlers called from the loop, re-entrance, time in the middle of an instruction |
| MFP 68901 (`mfp.c`), one or two on a TT | registers IER IPR IMR ISR, IRQ and its time, times of the inputs, `MFP_UpdateNeeded` | inputs from timers and lines, register reads and writes, update and delay of IRQ, acknowledge | timers through `CycInt`; ACIA, FDC, blitter, sound through lines; the processor through `SPCFLAG_MFP` and level 6 | inputs with times in the past, in one batch; flags that say "look again"; two MFPs share them |
| Processor loop (`newcpu.c`, `m68000.c`) | special flags, pending levels, mask | end of instruction, `do_specialties`, `iack_cycle` | above | decision and acknowledge are apart |
| Floppy drives (`floppy.c`) | per drive: name, contents, changed and may-be-saved flags, two phases of an exchange | insert, eject (saves), write protect signal, reset | four front ends, FDC, configuration | names and disks change at different times; the guest notices an exchange only through a signal that lasts some VBLs |
| FDC and DMA (`fdc.c`) | command, its state, registers, FIFO and sector count, index pulses, sources of the interrupt | register accesses, one event that drives every command, exchange of disks | drives, MFP line (shared with the hard disks), hooks | a command takes hundreds of events, in which drive, side, disk, registers and DMA may change |
| ACIA and keyboard (`acia.c`, `ikbd.c`) | transmit and receive registers, keyboard's buffers | byte transfer by events, keyboard commands | MFP line | overrun, reset of the keyboard processor |
| Blitter (`blitter.c`) | registers, position in the transfer | start, transfer pass, give back the bus | `CycInt`, memory | runs events inside its own event |
| Hard disks (`hdc.c`, `ncr5380.c`, `ide.c`) | SCSI phase, command buffer | register accesses, DMA | MFP line | phases |
| GEMDOS drives (`gemdos.c`) | table of handles with their owners, redirections of standard handles, cache of searches | emulated system calls, reset, mounting, snapshots | host files, TOS (basepages, DTAs in the guest's memory) | owners known by an address that is used again; indexes that the guest's memory keeps through resets and snapshots |
| Snapshots (`memorySnapShot.c`) | one file, one component after the other | save, restore | everything | a file that ends too soon |
| Sound, video, DSP | samples, picture, another processor | events and register accesses | MFP lines and inputs, levels 2 and 4 | timing below the instruction |
| Front ends, configuration, debugger | names, options, break points | dialogs, keys, options | reset, floppy, snapshot | changes applied while the machine is stopped |
| Analysis hooks (`atarisandbox_analysis.c`, `cpu/atarisandbox_memory.c`) | limits and window from the environment, counters, state of the probe | wrappers around memory writes, exceptions, sector reads and writes | FDC's calls of `Floppy_*Sectors`, processor's writes; `core-events.jsonl` | evidence must tell what happened wherever the emulator is killed; the probe must write once |
| Session runner (`atarisandbox_run.py`) | `session.json`, `events.jsonl`, signal handlers, child | one run from check to final record | emulator process, signals | a signal between any two steps; an earlier run that was killed |
| Converters, adapter, qualification (`src/tools/`) | none between lines | text to records | files of the runner and the emulator | pure data |

`PROJECT.json` lists every part under "components" with its status, and under
"hazards" the places, line by line, where this code is hard to test: 40 of them,
each with the properties that would notice, or the reason why none does yet.

What makes each part correct:

* **Internal events**: the list is sorted and complete; a handler acknowledges its
  own event (one does not, finding 1); nothing due is left behind when an instruction
  starts; timers do not drift; the loop ends.
* **MFP**: IRQ is asserted exactly for a request that is enabled, unmasked, pending
  and not blocked; the vector belongs to such a request; no input and no change of
  the line is forgotten.
* **Floppy**: nothing the guest wrote is lost; the guest notices an exchange; the
  user interface shows what is in the drive.
* **Runner**: no emulator outlives its runner; evidence is complete only if it is
  true; earlier evidence is never written over; a signal ends the run.
* **Hooks**: the records are what happened, in order, up to the limits; the probe
  changes the disk once and its record follows its cause.
* **FDC**: a command ends once there is a disk, and the busy bit and the interrupt
  line say so; a sector goes where its header was found; the DMA stores no more than it
  was given.
* **GEMDOS drives**: a handle leads to the file its program opened, a redirection to the
  file it was made for, and neither to anything else later; a search continues where it was,
  whatever others do.
* **Not modelled yet**: bytes of the ACIA arrive once or are reported as overrun; a restored
  machine is the saved one or none.

## 2. The modules

| Module | Models | Uses |
|---|---|---|
| `EventQueue` | abstract: what the scheduler promises | |
| `CycInt` | `cycInt.c`, the loops that serve it, the restart of timers, the blitter's passes | implements `EventQueue` (`Queue == INSTANCE EventQueue WITH ...`) |
| `AutoSend` | `CycInt` with the one handler that acts before it acknowledges, `ikbd.c` | extends `CycInt` |
| `CycIntHorizon` | `CycInt` with the history variable `horizon`, what `MFP` assumes of it | extends `CycInt` |
| `CycIntProofs` | invariants, the refinement and what `MFP` assumes, proved | `CycIntHorizon`, TLAPS |
| `MFP` | `mfp.c`, `do_specialties`, `iack_cycle`, `M68000_Update_intlev` | relies on the order `EventQueue` promises |
| `MFPProofs` | invariants and acknowledges, proved | `MFP`, TLAPS |
| `Floppy` | `floppy.c`, `shortcut.c`, `dialog.c`, `change.c`, `dlgFloppy.c`, `main_retro.c`, the write protect bit of `fdc.c` | |
| `FloppyProofs` | all five properties, under what the code needs, proved | `Floppy`, TLAPS |
| `FdcDma` | the FIFO and the sector count of the DMA chip, `fdc.c` | |
| `FdcPort` | abstract: what the controller promises to the program | |
| `FDC` | the floppy disk controller, `fdc.c`, with the drives as it sees them | extends `FdcDma`; implements `FdcPort`; its timer is an event of `CycInt`, its line an input of `MFP` |
| `FDCProofs` | type, line, sector, bounds of the DMA, the refinement and the end of the handler's loop, proved | `FDC`, TLAPS |
| `GemdosFiles` | handles and redirections, `gemdos.c` | |
| `GemdosSearch` | searches, `gemdos.c` | |
| `Gemdos` | both with the machine's resets, mounting and snapshots | composes `GemdosFiles` and `GemdosSearch` |
| `GemdosProofs` | type, handles, redirections, searches, proved | `Gemdos`, TLAPS |
| `SessionRunner` | `atarisandbox_run.py` | |
| `SessionRunnerProofs` | no orphans, evidence kept and true, an asked run ends, proved | `SessionRunner`, TLAPS |
| `AtariAnalysis` | `atarisandbox_analysis.c`, `cpu/atarisandbox_memory.c` | |
| `AtariAnalysisProofs` | all four properties and the window, proved | `AtariAnalysis`, `Induction`, TLAPS |
| `Induction` | no part of the code: induction stated with sets | TLAPS |
| `MC_*` | values of the constants for TLC | the module of that name |

Names follow the source: an action or operator carries the name of the function it
models where there is one, a field that of the structure,
and `PROJECT.json` "map" gives each definition's lines.  Where the source has a
boolean kept as 0/1 the model has a BOOLEAN, where it has a register of bits the
model has the set of the bits.

An operator whose comment begins with "A bug:" is *not* used by the
specification.  It is a plausible wrong version of the definition that follows it:
putting it in place of that definition must violate the property it is listed with
under "mutants", which shows that the property can fail.

### Composition

`MFP` meets `CycInt` in two ways.  The events of the timers are calls of handlers in the
order of their due times, none before its time, which is what `CycInt` is shown to
implement (`ImplementsQueue`); `MFP` keeps just that as `horizon`, the due time of the
last handler, and lets a handler be called for any due time between it and the time that
is being processed.  `CycIntHorizon` adds the same variable to `CycInt`, where it restricts nothing,
and there the guard of `MFP` is a theorem: `CalledInOrderCorrect` (section 12).  That only the channels in
`Repeats` have two inputs before an update is the other assumption on timers; `OnlyFastTimersRepeatCorrect` says which
these are.  And a handler leaves its lateness in `CycInt_DelayedCycles`,
bounded by `LatenessBounded` and never positive.  The product of both modules would only
repeat this with a far larger state space.  `FDC` meets them in the same way: each call
of its handler is an event, and `GPIP5` is a line of `GPIP_Set_Line_Input`, from a handler as well as from an instruction.

`Gemdos` composes two modules with disjoint variables.  A step of a program is a step of one of
them; a reset, mounting and a snapshot are a step of both at once (`GemDOS_InitDrives /\ InitSearches`
and so on), and `TypeOK` holds the one fact that relates them: while drives are mounted there
is a cache for searches.

## 3. CycInt and EventQueue: the internal events

`CycInt` keeps the list as it is in memory: `list.Active`, `.Cycles`, `.Prev`, `.Next`
are the fields of `InterruptHandlers[]`, `ActiveInt` and `ActiveInt_Cycles` the cached head.
`delayed` is `CycInt_DelayedCycles` (`PendingInterruptCount` has the same value whenever it is
read); `clock` is `CyclesGlobalClockCounter`, `currcycle` what the current instruction has
used so far.  `phase` says where control is: in an instruction ("cpu"), in the
`while` of `CycInt_Process` ("loop"), in a handler before its acknowledge
("called") or after it ("body").  `blit` says that the loop was entered from the
handler of the blitter.

| Action | Code |
|---|---|
| `CycInt_AddRelativeInterrupt`, `CycInt_RemovePendingInterrupt`, `CycInt_ModifyInterrupt`, `CycInt_Reset` | the functions, called by an instruction or by the body of a handler |
| `Execute`, `EndInstruction`, `MFP_UpdateTimers` | the instruction, its end (`CycInt_Process` with the new clock), and the access to the MFP in its middle |
| `CycInt_CallActiveHandler`, `CycInt_AcknowledgeInterrupt`, `HandlerReturns`, `LoopEnds` | one round of the loop |
| `RestartTimer` | the arithmetic of `MFP_StartTimer_AB/CD` for a timer that its handler restarts |
| `Blitter_FlushCycles` | a pass of the blitter that has the events processed |

The insertion scans the list in the code.  The specification states where the
scan stops (`ScanStop`: the first element that is not earlier), and `ScanFindsPlace`
checks that the loop, written as a recursive function (`ScanLoop`), stops just there
in every reachable list.  The other proofs use `ScanStop`, and that the two agree is itself
proved (`ScanFindsPlaceCorrect`, section 12).

Properties: `TypeOK`; `ListOK` (linked both ways, sorted, ends in `INTERRUPT_NULL`,
complete, cached head right); `ScanFindsPlace`; `NothingOverdue` (when an
instruction starts nothing was due before); `NoDrift` (a restarted
timer is due a whole number of periods later, and not in the past); `ImplementsQueue`;
`LoopTerminates`.  `EarliestFirst`, `LatenessBounded` and `CallsBounded` (while no time passes a handler is
called at most twice) are proved only (section 12).

**Run `cycint`** (902 558 states): VBL, blitter and a timer; delay 2, periods 1 and 2,
correction −1, instructions of 1 or 2 cycles, blitter passes of 1 cycle, the clock
stops at 5.  Three real events are the smallest number for which an insertion has a
neighbour on both sides; a period of 1 with instructions of 2 makes a timer miss a whole
period; a clock of 5 leaves room for two instructions, a pass of the blitter within the
events of the first and the handlers that were late because of it.

**The acknowledge** removes *the head*, whoever calls it.  All handlers call it once, and all but two
call it before they do anything else: read in the source, and in `CycInt` by construction (phase "called").  The
VBL's handler acts first but looks at the head before it acknowledges (`video.c:4973`), so that what it
does before is what `CycInt` lets an instruction do.  The keyboard's handler (`ikbd.c:1790`) does not look.  `AutoSend` adds what may happen
there, a reset (`Reset_ST`: the list is started anew, then the keyboard and the video enter it), to
`CycInt`.  Run `cycint_autosend` (VBL, blitter, keyboard, delays 1 and 2) shows that `AcknowledgesItself`
is then violated: finding 1.

**Fairness** `WF_vars(Loop)`: the emulator is one thread and a handler is a function that
returns, so the loop always makes its next step.  Nothing is assumed of the processor or
of the devices: handlers may schedule as often as they like within an instruction's cycles.
The blitter may make any number of passes as far as fairness goes; that the loop ends all
the same is because a pass takes cycles and *in the model the clock ends*: so what
`LoopTerminates` shows is that rounds of the loop that take no time cannot go on for ever.
The mutant `RestartTimer_NoPeriod` (a timer restarted with no period) does exactly that.

**Assumptions**: due times stay below 2^64−1 (`Representable`), delays and periods
are at least 1 (`CycInt_AddRelativeInterrupt` rejects nothing, its callers pass positive
values), the VBL is only moved to a time still ahead, as `video.c` does.  The list's
functions for snapshots, and `CycInt_AddAbsoluteInterrupt`, which nothing calls, are left out.

## 4. MFP: the interrupt controller

State: per MFP the registers (sets of channels), `IRQ`, `IRQ_CPU` (what the processor
has seen of it), `IRQ_Time`, `Current_Interrupt`, `Pending_Time` and `Pending_Time_Min`;
shared: `MFP_UpdateNeeded`, `SPCFLAG_MFP`, the bit of level 6 and those of HBL and VBL (`video`) in
`pendingInterrupts`, the latched level (`ipl_pin`: is it 6?), the mask.  `pc` follows the
processor: `opcode` → (`timers` → `access` → `opcode`)* → `process` → `special` → `opcode`, or
→ `iack` / `videoiack` → `opcode`.

| Action | Code |
|---|---|
| `InterruptHandler_Timer` | `MFP_InputOnChannel` from a timer's handler, with the time it should have been called |
| `GPIP_Set_Line_Input` | a device that changes its line, during an instruction or in a handler that any of the loops calls: `MFP_InputOnChannel` with the time of now, amid inputs of timers that are late |
| `InterruptHandler_Video` | `M68000_Exception` of an HBL or a VBL, which has the levels updated |
| `AccessRegister`, `UpdateTimers` | wait states, `MFP_UpdateTimers`, which processes events and updates IRQ |
| `Enable_WriteByte` … `VectorReg_EnterSEI`, `ReadByte` | the register handlers, each with the `MFP_UpdateIRQ` at its end |
| `customreset` | the RESET instruction: `MFP_Reset_All`, no level pending; the flags and the latched level survive, as in the code |
| `EndOfInstruction`, `CycInt_Process` | the end of an instruction and of the loop |
| `do_specialties_*` | `MFP_DelayIRQ`, `M68000_Update_intlev` (`Update_intlev`), the decision |
| `iack_cycle_Level6`, `iack_cycle_Video` | the acknowledge, after the events that became due meanwhile |

The code stamps an input with `CyclesGlobalClockCounter`, the clock at the *start* of the
instruction, minus the lateness of the handler.  `EventTime` keeps that, so times of inputs may lie before the times of earlier accesses, which is where
`NoLostRequest` and `DelayNotNegative` could go wrong.

Which level the processor sees depends on its core (`SeesLevel6`): a cycle exact 68000 (`AccurateIPL`) compares the *latched*
level with its mask (`time_for_interrupt`), the others look at `pendingInterrupts`.  `doint()`, which
moves the latch, is called only while something is pending (`m68000.c:752`).  So a level 6 that is withdrawn when no HBL or VBL waits
stays latched, and the processor acknowledges a request that is gone: it happens when a write to a register takes the
request back, or with the RESET instruction.  `MFP_ProcessIACK` then gives the vector of `Current_Interrupt` all the
same (its TODO at `mfp.c:822` asks for a spurious interrupt, which `newcpu.c:3018` knows for other cases).  `AcknowledgesAllowed`
is therefore stated for a level 6 that is pending, without which TLC refutes it on run `mfp`; and `PinFollows` says that
the latch is wrong in no other case: while anything of MFP and video is pending, it is level 6 exactly if level 6 is.

Properties: `IRQJustified`, `AcknowledgesAllowed`, `PinFollows`, `UpdateNotForgotten`, `LineNotForgotten`,
`NoLostRequest`, `DelayNotNegative` (comments in the module); `TypeOK` is proved only.  `NoLostRequest` says how far the
code goes, not how far one might wish: a request that is allowed may be left unsignalled for an
earlier one that is blocked or that was overtaken by an input of its own channel (observation 15).

**Runs.** `mfp` (4.8 million states; two to three minutes): one MFP, a cycle exact 68000, channels 4 and 13 (a low
and a high priority, in different registers), every subset for masks, pending and in-service
writes; delays 1, instructions of up to 2 cycles, clock to 5.  `mfp_tt` (4.7 million): two MFPs
on the processor that is not cycle exact, one channel each, clock to 4: the shared flags are
what it is about, hence `LineNotForgotten` alone.  More channels repeat priorities between pairs; the code treats
channels by number only, and the proofs cover any set of channels.  Delays of the code (4 cycles
for the line, 12 to the acknowledge) are scaled to 1 or 2: the properties compare times, and
what matters is that an input can come before, in and after each of these intervals.

**Init** is a machine a program has set up: enable and mask registers written, nothing
pending.  `Repeats` names the channels that may have several inputs before the next update;
a timer faster than an instruction or than a pass of the blitter does that.

**Abstracted**: HBL and VBL are one bit, whose acknowledge may leave the other pending; `masked` stands for a mask that holds back
all of them or none; the interrupts of the SCC and the DSP, which share the latch, are left out.

## 5. Floppy: the drives and their images

`name` is the configuration's, `drive` is `EmulationDrives[]`, `file` the images on the
host, `opened` the names the dialog would restore, `guest` is history: what the guest
wrote last to each disk, what it saw when it last read the write protect bit.

A disk is *named* by a front end and *inserted* later; `ShortCut_InsertDisk`,
`Dialog_Open` / `DlgFloppy_Set` / `Dialog_Cancel` / `Dialog_OK`, `retro_load_game` /
`retro_unload_game` model the three ways that exist, each inserting the drives that
front end inserts, in its order.  `InsertDiskIntoDrive` ejects first, `EjectDiskFromDrive`
saves when the contents were changed and may be saved.  `Floppy_Init`, `Floppy_UnInit`
and `Reset_ST` are the ends of a machine's life.  `UpdateState`, `SetState` and `ForcedWPRT`
are the two phases in which an ejection and an insertion force the write protect signal,
by which TOS notices an exchange.

Properties: `NothingLost`, `ChangeSeen`, `TransitionEnds`, `NamesMatch`.

**Runs.** `floppy_contents` (49 494 states): two images, shortcuts and libretro, a boot sector
of which one value is not valid (the disk is then never saved), end and restart.
`floppy_dialog` (689 066 states): three images, one of them write protected and in
an archive (not savable), one with a disk B, the dialog and shortcuts, a machine that runs for
7 VBLs with a reset; the delay of a phase is 3 VBLs for the code's 18, the guest polls at
least every 2 VBLs for TOS's 16 with two drives (`fdc.c:218-221`, `floppy.h:20`), and
the user leaves a disk alone for 3 VBLs, one phase (see observation 1).  Two drives
are all there are; a third image lets a drive be exchanged while the other keeps its disk.
`floppy_moved` is a finding: the reason why `floppy_contents` has no dialog.

## 6. FDC and FdcDma: the floppy disk controller

The controller of `fdc.c` is a machine of commands and states (`Command`, `CommandState`) that one
event drives: a call of `FDC_InterruptHandler_Update` runs states until one of them has a
delay, and asks for the next call after it.  Each state is an action, named for the function
or the state; `immediate` is TRUE while the call is not over, and nothing from outside
happens until it is.  Everything else may happen between any two calls.

| Action | Code |
|---|---|
| `FDC_WriteCommandRegister` | acceptance (busy, replacement of a command that has not moved anything), `FDC_ExecuteTypeI…III`, `FDC_TypeIV_ForceInterrupt` |
| `FDC_WriteRegister`, `FDC_ReadStatus` | track, sector and data register, at any time; the status, which clears the interrupt |
| `FDC_Set_MotorON`, `HeadLoad`, `Sought_MotorOn`, `Tracks_MotorOn` | START, SPIN_UP, HEAD_LOAD and MOTOR_ON, which fall through into each other as in the code |
| `Restore_…`, `FDC_UpdateSeekCmd`, `FDC_UpdateStepCmd`, `Verify…`, `FDC_VerifyTrack` | type I: the head, the verification |
| `NextHeader`, `CheckHeader` | the search for a header, up to 5 index pulses |
| `FDC_ReadSector_ST`, `FDC_ReadAddress_ST`, `FDC_ReadTrack_ST`, `TransferToDma`, `Read_Crc` | reading |
| `WriteSector_Start`, `WriteTrack_Start`, `TransferFromDma`, `FDC_WriteSector_ST` | writing |
| `Multi`, `Finish`, `MotorStop`, `MotorStopped` | next sector, end with its interrupt, the motor |
| `FDC_IndexPulse_Increase`, `FDC_IndexPulse_Init` | a pulse of the selected drive; a drive that turns gets a reference time |
| `IndexPassesUnnoticed` | the disk goes on turning in a drive that was disabled: its reference time gets old |
| `FDC_SetDriveSide`, `FDC_InsertFloppy`, `FDC_EjectFloppy`, `FDC_Drive_Set_Enable` | PSG port A, the user |
| `HDC_IRQ`, `FDC_Reset` | the other user of the interrupt line; cold, warm and the RESET instruction |
| `FDC_WriteDma`, `FDC_DMA_FIFO_Push`, `FDC_DMA_FIFO_Pull` | `FdcDma`: direction, sector count, one byte through the FIFO |

The position of a disk is not kept: which header passes next is any of the track's, and a pulse comes
at any moment while the disk turns.  Single bits of the status are kept if a state or a property depends on them.
A command that needs a drive waits in its state until there is one; that is no step.

A drive that the user disables in the dialog keeps its disk and its reference time, so that positions and headers are
still computed from it, but its pulses are no longer noticed (`fdc.c:2042`).  `lag` says what this does to the drive that is
selected: "none", the last pulse is less than a turn ago; "behind", a pulse is due that nobody counted; "counted", one was counted and
more may be due.  Each `FDC_UpdateAll`, before a state of the handler and before an access, counts one of them if the drive is enabled (again), also
within a call, so that a search may count all five in one call and fail.  While the drive is disabled, a search behind by a turn finds
the first sector's header at a distance of less than 0 or of 0 (`fdc.c:5209`; the delay adds 10 bytes), again and again: `soon` in
`NextHeader`.  With a delay of 0 the loop of `fdc.c:2338` does not end (observation 26).

Where the code reads its tables of drives with index −1 (observation 20) any outcome that this can have
is allowed.  `found` is history: the place whose header the command recognised, as long as the
program does not itself choose another drive, side or sector; `access` is the place the current step
reads or writes; `granted` and `moved` count the bytes the DMA was given and has stored.

`FdcPort` is what a program may rely on, without disks, motors, states of commands or the DMA: the type of the command that
runs and whether it has begun to move something, the busy bit, the conditions of a forced interrupt, the
sources of the interrupt line, and the line.  A command is taken when none runs, or in place of one of the same type that has moved nothing; the
busy bit falls in the very step that asks for the interrupt of the end (`Complete`), or because the
program forced an interrupt or reset the controller; a command starts with the interrupts of earlier ones cleared; index pulses
ask only while a forced interrupt wants them; an acknowledge leaves what an immediate forced interrupt must
keep; the hard disk controller takes the line for itself and gives back only that (`Share`).

Properties: `FdcTypeOK` (registers are bytes, the head stays on its tracks), `Able` (in the middle of a call, and in a command with a disk, the next state or the pulse it waits for can come), `SectorMeant`, `WithinGrant`, `ImplementsPort` (`Port!Spec`),
and the liveness properties `LoopEnds` (a call of the handler ends, the emulator does nothing else
meanwhile; or it comes to be `Astray`, in a search in a disabled drive whose index passed unnoticed) and `CommandsEnd` (`fdc.c:155`: commands wait for a drive and a disk and then complete as usual; a call
that never ends is not followed by an enabled drive, and `<>[]Ready` does not hold of it).
`NotReplaced` (no command takes the place of one that transfers), `IrqLine` (the line asks exactly while a source is recorded), `BusyRuns` (the busy bit is set exactly while a command runs),
`NoStaleEnd` (while one runs, the end of an earlier one is not recorded as a source) and `HandlerShrinks` (a call runs no state twice, but for that header) are proved only; the
second to fourth say in one state what `ImplementsPort` says of the steps.

**Run `fdc`** (302 313 states; about three minutes): all commands with the flags that change the control flow, on one drive that
may be deselected, empty, protected or disabled, one side, a head with two positions of which the disk has one, two sectors of 4
bytes, FIFOs of 2, a sector count of 0 or 1, registers of three values; a pulse each for spin-up, search
and motor off (for 6, 5 and 9 in the code).  `Moves = 3` steps from outside, each at any
moment: a command, an intervention and one more, as in "read, eject, insert", "seek, force, seek" or "set the count, write, toggle the
direction".  The limit also makes `CommandsEnd` fair to the code: a program that gives commands for ever keeps
the controller busy.  Two drives and larger disks add places, which only `SectorMeant`
and the type invariant speak of; these are proved for any number.  Deadlock is not checked: with no command, no moves left and no disk that turns,
the controller rests.

**Fairness**: `WF` for the handler, which `CycInt` calls when its time has come, and for
`FDC_IndexPulse_Init`, which every call does; `SF` for `FDC_IndexPulse_Increase`:
the disk does not reach its index *within* a call, so a pulse is enabled and disabled
again by every call, but each call takes time and the times add up to a turn of the disk.  Nothing is assumed of `IndexPassesUnnoticed`.
Fairness makes the code run only if the model lets it: `Able` says that it does, within a call and while a command that has a disk (`Served`)
does not count pulses (`Counts`), and that the pulses it counts come.

## 7. Gemdos: the emulated hard disk drives

`gemdos.c` intercepts calls of the guest's operating system for directories of the host.  The guest's TOS
remains the one that starts programs, and the emulator knows a program only by the address
of its basepage, which the next program gets again.  `chain` is TOS's chain of programs,
`FileHandles` and `ForcedHandles` are the tables of the code, `host` the files, `saved` the snapshot.
For searches, `dta` is what the guest's memory holds at each address that programs use for a DTA (an index
with the emulation's magic number, or anything else: `Nil`), `InternalDTAs` the cache with
`DTACount` and `DTAIndex`.

| Action | Code |
|---|---|
| `GemDOS_Create`, `GemDOS_Open`, `GemDOS_Close`, `GemDOS_Write`, `GemDOS_FDelete` | the calls; the lowest free entry, the owner, the mode; a close removes redirections that lead to the entry |
| `GemDOS_Look` | `GemDOS_GetValidFileHandle` for a handle that turns out to be TOS's, which removes a stale redirection |
| `GemDOS_Force` | `Fforce`, also of a handle of TOS, where the redirection stays; handles are compared as unsigned words, those of TOS (`MAX_STD` stands for them) lie between the standard ones and the emulated ones |
| `Pexec`, `GemDOS_Pterm` | TOS makes a basepage; the end of a program closes what carries its address |
| `GemDOS_Reset`, `GemDOS_Boot` | a reset ends all programs and closes nothing; calls are intercepted again from the boot on |
| `GemDOS_InitDrives`, `GemDOS_UnInitDrives` | the dialog, which resets the machine; all handles are closed |
| `Save`, `Restore` | handles by name, mode and owner; files are opened again; DTAs come with the memory of the guest while the cache is cleared |
| `SFirst_Label`, `SFirst_Nothing`, `SFirst_Found`, `GemDOS_SNext` | `Fsfirst` in its three outcomes, `Fsnext` |
| `Overwrite`, `Discard`, `Pexec` | what the guest, the user and TOS do; external |

History: `holds` and `aim` say for each entry and each redirection which file it should lead to and at which
depth of the chain the program stands that made it (0: before a reset); `asked` says for
each DTA how far its last search got, `intact` that the cache was not started over.

Properties: `TypeOK` (with a cache whenever drives are mounted, however they came to be),
`HandlesLead` (what a program opened and did not close is open for it under its number, and nothing stays
open behind a program), `StdLeads` (a redirected handle leads to the file it was redirected to, and afterwards to none, not even
to one that is opened later in the same entry), `OwnEntry` (no other search takes or moves the
entry of a search that may be continued).  What they except is what the code does not do, and named
in observation 16 to 18.

**Run `gemdos`** (224 353 states; one to two minutes): three basepages and programs nested three deep, with `MAX_PARENTS = 2` for 12, so that a
program can be out of the reach of `GemDOS_BasepageMatches`; two files, two entries, one standard handle, so that
an entry is closed and used again while a redirection leads to it; two DTAs, a cache that grows from 1 by 1 to 3, so that it grows
while searches are under way and is full; two matches for a search.
`SYMMETRY`: basepages, files and DTAs are interchangeable, and no property singles one out.
`VIEW Tables` leaves out the contents of files and the modes of handles, which no invariant of this run speaks of and
on which no step depends that changes anything else (`GemDOS_Write` changes contents only).
`CONSTRAINT OneKind`: programs use handles or searches but not both, the two share nothing but the
machine's steps; a cache started over is not followed.  `CONSTRAINT Near`: between a
snapshot and its restore only the host's files change, since a restore depends on nothing else.
The proofs (section 12) need neither.  `gemdos_restore` is finding 3.

## 8. SessionRunner: the evidence of a session

`pc` goes through the steps of `main` that others can see: the two checks for earlier
evidence, creation of `session.json` (empty, then written), `session.start`, installation of
the two handlers, `Popen`, the assignment of `child`, `wait`, the exit status, restoring
the handlers, `session.stop`, the final `session.json` (truncated, then written).
`RequestShutdown` is a signal that a handler takes, `Killed` one that meets the default
action; both may come between any two steps.  `ChildExits` and `ChildObeys` are the emulator, which ends by itself, quits when it was told
to or dies of that; `ChildKilled` is a crash or a signal from another process (`Deaths`), at any moment, told to end or not.  `Popen.wait` gives −s for a
death by the signal s, and line 97 makes 128 + *the runner's* signal of any of these once the runner noted one.

`CompletedHonest` says what the evidence may then tell (`Fits`): the code that `wait` gave, unless the runner ordered this death; 128 + signal,
if the emulator died of a signal and the runner noted one.  A crash after a signal was noted and not passed on, or while the emulator
was about to quit, is told as a shutdown; that is what line 97 does, and the property allows no more.

Properties: `NoOrphan`, `CompletedHonest`, `EvidenceKept`, `AskedEnds`, and `Able` (from the wait on `main` is never stuck, however the emulator ended).

**Run `session`** (3 072 states): two runs in the same directory, one after
the other, up to two signals each, exit codes 0 and 1, and deaths by signal 11.  A third run would meet what
the second meets; the first two signals show the handler before and after the handlers are
restored.  Deadlock is not checked: runs end.
**Fairness**: the runner goes on (`Main`), and an emulator that *was told* to end
ends (`ChildObeys`).  SDL turns SIGTERM and SIGINT into a request to quit, which the emulator
follows when it is started with `--confirm-quit off`, as all qualification scripts do; with the
default it would ask the user first, so `AskedEnds` is a promise to sessions started that way.  One that was not told may run for ever: an analysis has no time limit of its own.
`KeyboardInterrupt` cannot reach `main` once both handlers are installed, nor can the
`terminate` of the `finally` block find a running emulator, so neither has an action.
`core-events.jsonl`, which belongs to the emulator, is not looked at by the runner.

## 9. AtariAnalysis: what the emulator records

`env` holds what the environment asks for, chosen in `Init`: window and limits, the probe,
whether the file can be opened.  A wrapper around a sector access makes the access, then
records it; around a read of drive A's boot sector comes the probe, a write of one
changed byte, made once.  These are separate steps (`at.step`), so that every property
speaks of an emulator killed between any two of them.  `disk` may change at any moment:
a probe may find no disk or a protected one.

Properties: `MediaEvidence`, `MemoryEvidence`, `ProbeOnce`, `ProbeExplained`.

**Run `analysis`** (1 740 300 states): three operations of the guest; limits 1 and 3 for sectors
(reached, and not reached), 1 for memory; a window with accesses inside, before, after and
across its ends; 16 addresses for 2^32, one window ending with the address space.  Three
operations suffice for a read that probes, one that must not probe again, and a
write; all four properties are proved for any number (`MemoryEvidence` for windows that end at 3
or above, observation 9).

Registers and clocks in the records are left out, and so is the moment at which the caller
copies the sector (observation 6).

## 10. Findings

Each is shown by a run that is expected to find a violation, of what the repository itself says.

1. **`cycint_autosend`, `ikbd.c:1800`.**  `IKBD_InterruptHandler_AutoSend` has the user's events processed before it acknowledges.
   A cold reset among them (a command on the control socket, `control.c:367`, or a key while the emulation is paused) starts the list anew, and the
   acknowledge removes the interrupt that is now its head: one the reset has just scheduled.  The VBL's handler guards
   against the same (`video.c:4970`).
2. **`floppy_moved`, `change.c:443`.**  Moving a disk from B to A in the dialog reads the file for
   A before B's changed contents are saved to it.
3. **`gemdos_restore`, `gemdos.c:924`.**  A snapshot keeps for each handle the mode it was opened with and
   restoring it opens the file again in that mode; for a file made with `Fcreate` this is `"wb+"`,
   which truncates it.

## 11. Other observations

Met while reading and modelling; no run is spent on them, for the reason given.

1. `floppy.c:457`: exchanging a disk within the 18 VBLs of its insertion cancels the second phase,
   and the exchange is not signalled to the guest.  `ChangeSeen` is therefore checked for a user who waits
   (`UserDelay`); with `UserDelay = 0` it is violated.
2. `retro/main_retro.c:166`: loading a game may name a disk B (`doc/manual.html:1559`) but inserts drive A
   only.  `NamesMatch` is not a property of the libretro front end.  If the game loaded into A was in B before, both
   drives hold it, A with the older contents; the shortcut for a disk A with a disk B does the same for a moment
   (A is read before B is saved).  TLC shows both when `PartnerB` of `floppy_contents` names a disk; the theorem
   `ContentsKept` is for disks without one.
3. `shortcut.c:240–245`: inserting a disk by shortcut inserts the other drive again as well;
   contents that cannot be saved (archives, invalid boot sectors) are thereby dropped.
4. `atarisandbox_run.py:45`: two runners started *at once* both pass the check for earlier evidence.
   `EvidenceKept` is for runs that follow one another; `NoOrphan` holds for both.
5. `atarisandbox_run.py:108`: a second signal after the handlers are restored ends the runner
   before `session.stop`.
6. `atarisandbox_analysis.c:265`: `Floppy_ReadSectors` hands out a pointer into the drive's buffer
   which the caller copies after the wrapper returned (`fdc.c:5297`), so the guest's first read
   already delivers the probe's byte, where line 247 says the probe comes after the guest has really read.
7. `atarisandbox_analysis.c:46`: `core-events.jsonl` is opened for appending, and the runner does not look
   for it; records of a killed run stay in front of the next one's.  The one-shot state of the probe is per
   process, so a second emulator on the same image would change the byte back.
8. `atarisandbox_analysis.c:107`: exceptions are recorded without a limit (`docs/SAFETY.md:18`).
9. `atarisandbox_analysis.c:154`: for a window that ends below 3 the 32-bit subtraction wraps, and accesses that
   leave the window are recorded.  `WindowExact` proves the comparison right for all others.
10. `cpu/atarisandbox_memory.c` records a write before it is made, also when it then raises a bus error.
11. `fdc.c:3382`: a write command on a protected disk completes and then goes on into the state machine.
12. `fdc.c:3552`: a sector collected over many events is written to the drive selected at its end.
13. `memorySnapShot.c:472`: a snapshot that is too short is noticed after part of the machine was restored.
14. `shortcut.c:282`: a warm reset by a shortcut runs in the VBL's handler, possibly within an acknowledge cycle.
15. The MFP and the comments on it disagree in three places, met while checking `MFP`, whose invariants are stated for what
    the code does.  `mfp.c:1116`: an input on a channel that is already pending overwrites
    `Pending_Time` with the later time while `Pending_Time_Min` stays at the earlier; the comparison at line 998 then rejects the
    request and IRQ stays 0, until some other event causes an update.  `mfp.c:783`: when IRQ falls and rises again within one
    instruction, `IRQ_CPU` is still set from before and level 6 is taken at once (line 750 promises a delay).
    `mfp.c:982`: an update of one MFP of a TT clears the flag that the other's input had set; `UpdateCorrect` proves
    that this cannot happen with one MFP, and `LineNotForgotten` that the line survives it.
16. `gemdos.c:838` says "Close all open files on emulated drive" of `GemDOS_Reset`, which closes none
    (601–611).  Handles and redirections survive every reset until drives are mounted anew: they fill the table of 64,
    and a program that gets the same basepage gets the old redirection.  `Fforce` back to a handle of TOS
    (2781) leaves the redirection.  A redirection is dropped when its maker is more than 12 programs up.
    After a restore, a redirection whose file was lost leads to the file opened next in that entry.
17. `gemdos.c:3136`: `Fsfirst` for a volume label returns before `DTAIndex` moves on, so the next search of another DTA gets the same entry, and
    `Fsnext` in the first one, which compares no address (2998), continues that search, where line 3010
    says "Volume label was given already in Sfirst()".  `OwnEntry` is for programs that call `Fsnext` after a search that found something.
18. `gemdos.c:3112`: after a restore, or when the cache of 16 K entries starts over, addresses of earlier searches
    are left in the entries, and a search can get an entry that another one still uses (`intact`).
19. `inffile.c:1035`: the file that replaces `DESKTOP.INF` is one `FILE*` that a handle may share and that a reset or the end of a program closes.
20. `fdc.c:2704`, `2880`, `3038`, `3556`: with the drive deselected in HEAD_OK or at the end of a write the tables of drives are read
    at index −1.  `5371` ("should not happen") is reached by changing the disk between header and transfer.
21. `fdc.c:4681` says that the sector register has no effect once the header was found; the
    transfer still uses it (3273, 3556).  `SectorMeant` excepts it.
22. `fdc.c:5320`: a write whose direction bit is toggled on the way has its count set to 0, and bytes of `SectorData` that were never set
    are stored.  `fdc.c:1423`: `Pull` counts a sector only with the first FIFO after it.
23. `fdc.c:2569` says that a timer is used for the motor to stop "because the drive can be empty"; with an empty drive no pulse is counted and the
    motor never stops.
24. `fdc.c:2258`: an interrupt of the hard disk controller overwrites the floppy controller's sources, so
    `FDC_ClearHdcIRQ` may take back a completed command's or a forced interrupt with it.  The line and
    the sources still agree (`IrqLine`, `LineCorrect`).
25. `atarisandbox_run.py:80`: a signal between the installation of the handlers (83, 84) and the end of the assignment of `child` (86) is noted and
    not passed on; the runner then waits for an emulator nobody has told to end.  `AskedEnds` is for signals that find the process.
26. `fdc.c:2338`: a search for a header in a drive that was disabled in the dialog (`change.c:284`) never leaves the loop of the handler when its
    index has passed: the drive is no longer updated (2042) but still has positions (2134), those of the first header at or before
    the head (5209, a distance of −10 bytes, to which the search adds 10), and `NEXT_HEADER` and `CHECK_HEADER` follow each other
    with no delay.  The emulator hangs, where line 156 says that such commands "will not fail if the drive is OFF or empty"
    but wait.  TLC shows it when `\/ Astray` is taken out of `LoopEnds`: STEP_IN with verification, the drive disabled in the wait for the
    header, the index.  No run is spent on it; `LoopEnds` shows that this is the only loop without an end.

## 12. What is proved, and what is only model-checked

TLAPS checks the following for every value of the constants that satisfies the named
`ASSUME`s of the modules: any number of events, channels, drives, programs, handles, runners, sectors, any times
and any (unbounded) number of steps.  The bounds `MaxClock`, `MaxCount`, `MaxDepth`, `MaxEntries`, `MaxOps`, `MaxSignals` are
constants without an upper limit.

**CycInt** (`CycIntProofs`): `TypeCorrect`, `ListCorrect`, `EarliestFirstCorrect`, `ScanFindsPlaceCorrect`,
`TimelyCorrect`, `NoDriftCorrect`, `CallsBoundedCorrect`, `Refinement` (`Spec => ImplementsQueue`),
`CalledInOrderCorrect` (`HorizonSpec => CalledInOrder`), `OnlyFastTimersRepeatCorrect`, `LoopTerminatesCorrect`.
The invariant is
`IInv == TypeOK /\ ListOK /\ Phased /\ CalledIsHead /\ NothingOverdue /\ NothingTooLate /\ LatenessBounded /\ SuspendedLateness`.
`ListOK` alone is inductive once the list's operations are shown to preserve it, but the
loop needs to know which phase it is in (`Phased`) and, where a restart counts from the due time of the handler that runs,
that this was the head when it was called (`CalledIsHead`); and the bound on lateness needs a bound that also holds
*between* handlers (`NothingTooLate`) and while the blitter's handler waits for others
(`SuspendedLateness`).  That a list is complete and sorted is an induction along it;
`HeadReachesAll` says it with sets: a set that holds the head and the
successor of each of its members holds every active event.  Used on the set of the
events that are not earlier than the head it gives `HeadIsEarliest`, used on those before the place of an
insertion it shows that the place exists.
For `ScanFindsPlace` it is used on "reached from" (`Reaches`): of two active interrupts one reaches the other, so there is
only one place (`ScanStopsOnce`); the function that gives the place to whatever reaches it solves the recursion of `ScanLoop`
(`ScanExists`), and every solution carries the place back to the head (`ScanEndsAtStop`).  `NoDrift` needs to know that the lateness still tells when
the timer was due (`DueKnown`: from the call to the restart its due time in the list is the time now plus
`delayed`), and that what is skipped is a whole number of periods (`RestartWhole`).
`CallsBounded` is the part of `LoopTerminates` that is about the data: each event has at most two calls left
at the time it is now (`CallsLeft`), two only for one that is late, since a late timer may be due again at once
but then is on time; devices schedule ahead and give none (`DeviceCalls`), a restart gives back one of the two (`RestartCalls`),
an acknowledge takes one away (`AcknowledgeCalls`).
`CalledInOrder` rests on `NothingBeforeHorizon`: no active event is due before the horizon.  A loop that ends leaves nothing
that is due (it raises the horizon to the present), devices schedule ahead (`DeviceHorizon`), and a late timer is restarted
at the present at the earliest (`RestartHorizon`), which is where the reduction of the lateness to less than a period counts.
`OnlyFastTimersRepeat` follows from the bound on lateness: due at once again means late by exactly the period.
TLC agrees with both on the instance of run `cycint`, cycle exact and not.
`LoopTerminatesCorrect` (`FairSpec /\ []LoopAble /\ NoInfiniteDescent => LoopTerminates`) counts two things down: the time up to
the bound of the clock (`TimeLeft`), which never returns (`TimeGoesOn`), and the calls left at the time it is now (`AllCallsLeft`, the
number of events that may be called once more and of those that may be called twice), which grow only when time passes (`CallsGoDown`).
Both are natural numbers because finitely many events are active (`ListIsFinite`).  A step that uses up neither goes from the handler to the loop,
from the loop to a call, or from the blitter's inner loop back to its handler (`LoopProgress`); from there the temporal prover finishes.
The two hypotheses are what TLAPS lacks: `LoopAble`, that the loop can take its next step (ENABLED), and `NoInfiniteDescent`, that a natural
number does not fall infinitely often unless it rises infinitely often, which is true of every behaviour and takes an induction over time.
TLC finds both true on the instance of run `cycint`; were `LoopAble` false in some state, `LoopTerminates` would fail there.

**MFP** (`MFPProofs`): `TypeCorrect`, `JustifiedCorrect`, `LinesCorrect`, `PinCorrect`,
`AcknowledgeCorrect`, `DelayCorrect`, and `UpdateCorrect` and `RequestsCorrect` under the hypothesis that there is one MFP
(observation 15 is why).  `IInv` is type correctness, `Justified` for each MFP,
`LineNotForgotten`, `PinFollows`, `SomeoneRequests` (between the decision to
interrupt and the acknowledge some MFP still asserts IRQ, if level 6 is pending) and `UpdateSeen`.  The acknowledge takes
`Current_Interrupt` whatever the first update found; that this is still allowed rests on
`Justified`, which every action must then keep although inputs arrive in between.
`DelayCorrect` adds `TimesOK`: an asserted IRQ and every pending input have times up to `clock + currcycle`,
and when the processor looks the instruction is over.  `RequestsCorrect` adds `RequestsOK`: the
input that `Pending_Time_Min` came from is still pending and unmasked (`MinKnown`; `served` is what rules out a second
input of its channel), so that an update which finds nothing can blame it; where registers may be written, no pending input
is later than `Pending_Time_Min`.  It rests on `BoundAssumption`, that no time of the model reaches UINT64_MAX.
Of a TT, TLC refutes `UpdateNotForgotten`, and `NoLostRequest` when no channel may repeat (a cycle exact machine, one channel, `Repeats` empty);
the other properties of the module are proved for it too.

**Floppy** (`FloppyProofs`): `FloppyTypeCorrect`, `TransitionsEnd`, `ExchangeSeen` for a user who leaves a drive alone for a
phase (`UserDelay >= DELAY`), `NamesShown` for front ends other than libretro, `ContentsKept` without the dialog and
without disks B (`OneAtATime`; section 10 and observation 2 say why).  `InsertFacts` and `InsertAllFacts` say what filling
one drive, or some, does to its disk and its phases, and `ExchangedBy` what every front end's exchange has in common, so that each
invariant treats the front ends once.  `AllEarly` bounds the phases by the time of the last touch, which gives
`TransitionsEnd`.  For `ExchangeSeen` the disk seen at the last look is in the drive, or it was taken out since
by an exchange that is in its first phase (`TakenOut`), when the signal is forced; that an exchange begins with
such a phase needs a drive at rest (`WaitedForRest`), hence the user's patience.  `Kept` says of every disk that may be saved: in a drive, its contents are
the written ones, it is to be saved, and if they do not differ the file has them; in no drive, the file has them.
`NamedOnce` and `HoldNamed` keep a disk out of two drives.  Restarting relies on the drives being empty while the
emulator is off (`EmptyWhenOff`).

**FDC** (`FDCProofs`): `TypeCorrect`, `LineCorrect`, `BusyCorrect`, `NotReplacedCorrect`, `PortCorrect`
(`Spec => ImplementsPort`), `NoStaleEndCorrect`, `HandlerBounded`, `LoopEndsCorrect`, `WorkShrinksCorrect`, `CommandsEndCorrect`, `SectorCorrect`, `GrantCorrect`.
That the busy bit is right needs to know which states belong to a command that runs (`Staged`): the states from the first
movement on (`Late`) are reached only with `ReplaceCommandPossible` off, and the idle ones only when no command runs.
`UpdateCommand` reduces the actions of the handler to three kinds (a command goes on, ends, or the motor runs out), and
`OutsideCommand` those from outside to four (begins, ends, leaves alone, resets).  The refinement of `FdcPort` needs the line's
invariant and `Staged`, from which busy bit and line follow (`PortFollows`), and `Registered`: a replacement is
decided by the command register, which must still hold a command of the type that runs.  `NextPort` then
has one step for each kind of step, 26 states of the controller being three of them.  A sector is the meant one because from the header to the last byte `found` is the place under
the head (`Meant`): the head moves in no state of that part.  The bound of the DMA needs the half-used
counters in it: `moved + (SectorCount - 1) * FDC_DMA_SECTOR_SIZE + Rest <= granted`, where `Rest` is
what is left of the current DMA sector, a multiple of the FIFO's size (`Granted`).  `DmaAssumption` says that
a sector is a whole number of FIFOs (512 and 16 in the code).
`HandlerBounded` gives each state of a command a number, `StepsLeft`, and shows that what runs at once after a state is lower
(`UpdateShrinks`), unless a header was looked at at once and the search goes on (`LateHeader`).  `LoopEndsCorrect`
(`Spec /\ Fairness /\ []Able /\ NoPulseDescent => LoopEnds`) adds the
fairness: while a call goes on the pulses of a disk that turns are set up or made up for, and the next state runs (`CallGoesOn`).  With the search counted as one state (`Level`),
a call goes down in the levels (`CallDescends`) or is a search.  A search that is `Settled`, with nothing to make up for or all pulses counted, looks
at no header a second time; before, each header takes a pulse (`SearchGoesOn`), and `PulsesLeft` is a natural number that only falls in a call; or the drive is disabled, and then it is `Astray`.  To the prover ENABLED is a formula it cannot look into, so that the next state *can* run is a hypothesis
of the theorem, `Able`, and an invariant of the run.
`WorkShrinksCorrect` measures what a command still has to do by three numbers: the sectors of a multiple command (`SectorsToDo`, halves:
a recognised header is one), the stages of the one in turn (`Stage`), and the pulses (`PulsesLeft`), tracks or bytes left of the stage
(`StageToDo`).  With a disk in the drive each state and each counted pulse lowers the first of them that it changes (`UpdateDrops`, 23
states one by one, and `PulseDrops`), but for the headers that pass by before the last pulse.  It takes that the motor is on past the
start, without which a track command would wait for a reference pulse that nobody sets up, and that a header looked at is one of
a sector of the disk, without which the sector register need not be (`Underway`).
`CommandsEndCorrect` (`Spec /\ Fairness /\ []Able /\ <>[][Machine]_vars /\ NoInfiniteDescent => CommandsEnd`) turns this into the end of the command
for a program that leaves the controller alone at last (`<>[][Machine]_vars`, which the limit of steps from outside gives in the run).  With
the law of descent for each of the three numbers, most significant first, every step from some time on only waits (`Proceeds`, `Waits`): no state
runs unless pulses are counted, and no pulse comes if they are.  But the reference pulse is set up and pulses that are due are made up for, so by fairness a state
runs if none are counted, and if they are a pulse comes, since every call ends (`LoopEndsCorrect`).

**Gemdos** (`GemdosProofs`): `GemdosTypeCorrect`, `SearchCorrect`, `HandlesCorrect`, `RedirectionsCorrect`.
A search has its entry for itself because of `Own`: while the cache is intact the entries behind `DTAIndex` were never used, so
the next in turn is nobody's, and each entry is known to at most the DTA whose address it holds.
For handles the invariant is `SoundNow`: the basepages of the chain differ (`Distinct`), each entry has its owner in the chain at
the depth that opened it (`Held`), each redirection leads to an entry that was opened by its maker or further up (`Aimed`,
which is what makes a program's end close redirections and files together), and with no drives mounted nothing is wanted (`Idle`).
A restore brings back an old state, so the snapshot must satisfy the same (`SoundSaved`): the invariant speaks of both.
`NoneAssumption` and `SearchAssumption` say that the values for "none" are not records, addresses or numbers.

**SessionRunner** (`SessionRunnerProofs`): `GuardedAlways`, `TypeCorrect`, `NoOrphanCorrect`
for concurrent runners too, `EvidenceKeptCorrect` and `CompletedCorrect` for runs that follow one another.  `Guarded` is type
correctness, `Armed` (which handlers are installed where in `main`) and `LiveWhileWaiting` (the
emulator lives only from `assign` to the end of `wait`).  That completed evidence is true takes two more:
`Accounted`, that an emulator was told to end only by a runner that noted a signal and that `rc` fits what it
exited with, and `Recorded`, what the active runner has written at each label, and that a complete session in a
directory with no active runner tells one run in order.
`AskedEndsCorrect` (`FairSpec /\ []Able => AskedEnds`) needs `Answered`: who was asked has told the emulator or found it gone, and is in the wait
or after it.  From there eight steps are left (`Steps`): nobody's step adds one (`AskedGoesOn`), the runner's and the
obeying emulator's take one away.  That they *can* be taken is the hypothesis `Able`, as with the FDC.

**AtariAnalysis** (`AtariAnalysisProofs`): `WindowExact`, `TypeCorrect`, `ProbeOnceCorrect`,
`ProbeExplainedCorrect`, `MediaEvidenceCorrect`, and `MemoryEvidenceCorrect` for windows that end at 3 or above.
`IInv` adds `ProbeState` (the flags agree with the history) and
`ReadRecorded` (while the probe is under way the last record is that of its read, if it could be written).
The evidence is a filter of the log, a recursive function: `KeptExists` and `KeptUnique` show that it has one
solution, by `SegmentInduction`, which states induction with a set in place of a predicate and follows
from the library's `WFMin`; `KeptAppend` says what one more record does to it, which is what the steps use.
`MediaInv` adds to `MediaEvidence` that the counter is the number of records and that an access whose record is still to come
is the last that happened and the one `at` describes; `MemoryInv` adds the counter of the memory records.

Only model-checked:

* `Able` of `FDC` and of `SessionRunner`, the hypotheses of `LoopEndsCorrect`, `CommandsEndCorrect` and `AskedEndsCorrect`: TLAPS has no backend for
  ENABLED here, so each is an invariant of its run.  `LoopAble` of `CycIntProofs` is the same for the loop, and is checked through `LoopTerminates`.
* The law of descent (`NoInfiniteDescent` of `CycIntProofs` and `FDCProofs`, `NoPulseDescent` of the latter): a truth about the natural numbers and not about the code, but
  an induction over time, which the provers cannot be given.  That the quantities are natural numbers (`LoopBounded`, `WorkBounded`)
  and which steps lower or raise them is proved.

## 13. Not modelled

* The instruction set, the picture, the sound, the DSP, decoders of image formats and archives: data without
  the kind of order these methods check, or generated and vendored code.  They are nearly all of the
  repository's lines, which is why the models cover a small share of them.
* ACIA and keyboard, hard disks, blitter, snapshots other than those of the GEMDOS drives: in the plan.
* Of the modelled parts: snapshots of CycInt, MFP, floppy and FDC; timers' counters and the GPIP's edge and direction registers of
  the MFP (their effect, an input on a channel, is there); a failing save of a disk image; the macOS front
  end's dialog, which resembles the other; several images in one archive; fields of records and sessions
  that no property tells apart; overlapping writes of two runners to one file.
* Of the FDC: STX, MFM and IPF images, densities, drives with one head, the fast mode, the DMA's address, the
  bits of the status that no state depends on (TR00, SPIN_UP, RECORD_TYPE), the number of cycles of a delay.
* Of the GEMDOS drives: path names, directories, attributes, errors of the host and the file that replaces
  `DESKTOP.INF` at the start (`inffile.c`).
* The converters of `src/tools/` and the CI's qualification scripts keep no state.

## 14. Plan

In this order, the most important behaviour first.

| Step | Module | Content | Properties and theorems |
|---|---|---|---|
| done | `CycInt`, `EventQueue`, `CycIntProofs` | section 3 | |
| done | `MFP`, `MFPProofs` | section 4 | |
| done | `Floppy`, `FloppyProofs` | section 5 | |
| done | `FdcDma`, `FDC`, `FDCProofs` | section 6 | |
| done | `GemdosFiles`, `GemdosSearch`, `Gemdos`, `GemdosProofs` | section 7 | |
| done | `SessionRunner`, `SessionRunnerProofs` | section 8 | |
| done | `AtariAnalysis`, `AtariAnalysisProofs` | section 9 | |
| 1 | `ACIA` | two ACIAs, transmission by events, overrun, the shared line; reset of the keyboard processor | a byte is delivered once or reported lost; the line is asserted while one of the ACIAs asks |
| 2 | `Snapshot` | order of components, truncated file, disks of `Floppy` | restored as saved, or noticed |
| 3 | `HDC`, `NCR5380` | phases of ACSI and SCSI | every command reaches its status phase |
| 4 | `Blitter`, `DmaSnd` | bus arbitration; end of frame interrupt that counts on timer A | bus given back; one input per frame |
| 5 | `SCC`, break points | interrupt priorities; conditions as operators against a reference | |

## 15. Running the checks

In this directory, with TLC and TLAPS 1.4.5: `tlc -config CycInt.cfg MC_CycInt`, and
likewise for each run of `PROJECT.json`; `tlapm CycIntProofs.tla` for each of the eight
modules of proofs.  Each run takes at most a few minutes on two cores.
