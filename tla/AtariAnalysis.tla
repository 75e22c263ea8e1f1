---------------------------- MODULE AtariAnalysis ----------------------------
(***************************************************************************)
(* The analysis hooks of the emulator (atarisandbox_analysis.c,            *)
(* cpu/atarisandbox_memory.c): memory writes, exceptions and sector        *)
(* accesses of the guest are recorded in core-events.jsonl, each kind as   *)
(* the environment asks for it, and a probe changes the boot sector of     *)
(* drive A once.                                                           *)
(***************************************************************************)
EXTENDS Integers, Sequences

CONSTANTS
  Sectors,    \* sectors of a disk that are accessed, by track, side and number
  Boot,       \* track 0, side 0, sector 1
  Accesses,   \* address and size of the guest's memory writes
  Modulus,    \* UINT32_MAX + 1
  Settings,   \* values of the ATARISANDBOX_ environment variables
  MaxOps      \* bound: what the guest does in a session

Drives == {0, 1}

Setting ==
  [start : 0..(Modulus - 1), end : 0..(Modulus - 1),
   memoryLimit : Nat, mediaLimit : Nat,
   controlled : BOOLEAN,   \* ATARISANDBOX_M4_3_CONTROLLED_WRITE
   opens : BOOLEAN]        \* can core-events.jsonl be opened?

ASSUME HooksAssumption ==
  /\ Boot \in Sectors
  /\ Modulus \in Nat \ {0}
  /\ Accesses \subseteq [address : 0..(Modulus - 1), size : {1, 2, 4}]
  /\ Settings \subseteq Setting
  /\ MaxOps \in Nat

VARIABLES
  env,
  log,          \* core-events.jsonl
  memoryCount,  \* MemoryWriteCount
  mediaCount,   \* MediaIOCount
  done,         \* ControlledWriteDone
  active,       \* ControlledWriteActive
  at,           \* the wrapper that runs, and what it was called for
  disk,         \* the disk of each drive: may it be written?
  happened,     \* history: sector accesses that were made, by whom
  puts          \* history: the guest's memory writes

hooks == <<log, memoryCount, mediaCount, done, active>>
vars == <<env, log, memoryCount, mediaCount, done, active, at, disk, happened, puts>>

Steps == {"read", "probe", "probing", "probed", "written"}
Guest == [step |-> "guest"]
Wrapper(step, d, s) == [step |-> step, drive |-> d, sector |-> s]

Media(op, d, s, controlled) ==
  [type |-> op, drive |-> d, sector |-> s,
   boot |-> op = "write" /\ s = Boot, controlled |-> controlled]

MediaRecord ==
  [type : {"read", "write"}, drive : Drives, sector : Sectors,
   boot : BOOLEAN, controlled : BOOLEAN]

MemoryRecord == [type : {"memory"}, put : Accesses]

Exception == [type |-> "exception"]

-----------------------------------------------------------------------------
(* What is recorded. *)

MediaWanted == env.opens /\ mediaCount < env.mediaLimit

RecordFloppyIO(op) ==
  IF MediaWanted
    THEN /\ log' = Append(log, Media(op, at.drive, at.sector, active))
         /\ mediaCount' = mediaCount + 1
    ELSE UNCHANGED <<log, mediaCount>>

(* A bug: only the first byte of an access is compared with the end. *)
Watched_FirstByte(p) == p.address >= env.start /\ p.address <= env.end

(* WatchEnd - (size - 1), in 32 bits. *)
Watched(p) ==
  /\ p.address >= env.start
  /\ p.address <= env.end
  /\ p.size > 1 => p.address <= (env.end - (p.size - 1)) % Modulus

GuestRuns == at = Guest /\ Len(puts) + Len(happened) < MaxOps

RecordMemoryWrite(p) ==
  /\ GuestRuns
  /\ puts' = Append(puts, p)
  /\ IF env.opens /\ memoryCount < env.memoryLimit /\ Watched(p)
       THEN /\ log' = Append(log, [type |-> "memory", put |-> p])
            /\ memoryCount' = memoryCount + 1
       ELSE UNCHANGED <<log, memoryCount>>
  /\ UNCHANGED <<env, mediaCount, done, active, at, disk, happened>>

(* Exceptions are recorded without a limit, the model's bound aside. *)
RecordException ==
  /\ GuestRuns
  /\ Len(log) < MaxOps
  /\ env.opens
  /\ log' = Append(log, Exception)
  /\ UNCHANGED <<env, memoryCount, mediaCount, done, active, at, disk, happened, puts>>

-----------------------------------------------------------------------------
(* The wrappers of Floppy_ReadSectors and Floppy_WriteSectors. *)

Access(op, d, s, by) ==
  happened' = Append(happened, [op |-> op, drive |-> d, sector |-> s, by |-> by])

(* The floppy controller reads a sector. *)
ReadSectors(d, s) ==
  /\ GuestRuns
  /\ disk[d] # "none"
  /\ Access("read", d, s, "guest")
  /\ at' = Wrapper("read", d, s)
  /\ UNCHANGED <<env, hooks, disk, puts>>

RecordRead ==
  /\ at.step = "read"
  /\ RecordFloppyIO("read")
  /\ at' = [at EXCEPT !.step = "probe"]
  /\ UNCHANGED <<env, memoryCount, done, active, disk, happened, puts>>

(* A bug: any sector of drive A will do. *)
ProbeWanted_AnySector == ~done /\ ~active /\ env.controlled /\ at.drive = 0

ProbeWanted ==
  ~done /\ ~active /\ env.controlled /\ at.drive = 0 /\ at.sector = Boot

StartProbe ==
  /\ at.step = "probe"
  /\ ProbeWanted
  /\ active' = TRUE
  /\ at' = [at EXCEPT !.step = "probing"]
  /\ UNCHANGED <<env, log, memoryCount, mediaCount, done, disk, happened, puts>>

NoProbe ==
  /\ at.step = "probe"
  /\ ~ProbeWanted
  /\ at' = Guest
  /\ UNCHANGED <<env, hooks, disk, happened, puts>>

(* A bug: the probe is done when it is recorded. *)
ProbeWritten_WhenRecorded ==
  /\ at.step = "probing"
  /\ disk[at.drive] = "writable"
  /\ Access("write", at.drive, Boot, "probe")
  /\ done' = MediaWanted
  /\ at' = [at EXCEPT !.step = "probed"]
  /\ UNCHANGED <<env, log, memoryCount, mediaCount, active, disk, puts>>

ProbeWritten ==
  /\ at.step = "probing"
  /\ disk[at.drive] = "writable"
  /\ Access("write", at.drive, Boot, "probe")
  /\ done' = TRUE
  /\ at' = [at EXCEPT !.step = "probed"]
  /\ UNCHANGED <<env, log, memoryCount, mediaCount, active, disk, puts>>

(* The disk is write protected: the next read of the sector tries again. *)
ProbeFails ==
  /\ at.step = "probing"
  /\ disk[at.drive] # "writable"
  /\ active' = FALSE
  /\ at' = Guest
  /\ UNCHANGED <<env, log, memoryCount, mediaCount, done, disk, happened, puts>>

(* A bug: what follows is taken for the probe too. *)
RecordProbe_StaysActive ==
  /\ at.step = "probed"
  /\ RecordFloppyIO("write")
  /\ at' = Guest
  /\ UNCHANGED <<env, memoryCount, done, active, disk, happened, puts>>

RecordProbe ==
  /\ at.step = "probed"
  /\ RecordFloppyIO("write")
  /\ active' = FALSE
  /\ at' = Guest
  /\ UNCHANGED <<env, memoryCount, done, disk, happened, puts>>

(* The floppy controller writes a sector. *)
WriteSectors(d, s) ==
  /\ GuestRuns
  /\ disk[d] = "writable"
  /\ Access("write", d, s, "guest")
  /\ at' = Wrapper("written", d, s)
  /\ UNCHANGED <<env, hooks, disk, puts>>

RecordWrite ==
  /\ at.step = "written"
  /\ RecordFloppyIO("write")
  /\ at' = Guest
  /\ UNCHANGED <<env, memoryCount, done, active, disk, happened, puts>>

(* A disk is inserted, ejected or protected. *)
ChangeDisk(d, state) ==
  /\ at = Guest
  /\ disk' = [disk EXCEPT ![d] = state]
  /\ UNCHANGED <<env, hooks, at, happened, puts>>

DiskStates == {"none", "protected", "writable"}

Init ==
  /\ env \in Settings
  /\ log = <<>>
  /\ memoryCount = 0
  /\ mediaCount = 0
  /\ done = FALSE
  /\ active = FALSE
  /\ at = Guest
  /\ disk \in [Drives -> DiskStates]
  /\ happened = <<>>
  /\ puts = <<>>

Next ==
  \/ \E p \in Accesses : RecordMemoryWrite(p)
  \/ RecordException
  \/ \E d \in Drives, s \in Sectors : ReadSectors(d, s) \/ WriteSectors(d, s)
  \/ RecordRead
  \/ StartProbe
  \/ NoProbe
  \/ ProbeWritten
  \/ ProbeFails
  \/ RecordProbe
  \/ RecordWrite
  \/ \E d \in Drives, state \in DiskStates : ChangeDisk(d, state)

Spec == Init /\ [][Next]_vars

-----------------------------------------------------------------------------
(* Properties. *)

TypeOK ==
  /\ env \in Settings
  /\ log \in Seq(MediaRecord \union MemoryRecord \union {Exception})
  /\ memoryCount \in 0..env.memoryLimit
  /\ mediaCount \in 0..env.mediaLimit
  /\ done \in BOOLEAN
  /\ active \in BOOLEAN
  /\ at \in {Guest} \union [step : Steps, drive : Drives, sector : Sectors]
  /\ disk \in [Drives -> DiskStates]
  /\ happened \in Seq([op : {"read", "write"}, drive : Drives, sector : Sectors,
                       by : {"guest", "probe"}])
  /\ puts \in Seq(Accesses)

(* The elements of a sequence that lie in T, in their order. *)
Kept(seq, T) ==
  LET kept[n \in 0..Len(seq)] ==
        IF n = 0 THEN <<>>
        ELSE IF seq[n] \in T THEN Append(kept[n - 1], seq[n])
        ELSE kept[n - 1]
  IN kept[Len(seq)]

MediaLog == Kept(log, MediaRecord)

MemoryLog == Kept(log, MemoryRecord)

Told(h) == Media(h.op, h.drive, h.sector, h.by = "probe")

UpTo(limit, seq) == SubSeq(seq, 1, IF limit < Len(seq) THEN limit ELSE Len(seq))

(* The media records are the sector accesses that were made, from the      *)
(* first to the limit, in their order, the probe's told apart from the     *)
(* guest's; wherever the emulator is killed, at most the last is missing.  *)
MediaEvidence ==
  LET facts == [i \in DOMAIN happened |-> Told(happened[i])]
      recorded == IF at.step \in {"read", "probed", "written"} THEN SubSeq(facts, 1, Len(facts) - 1) ELSE facts
  IN MediaLog = UpTo(IF env.opens THEN env.mediaLimit ELSE 0, recorded)

(* Does all of the access lie in the window? *)
Inside(p) == env.start <= p.address /\ p.address + p.size - 1 <= env.end

(* The memory records are the guest's writes that lie in the window, from  *)
(* the first to the limit.                                                 *)
MemoryEvidence ==
  [i \in DOMAIN MemoryLog |-> MemoryLog[i].put]
    = UpTo(IF env.opens THEN env.memoryLimit ELSE 0, Kept(puts, {p \in Accesses : Inside(p)}))

(* "The write is one-shot so repeated boot-sector reads cannot XOR the     *)
(* probe byte back" (atarisandbox_analysis.c:251), also when it failed     *)
(* before, or could not be recorded.                                       *)
ProbeOnce ==
  \A i, j \in DOMAIN happened :
    happened[i].by = "probe" /\ happened[j].by = "probe" => i = j

OfProbe(r) == r.type = "write" /\ r.controlled

(* The evidence explains the probe: the record of its write comes directly *)
(* after that of the read of drive A's boot sector that set it off.        *)
ProbeExplained ==
  \A i \in DOMAIN log :
    OfProbe(log[i]) => i > 1 /\ log[i - 1] = Media("read", 0, Boot, FALSE)
=============================================================================
