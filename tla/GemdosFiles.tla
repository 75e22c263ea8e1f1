---------------------------- MODULE GemdosFiles ----------------------------
(***************************************************************************)
(* The file handles of the GEMDOS drive emulation (gemdos.c): a table of   *)
(* host files that programs of the guest opened, the standard handles that *)
(* they redirected to such files, and what becomes of both when a program  *)
(* ends, the machine is reset, the drives are mounted anew or a snapshot   *)
(* is restored.                                                            *)
(*                                                                         *)
(* The guest's operating system keeps the chain of running programs; each  *)
(* program is known to the emulator only by the address of its basepage,   *)
(* which is used again when a program has ended.                           *)
(***************************************************************************)
EXTENDS Integers, Sequences

CONSTANTS
  Basepages,         \* addresses at which TOS places basepages
  Files,             \* files of the emulated drives
  None,
  OpenModes,         \* of "rb", "rb+": a write protected drive or file has "rb"
  BASE_FILEHANDLE,   \* number of the first emulated handle
  MAX_FILE_HANDLES,
  MAX_STD,           \* ARRAY_SIZE(ForcedHandles)
  MAX_PARENTS,       \* maxparents of GemDOS_BasepageMatches
  MaxDepth           \* bound: programs running at once

ASSUME FilesAssumption ==
  /\ None \notin Basepages /\ None \notin Files
  /\ OpenModes \subseteq {"rb", "rb+"}
  /\ BASE_FILEHANDLE \in Nat /\ MAX_FILE_HANDLES \in Nat /\ MAX_STD \in Nat
  /\ MAX_STD < BASE_FILEHANDLE
  /\ MAX_PARENTS \in Nat \ {0} /\ MaxDepth \in Nat \ {0}

VARIABLES
  mounted,        \* emudrives # NULL
  chain,          \* basepages of the programs that run, the current one last;
                  \* empty (act_pd = 0) from a reset to GemDOS_Boot
  FileHandles,
  ForcedHandles,
  host,           \* the files on the host
  saved,          \* the snapshot
  holds, aim      \* what happened, for the properties

fileVars == <<mounted, chain, FileHandles, ForcedHandles, host, saved, holds, aim>>

Slots == 0..(MAX_FILE_HANDLES - 1)
StdHandles == 0..(MAX_STD - 1)

(* Numbers a program may pass as a handle: a standard one, one of those it *)
(* got from the emulation, and one that is TOS's own, between them         *)
(* (MAX_STD stands for these, and for words that are no handle at all).    *)
Handles == StdHandles \union {BASE_FILEHANDLE + i : i \in Slots} \union {MAX_STD}

FILE_HANDLE ==
  [szMode : OpenModes \union {"wb+"}, Basepage : Basepages, szActualName : Files]

Redirection == [Handle : Slots, Basepage : Basepages]

(* History.  holds: for each entry of the table the file and the depth in  *)
(* the chain of the program that opened it, 0 if that was before a reset;  *)
(* aim: for each standard handle the file a program redirected it to, and  *)
(* its depth; None if it is not redirected; 0 as depth if the redirection  *)
(* is one that nobody wants any more.                                      *)
Hold == [file : Files, depth : 0..MaxDepth]

Table == [Slots -> FILE_HANDLE \union {None}]
Forced == [StdHandles -> Redirection \union {None}]
Chains == {c \in Seq(Basepages) : Len(c) <= MaxDepth}

Snapshot ==
  [mounted : BOOLEAN, chain : Chains, FileHandles : Table, ForcedHandles : Forced,
   holds : [Slots -> Hold \union {None}], aim : [StdHandles -> Hold \union {None}]]

ASSUME NoneAssumption ==
  None \notin FILE_HANDLE \union Redirection \union Hold \union Snapshot

FilesTypeOK ==
  /\ mounted \in BOOLEAN
  /\ chain \in Chains
  /\ FileHandles \in Table
  /\ ForcedHandles \in Forced
  /\ host \in [Files -> {"gone", "empty", "written"}]
  /\ saved \in Snapshot \union {None}
  /\ holds \in [Slots -> Hold \union {None}]
  /\ aim \in [StdHandles -> Hold \union {None}]

-----------------------------------------------------------------------------
(* The tables. *)

NoHandles == [i \in Slots |-> None]
Unforced == [s \in StdHandles |-> None]

Current == chain[Len(chain)]          \* STMemory_ReadLong(act_pd)
Running == mounted /\ chain # <<>>

BasepageMatches(b) ==
  \E k \in 0..(MAX_PARENTS - 1) : k < Len(chain) /\ chain[Len(chain) - k] = b

(* The lowest free entry of the table. *)
IsFreeFileHandle(i) ==
  FileHandles[i] = None /\ \A j \in 0..(i - 1) : FileHandles[j] # None

Redirected(h) == h \in StdHandles /\ ForcedHandles[h] # None
Stale(h) == Redirected(h) /\ ~ BasepageMatches(ForcedHandles[h].Basepage)

(* GemDOS_GetValidFileHandle: the entry that a handle leads to, if it      *)
(* leads to one; and the redirection that the look at the handle removes.  *)
Slot(h) == IF Redirected(h) THEN ForcedHandles[h].Handle ELSE h - BASE_FILEHANDLE
Valid(h) == ~ Stale(h) /\ Slot(h) \in Slots /\ FileHandles[Slot(h)] # None
WithoutStale(h) == IF Stale(h) THEN [ForcedHandles EXCEPT ![h] = None] ELSE ForcedHandles

(* The entries and redirections without some of them. *)
CloseFileHandles(I) == [i \in Slots |-> IF i \in I THEN None ELSE FileHandles[i]]
Unforce(S) == [s \in StdHandles |-> IF s \in S THEN None ELSE ForcedHandles[s]]

Forget(h, X) == [x \in DOMAIN h |-> IF x \in X THEN None ELSE h[x]]
Unwanted(h, X) ==
  [x \in DOMAIN h |-> IF h[x] # None /\ x \in X THEN [h[x] EXCEPT !.depth = 0] ELSE h[x]]

(* A redirection that is found stale because its maker is further up in    *)
(* the chain than GemDOS_BasepageMatches goes is given up with a warning.  *)
TooDeep(s) == aim[s] # None /\ aim[s].depth > 0 /\ aim[s].depth <= Len(chain) - MAX_PARENTS
AimAfterLook(h) == IF h \in StdHandles /\ Stale(h) /\ TooDeep(h)
                     THEN [aim EXCEPT ![h] = None] ELSE aim

-----------------------------------------------------------------------------
(* The calls of programs. *)

Tag(i, f, mode) ==
  /\ FileHandles' = [FileHandles EXCEPT ![i] =
       [szMode |-> mode, Basepage |-> Current, szActualName |-> f]]
  /\ holds' = [holds EXCEPT ![i] = [file |-> f, depth |-> Len(chain)]]

(* Fcreate: truncates a file that exists. *)
GemDOS_Create(f) ==
  /\ Running
  /\ \E i \in Slots : IsFreeFileHandle(i) /\ Tag(i, f, "wb+")
  /\ host' = [host EXCEPT ![f] = "empty"]
  /\ UNCHANGED <<mounted, chain, ForcedHandles, saved, aim>>

(* Fopen of a file that exists. *)
GemDOS_Open(f) ==
  /\ Running /\ host[f] # "gone"
  /\ \E i \in Slots, mode \in OpenModes : IsFreeFileHandle(i) /\ Tag(i, f, mode)
  /\ UNCHANGED <<mounted, chain, ForcedHandles, host, saved, aim>>

(* A bug: the standard handles stay redirected to the closed entry. *)
UnforceClosed_Keeps(i) == ForcedHandles

LeadingTo(i) == {s \in StdHandles : ForcedHandles[s] # None /\ ForcedHandles[s].Handle = i}

UnforceClosed(i) == Unforce(LeadingTo(i))

(* Fclose of a handle of ours. *)
GemDOS_Close(h) ==
  /\ Running /\ Valid(h)
  /\ FileHandles' = [FileHandles EXCEPT ![Slot(h)] = None]
  /\ ForcedHandles' = UnforceClosed(Slot(h))
  /\ holds' = [holds EXCEPT ![Slot(h)] = None]
  /\ aim' = Forget(aim, LeadingTo(Slot(h)))
  /\ UNCHANGED <<mounted, chain, host, saved>>

(* Fclose, Fread, Fwrite, Fseek and Fdatime go to TOS with a handle that   *)
(* is none of ours; the look at it removes a stale redirection.            *)
GemDOS_Look(h) ==
  /\ Running /\ Stale(h)
  /\ ForcedHandles' = WithoutStale(h) /\ aim' = AimAfterLook(h)
  /\ UNCHANGED <<mounted, chain, FileHandles, host, saved, holds>>

(* Fwrite. *)
GemDOS_Write(h) ==
  /\ Running /\ Valid(h)
  /\ LET f == FileHandles[Slot(h)].szActualName IN
       /\ FileHandles[Slot(h)].szMode # "rb" /\ host[f] # "gone"
       /\ host' = [host EXCEPT ![f] = "written"]
  /\ UNCHANGED <<mounted, chain, FileHandles, ForcedHandles, saved, holds, aim>>

Redirect(own) == [Handle |-> Slot(own), Basepage |-> Current]

(* Fforce: the smaller of the two handles is the standard one.  TOS does   *)
(* the rest if the other is none of ours; a redirection to one of ours     *)
(* stays then, and is no longer what the program wants (aim).              *)
GemDOS_Force(a, b) ==
  LET std == IF a > b THEN b ELSE a
      own == IF a > b THEN a ELSE b
      After == WithoutStale(own)
  IN
  /\ Running
  /\ IF Valid(own) /\ std \in StdHandles
       THEN /\ ForcedHandles' = [After EXCEPT ![std] = Redirect(own)]
            /\ aim' = [aim EXCEPT ![std] =
                 [file |-> FileHandles[Slot(own)].szActualName,
                  depth |-> IF holds[Slot(own)].depth = 0 THEN 0 ELSE Len(chain)]]
       ELSE /\ ForcedHandles' = After
            /\ aim' = Unwanted(aim, {a, b})
  /\ UNCHANGED <<mounted, chain, FileHandles, host, saved, holds>>

(* Fdelete, or the host.  Who has the file open keeps it; if a file of     *)
(* that name is made again, his writes may be taken for writes to it here. *)
GemDOS_FDelete(f) ==
  /\ host[f] # "gone"
  /\ host' = [host EXCEPT ![f] = "gone"]
  /\ UNCHANGED <<mounted, chain, FileHandles, ForcedHandles, saved, holds, aim>>

-----------------------------------------------------------------------------
(* Programs start and end.  TOS makes the basepage; the memory of a        *)
(* program that ended is used again (that of a resident one is not, which  *)
(* leaves fewer of the steps below).                                       *)

Pexec(b) ==
  /\ chain # <<>> /\ Len(chain) < MaxDepth
  /\ \A k \in 1..Len(chain) : chain[k] # b
  /\ chain' = Append(chain, b)
  /\ UNCHANGED <<mounted, FileHandles, ForcedHandles, host, saved, holds, aim>>

(* A bug: the files of the program's parents are closed too. *)
OpenedBy_Family(i) == FileHandles[i] # None /\ BasepageMatches(FileHandles[i].Basepage)

OpenedBy(i) == FileHandles[i] # None /\ FileHandles[i].Basepage = Current

GemDOS_TerminateClose ==
  /\ FileHandles' = CloseFileHandles({i \in Slots : OpenedBy(i)})
  /\ ForcedHandles' = Unforce({s \in StdHandles :
       ForcedHandles[s] # None /\ ForcedHandles[s].Basepage = Current})

(* Pterm0, Pterm and Ptermres; without a drive they are not intercepted.   *)
GemDOS_Pterm ==
  /\ Len(chain) > 1
  /\ IF mounted THEN GemDOS_TerminateClose ELSE UNCHANGED <<FileHandles, ForcedHandles>>
  /\ chain' = SubSeq(chain, 1, Len(chain) - 1)
  /\ holds' = Forget(holds, {i \in Slots : holds[i] # None /\ holds[i].depth = Len(chain)})
  /\ aim' = Forget(aim, {s \in StdHandles : aim[s] # None /\ aim[s].depth = Len(chain)})
  /\ UNCHANGED <<mounted, host, saved>>

-----------------------------------------------------------------------------
(* The machine. *)

ProgramsGone ==
  /\ holds' = Unwanted(holds, Slots)
  /\ aim' = Unwanted(aim, StdHandles)

(* Every reset of the machine: the programs are gone, the tables are not. *)
GemDOS_Reset ==
  /\ chain' = <<>>
  /\ ProgramsGone
  /\ UNCHANGED <<mounted, FileHandles, ForcedHandles, host, saved>>

GemDOS_Boot ==
  /\ chain = <<>>
  /\ \E b \in Basepages : chain' = <<b>>
  /\ UNCHANGED <<mounted, FileHandles, ForcedHandles, host, saved, holds, aim>>

GemDOS_ClearAllFileHandles == FileHandles' = NoHandles /\ ForcedHandles' = Unforced

(* The dialog unmounts the drives and mounts others; it resets the machine. *)
GemDOS_InitDrives ==
  /\ ~ mounted /\ chain = <<>>
  /\ mounted' = TRUE
  /\ GemDOS_ClearAllFileHandles
  /\ holds' = NoHandles /\ aim' = Unforced
  /\ UNCHANGED <<chain, host, saved>>

GemDOS_UnInitDrives ==
  /\ mounted' = FALSE
  /\ chain' = <<>>
  /\ ProgramsGone
  /\ UNCHANGED <<FileHandles, ForcedHandles, host, saved>>

Save ==
  /\ saved' = [mounted |-> mounted, chain |-> chain, FileHandles |-> FileHandles,
               ForcedHandles |-> ForcedHandles, holds |-> holds, aim |-> aim]
  /\ UNCHANGED <<mounted, chain, FileHandles, ForcedHandles, host, holds, aim>>

(* The user does not need the snapshot any more. *)
Discard ==
  /\ saved # None /\ saved' = None
  /\ UNCHANGED <<mounted, chain, FileHandles, ForcedHandles, host, holds, aim>>

(* restore_file_handle_info for one handle: the file is opened again by    *)
(* its name, in the mode it was opened with.                               *)
Lost(r) == r # None /\ host[r.szActualName] = "gone"

restore_file_handle_info(r) ==
  IF Lost(r) THEN None ELSE r

Reopened(f) == \E i \in Slots :
  /\ saved.FileHandles[i] # None /\ ~ Lost(saved.FileHandles[i])
  /\ saved.FileHandles[i].szActualName = f /\ saved.FileHandles[i].szMode = "wb+"

Restore ==
  /\ saved # None
  /\ mounted' = (mounted \/ saved.mounted)
  /\ chain' = saved.chain
  /\ ForcedHandles' = saved.ForcedHandles
  /\ FileHandles' = [i \in Slots |-> restore_file_handle_info(saved.FileHandles[i])]
  /\ host' = [f \in Files |-> IF Reopened(f) THEN "empty" ELSE host[f]]
  /\ holds' = [i \in Slots |-> IF Lost(saved.FileHandles[i]) THEN None ELSE saved.holds[i]]
  /\ aim' = Unwanted(saved.aim, {s \in StdHandles :
       /\ saved.ForcedHandles[s] # None
       /\ Lost(saved.FileHandles[saved.ForcedHandles[s].Handle])})
  /\ UNCHANGED saved

-----------------------------------------------------------------------------
Program ==
  \/ \E f \in Files : GemDOS_Create(f) \/ GemDOS_Open(f) \/ GemDOS_FDelete(f)
  \/ \E h \in Handles : GemDOS_Close(h) \/ GemDOS_Look(h) \/ GemDOS_Write(h)
  \/ \E a, b \in Handles : GemDOS_Force(a, b)
  \/ \E b \in Basepages : Pexec(b)
  \/ GemDOS_Pterm

Machine ==
  \/ GemDOS_Reset \/ GemDOS_Boot
  \/ GemDOS_InitDrives \/ GemDOS_UnInitDrives
  \/ Save \/ Restore \/ Discard

FilesInit ==
  /\ mounted = TRUE /\ chain = <<>>
  /\ FileHandles = NoHandles /\ ForcedHandles = Unforced
  /\ host \in [Files -> {"gone", "written"}]
  /\ saved = None
  /\ holds = NoHandles /\ aim = Unforced

-----------------------------------------------------------------------------
(* What a program of this session opened and did not close, and which did  *)
(* not get lost when a snapshot was restored, is open under its number for *)
(* that program: no other program's end, no restore and no call that       *)
(* opened a file took it away.                                             *)
Leads(i) ==
  /\ FileHandles[i] # None
  /\ FileHandles[i].szActualName = holds[i].file
  /\ holds[i].depth <= Len(chain)
  /\ FileHandles[i].Basepage = chain[holds[i].depth]

(* The other way round, whatever is open was opened by a program that      *)
(* still runs, or before a reset: no program leaves a handle behind when   *)
(* it ends, so the table does not fill up in a session.                    *)
HandlesLead == \A i \in Slots :
  /\ holds[i] # None /\ holds[i].depth > 0 => Leads(i)
  /\ FileHandles[i] # None => holds[i] # None

(* A redirected standard handle leads to the file it was redirected to for *)
(* as long as the program that did it runs and nobody closes the file, and *)
(* then no more to any file: one that is opened later does not get under   *)
(* it.  Except for redirections that outlive a reset, whose file is lost   *)
(* at a restore, or that TOS is to take back.                              *)
StdLeads ==
  \A s \in StdHandles :
    LET r == ForcedHandles[s] IN
    /\ aim[s] = None => ~ (Redirected(s) /\ Valid(s))
    /\ aim[s] # None /\ aim[s].depth > 0 =>
         /\ r # None
         /\ aim[s].depth <= Len(chain) /\ r.Basepage = chain[aim[s].depth]
         /\ FileHandles[r.Handle] # None
         /\ FileHandles[r.Handle].szActualName = aim[s].file

(* Restoring a snapshot opens the files again that were open and goes to   *)
(* the saved positions: it leaves their contents alone.                    *)
RestoreKeeps == [][Restore => host' = host]_fileVars
=============================================================================
