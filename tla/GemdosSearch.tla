---------------------------- MODULE GemdosSearch ----------------------------
(***************************************************************************)
(* Fsfirst and Fsnext of the GEMDOS drive emulation (gemdos.c).  A search  *)
(* lives in a buffer of the program, the DTA, in which the emulation       *)
(* writes a magic number and an index into its own cache of searches,      *)
(* InternalDTAs.  The memory of the guest is used for other things later;  *)
(* the entries of the cache are never given back, only used again.         *)
(***************************************************************************)
EXTENDS Integers

CONSTANTS
  DTAs,                  \* addresses of the buffers that programs use
  Nil,
  DTA_CACHE_MIN_INC, DTA_CACHE_MAX_INC, DTA_CACHE_MAX_SIZE,
  MaxEntries             \* bound: matches of one search

ASSUME SearchAssumption ==
  /\ Nil \notin DTAs \union Nat
  /\ DTA_CACHE_MIN_INC \in Nat \ {0} /\ DTA_CACHE_MAX_INC \in Nat \ {0}
  /\ DTA_CACHE_MAX_SIZE \in Nat /\ DTA_CACHE_MIN_INC <= DTA_CACHE_MAX_SIZE
  /\ MaxEntries \in Nat \ {0}

VARIABLES
  dta,            \* the index in a buffer with the magic number; Nil without
  DTACount,
  InternalDTAs,
  DTAIndex,
  savedDTA,       \* the buffers in the snapshot
  asked, intact   \* what happened, for the properties

searchVars == <<dta, DTACount, InternalDTAs, DTAIndex, savedDTA, asked, intact>>

(* found # NULL is nentries > 0; IS_VOLUME_LABEL(dta_attrib) is label. *)
INTERNAL_DTA ==
  [bUsed : BOOLEAN, addr : DTAs \union {Nil}, label : BOOLEAN,
   nentries : 0..MaxEntries, centry : 0..MaxEntries]

(* History.  For each buffer what its last Fsfirst was, and for a search   *)
(* with matches how many there are and how many were passed.  intact:      *)
(* since the drives were mounted the cache was not started over, by too    *)
(* many searches or by a snapshot.                                         *)
Question ==
  [is : {"none", "label", "failed", "search"}, of : 0..MaxEntries, at : 0..MaxEntries]
Asked(what) == [is |-> what, of |-> 0, at |-> 0]

Buffers == [DTAs -> Nat \union {Nil}]

SearchTypeOK ==
  /\ dta \in Buffers
  /\ DTACount \in Nat
  /\ InternalDTAs \in [0..(DTACount - 1) -> INTERNAL_DTA]
  /\ DTAIndex \in Nat /\ (DTACount > 0 => DTAIndex < DTACount)
  /\ savedDTA \in Buffers \union {Nil}
  /\ asked \in [DTAs -> Question]
  /\ intact \in BOOLEAN

-----------------------------------------------------------------------------
(* The cache. *)

Zero == [bUsed |-> FALSE, addr |-> Nil, label |-> FALSE, nentries |-> 0, centry |-> 0]

(* The matches are freed; the address and the place stay. *)
ClearInternalDTA(entry) ==
  [bUsed |-> FALSE, addr |-> entry.addr, label |-> entry.label,
   nentries |-> 0, centry |-> entry.centry]

ForgetSearches == asked' = [a \in DTAs |-> Asked("none")]
Searching(a) == asked[a].is = "search"

(* Is the entry whose index is in buffer a of the same buffer?             *)
Owned(a) == dta[a] # Nil /\ dta[a] < DTACount /\ InternalDTAs[dta[a]].addr = a

(* A bug: whatever index is in the buffer is taken. *)
UseIdx_Unchecked(a) == IF dta[a] # Nil /\ dta[a] < DTACount THEN dta[a] ELSE DTAIndex

(* The entry for the next search in buffer a: the one of its earlier       *)
(* search if that is still its own, or else the next in turn.              *)
UseIdx(a) == IF Owned(a) THEN dta[a] ELSE DTAIndex

Take(a, isLabel, n, at) ==
  [InternalDTAs EXCEPT ![UseIdx(a)] =
     [bUsed |-> TRUE, addr |-> a, label |-> isLabel, nentries |-> n, centry |-> at]]

(* A bug: the index may reach the size of the cache. *)
AtEnd_Late(i) == i = DTAIndex /\ DTAIndex + 1 > DTACount

(* The search in entry i is a new one, and no entry is left after it. *)
AtEnd(i) == i = DTAIndex /\ DTAIndex + 1 >= DTACount

CacheInc == IF DTACount > DTA_CACHE_MAX_INC THEN DTA_CACHE_MAX_INC ELSE DTACount

-----------------------------------------------------------------------------
(* Fsfirst in buffer a: for the volume label; without a match (or without  *)
(* the directory, where the place of an earlier search is left); with n    *)
(* matches, of which those up to the at-th were passed over because they   *)
(* vanished or have other attributes.                                      *)

SFirst_Label(a) ==
  /\ DTACount > 0
  /\ dta' = [dta EXCEPT ![a] = UseIdx(a)]
  /\ InternalDTAs' = Take(a, TRUE, 0, InternalDTAs[UseIdx(a)].centry)
  /\ asked' = [asked EXCEPT ![a] = Asked("label")]
  /\ UNCHANGED <<DTACount, DTAIndex, savedDTA, intact>>

SFirst_Nothing(a) ==
  /\ DTACount > 0
  /\ dta' = [dta EXCEPT ![a] = UseIdx(a)]
  /\ \E at \in {0, InternalDTAs[UseIdx(a)].centry} : InternalDTAs' = Take(a, FALSE, 0, at)
  /\ asked' = [asked EXCEPT ![a] = Asked("failed")]
  /\ UNCHANGED <<DTACount, DTAIndex, savedDTA, intact>>

(* After a new search the index moves on; at the end the cache grows, or   *)
(* the index starts over if it may not grow or there is no memory.         *)
SFirst_Found(a, n, at) ==
  LET cache == Take(a, FALSE, n, at)
      i == UseIdx(a)
  IN
  /\ DTACount > 0
  /\ dta' = [dta EXCEPT ![a] = i]
  /\ asked' = [asked EXCEPT ![a] = [is |-> "search", of |-> n, at |-> at]]
  /\ \/ /\ ~ AtEnd(i)
        /\ DTAIndex' = IF i = DTAIndex THEN DTAIndex + 1 ELSE DTAIndex
        /\ InternalDTAs' = cache
        /\ UNCHANGED <<DTACount, intact>>
     \/ /\ AtEnd(i) /\ DTACount < DTA_CACHE_MAX_SIZE
        /\ DTAIndex' = DTAIndex + 1
        /\ DTACount' = DTACount + CacheInc
        /\ InternalDTAs' = [j \in 0..(DTACount' - 1) |->
                              IF j < DTACount THEN cache[j] ELSE Zero]
        /\ UNCHANGED intact
     \/ /\ AtEnd(i)               \* the cache is full, or realloc fails
        /\ DTAIndex' = 0
        /\ InternalDTAs' = cache
        /\ intact' = FALSE
        /\ UNCHANGED DTACount
  /\ UNCHANGED savedDTA

(* Fsnext in buffer a, for a search that found something; it returns "no   *)
(* more files" where it has no step.                                       *)
GemDOS_SNext(a) ==
  /\ Searching(a)
  /\ dta[a] # Nil /\ dta[a] < DTACount
  /\ LET e == InternalDTAs[dta[a]] IN
       /\ e.bUsed /\ ~ e.label
       /\ \E at \in (e.centry + 1)..e.nentries :
            /\ InternalDTAs' = [InternalDTAs EXCEPT ![dta[a]].centry = at]
            /\ asked' = [asked EXCEPT ![a].at = at]
  /\ UNCHANGED <<dta, DTACount, DTAIndex, savedDTA, intact>>

(* The program uses the memory of a buffer for something else. *)
Overwrite(a) ==
  /\ dta[a] # Nil
  /\ dta' = [dta EXCEPT ![a] = Nil]
  /\ asked' = [asked EXCEPT ![a] = Asked("none")]
  /\ UNCHANGED <<DTACount, InternalDTAs, DTAIndex, savedDTA, intact>>

-----------------------------------------------------------------------------
(* The machine. *)

Allocated == IF DTACount = 0 THEN DTA_CACHE_MIN_INC ELSE DTACount

(* The addresses stay in the entries of a cache that is there already. *)
GemDOS_ClearAllInternalDTAs ==
  /\ DTACount' = Allocated
  /\ InternalDTAs' = [i \in 0..(DTACount' - 1) |->
       IF DTACount = 0 THEN Zero ELSE ClearInternalDTA(InternalDTAs[i])]
  /\ DTAIndex' = 0
  /\ ForgetSearches

(* Drives are mounted. *)
InitSearches ==
  /\ GemDOS_ClearAllInternalDTAs
  /\ intact' = (\A i \in 0..(DTACount - 1) : InternalDTAs[i].addr = Nil)
  /\ UNCHANGED <<dta, savedDTA>>

(* GemDOS_FreeAllInternalDTAs. *)
FreeSearches ==
  /\ DTACount' = 0 /\ InternalDTAs' = << >> /\ DTAIndex' = 0
  /\ ForgetSearches
  /\ UNCHANGED <<dta, savedDTA, intact>>

(* A reset: memory is cleared by a cold one. *)
ResetSearches ==
  /\ dta' = dta \/ dta' = [a \in DTAs |-> Nil]
  /\ ForgetSearches
  /\ UNCHANGED <<DTACount, InternalDTAs, DTAIndex, savedDTA, intact>>

SaveSearches ==
  /\ savedDTA' = dta
  /\ UNCHANGED <<dta, DTACount, InternalDTAs, DTAIndex, asked, intact>>

(* The buffers are those of the snapshot, the searches are cleared. *)
RestoreSearches ==
  /\ savedDTA # Nil
  /\ dta' = savedDTA
  /\ GemDOS_ClearAllInternalDTAs
  /\ intact' = FALSE
  /\ UNCHANGED savedDTA

DiscardSearches ==
  /\ savedDTA' = Nil
  /\ UNCHANGED <<dta, DTACount, InternalDTAs, DTAIndex, asked, intact>>

-----------------------------------------------------------------------------
SearchCalls == \E a \in DTAs :
  \/ SFirst_Label(a) \/ SFirst_Nothing(a)
  \/ \E n \in 1..MaxEntries : \E at \in 1..n : SFirst_Found(a, n, at)
  \/ GemDOS_SNext(a)
  \/ Overwrite(a)

SearchInit ==
  /\ dta = [a \in DTAs |-> Nil]
  /\ DTACount = DTA_CACHE_MIN_INC
  /\ InternalDTAs = [i \in 0..(DTA_CACHE_MIN_INC - 1) |-> Zero]
  /\ DTAIndex = 0
  /\ savedDTA = Nil
  /\ asked = [a \in DTAs |-> Asked("none")] /\ intact = TRUE

-----------------------------------------------------------------------------
(* A search that a program began and may continue has its entry in the     *)
(* cache for itself, at the place that the program's calls brought it to:  *)
(* no search in another buffer, of whatever outcome, takes it or moves it. *)
(* Until the cache is started over, that is, and if programs call Fsnext   *)
(* only for a search that found something.                                 *)
OwnEntry ==
  intact => \A a \in DTAs : Searching(a) =>
    /\ Owned(a)
    /\ LET e == InternalDTAs[dta[a]] IN
         e.bUsed /\ ~ e.label /\ e.nentries = asked[a].of /\ e.centry = asked[a].at
=============================================================================
