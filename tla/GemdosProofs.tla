---------------------------- MODULE GemdosProofs ----------------------------
(***************************************************************************)
(* What holds of the GEMDOS drive emulation for any number of programs,    *)
(* files and buffers and any size of its tables.                           *)
(***************************************************************************)
EXTENDS Gemdos, SequenceTheorems, TLAPS

-----------------------------------------------------------------------------
(* Searches: their types.                                                  *)

Places == 0..(DTACount - 1)

(* Of two tables the larger has the places of the smaller one.             *)
LEMMA Intervals ==
  \A c, d \in Nat : d >= c => \A j \in 0..(c - 1) : j < c /\ j \in 0..(d - 1)
OBVIOUS

(* What an entry of the cache is after Fsfirst.                            *)
Entry(a, isLabel, n, at) ==
  [bUsed |-> TRUE, addr |-> a, label |-> isLabel, nentries |-> n, centry |-> at]

(* A cleared entry is one.                                                 *)
LEMMA ClearedEntry ==
  \A e \in INTERNAL_DTA : ClearInternalDTA(e) \in INTERNAL_DTA /\ ClearInternalDTA(e).addr = e.addr
<1> TAKE e \in INTERNAL_DTA
<1>2. /\ e.addr \in DTAs \union {Nil} /\ e.label \in BOOLEAN
      /\ e.centry \in 0..MaxEntries
  BY DEF INTERNAL_DTA
<1>3. 0 \in 0..MaxEntries /\ FALSE \in BOOLEAN
  BY SearchAssumption
<1> QED
  BY <1>2, <1>3 DEF INTERNAL_DTA, ClearInternalDTA

(* A search gets an entry of the cache: its own, or the next in turn.      *)
LEMMA UseIdxType ==
  ASSUME SearchTypeOK, DTACount > 0, NEW a \in DTAs
  PROVE  /\ UseIdx(a) \in Places
         /\ Owned(a) \/ UseIdx(a) = DTAIndex
         /\ Owned(a) => UseIdx(a) = dta[a]
BY DEF SearchTypeOK, UseIdx, Owned, Places, Buffers

(* Fsfirst fills this entry and leaves the others alone.                   *)
LEMMA TakeEntry ==
  ASSUME SearchTypeOK, DTACount > 0, NEW a \in DTAs, NEW isLabel \in BOOLEAN,
         NEW n \in 0..MaxEntries, NEW at \in 0..MaxEntries
  PROVE  /\ Take(a, isLabel, n, at) \in [Places -> INTERNAL_DTA]
         /\ Take(a, isLabel, n, at)[UseIdx(a)] = Entry(a, isLabel, n, at)
         /\ \A j \in Places : j # UseIdx(a) => Take(a, isLabel, n, at)[j] = InternalDTAs[j]
<1> DEFINE i == UseIdx(a)
<1>1. i \in Places
  BY UseIdxType
<1>2. InternalDTAs \in [Places -> INTERNAL_DTA]
  BY DEF SearchTypeOK, Places
<1>4. Entry(a, isLabel, n, at) \in INTERNAL_DTA
  BY DEF Entry, INTERNAL_DTA
<1>5. Take(a, isLabel, n, at) = [InternalDTAs EXCEPT ![i] = Entry(a, isLabel, n, at)]
  BY DEF Take, Entry
<1> HIDE DEF i
<1>6. i = UseIdx(a)
  BY DEF i
<1> QED
  BY <1>1, <1>2, <1>4, <1>5, <1>6

(* Clearing the cache leaves entries of the kind it had.                   *)
LEMMA ClearType ==
  ASSUME SearchTypeOK, GemDOS_ClearAllInternalDTAs
  PROVE  /\ DTACount' \in Nat /\ DTACount' > 0 /\ DTAIndex' = 0
         /\ InternalDTAs' \in [0..(DTACount' - 1) -> INTERNAL_DTA]
         /\ asked' \in [DTAs -> Question]
<1>1. DTACount' \in Nat /\ DTACount' > 0 /\ DTAIndex' = 0
  BY SearchAssumption DEF GemDOS_ClearAllInternalDTAs, Allocated, SearchTypeOK
<1>2. Zero \in INTERNAL_DTA
  BY SearchAssumption DEF Zero, INTERNAL_DTA
<1>3. InternalDTAs' \in [0..(DTACount' - 1) -> INTERNAL_DTA]
  <2>1. CASE DTACount = 0
    BY <1>2, <2>1 DEF GemDOS_ClearAllInternalDTAs
  <2>2. CASE DTACount # 0
    BY ClearedEntry, <2>2 DEF GemDOS_ClearAllInternalDTAs, Allocated, SearchTypeOK
  <2> QED
    BY <2>1, <2>2
<1>4. asked' \in [DTAs -> Question]
  BY SearchAssumption DEF GemDOS_ClearAllInternalDTAs, ForgetSearches, Asked, Question
<1> QED
  BY <1>1, <1>3, <1>4

(* A cache T with room for c searches.                                     *)
Enlarged(c, T) == [j \in 0..(c - 1) |-> IF j < DTACount THEN T[j] ELSE Zero]

(* The outcomes of a search with matches: the index moves on in the cache, *)
(* the cache grows, or the index starts over.                              *)
MovesOn(a, T) ==
  /\ ~AtEnd(UseIdx(a)) /\ InternalDTAs' = T /\ DTACount' = DTACount
  /\ DTAIndex' = IF UseIdx(a) = DTAIndex THEN DTAIndex + 1 ELSE DTAIndex

Grows(a, T) ==
  /\ AtEnd(UseIdx(a)) /\ DTAIndex' = DTAIndex + 1 /\ DTACount' = DTACount + CacheInc
  /\ InternalDTAs' = Enlarged(DTACount', T)

StartsOver(T) == DTAIndex' = 0 /\ InternalDTAs' = T /\ DTACount' = DTACount

(* While the cache is intact the index did not start over.                 *)
LEMMA FoundOutcomes ==
  ASSUME NEW a \in DTAs, NEW n \in 1..MaxEntries, NEW at \in 1..n, SFirst_Found(a, n, at)
  PROVE  \/ MovesOn(a, Take(a, FALSE, n, at)) /\ intact' = intact
         \/ Grows(a, Take(a, FALSE, n, at)) /\ intact' = intact
         \/ StartsOver(Take(a, FALSE, n, at)) /\ intact' = FALSE
BY Zenon DEF SFirst_Found, MovesOn, Grows, StartsOver, Enlarged

(* Whatever comes of Fsfirst, the cache, its size and the index after it.  *)
LEMMA FoundStep ==
  ASSUME SearchTypeOK, NEW a \in DTAs, NEW n \in 1..MaxEntries, NEW at \in 1..n,
         SFirst_Found(a, n, at)
  PROVE  /\ DTACount > 0 /\ DTACount' \in Nat /\ DTACount' >= DTACount
         /\ DTAIndex' \in 0..(DTACount' - 1)
         /\ InternalDTAs' = Enlarged(DTACount', Take(a, FALSE, n, at))
         /\ \/ intact' = FALSE
            \/ /\ intact' = intact
               /\ DTAIndex' = IF UseIdx(a) = DTAIndex THEN DTAIndex + 1 ELSE DTAIndex
<1> DEFINE T == Take(a, FALSE, n, at)
<1>1. DTACount > 0
  BY DEF SFirst_Found
<1>2. DTACount \in Nat /\ DTAIndex \in Places
  BY <1>1 DEF SearchTypeOK, Places
<1>3. n \in 0..MaxEntries /\ at \in 0..MaxEntries /\ FALSE \in BOOLEAN
  BY SearchAssumption
<1>4. T \in [Places -> INTERNAL_DTA]
  BY <1>1, <1>3, TakeEntry, Zenon
<1>5. CacheInc \in Nat \ {0}
  BY <1>1, <1>2, SearchAssumption DEF CacheInc
<1>6. \/ MovesOn(a, T) /\ intact' = intact
      \/ Grows(a, T) /\ intact' = intact
      \/ StartsOver(T) /\ intact' = FALSE
  BY FoundOutcomes, Zenon
<1> HIDE DEF T
<1>7. Enlarged(DTACount, T) = T
  BY <1>2, <1>4 DEF Places, Enlarged
<1>8. MovesOn(a, T) \/ Grows(a, T) \/ StartsOver(T) =>
        /\ DTACount' \in Nat /\ DTACount' >= DTACount
        /\ DTAIndex' \in 0..(DTACount' - 1)
        /\ InternalDTAs' = Enlarged(DTACount', T)
  <2>1. MovesOn(a, T) => /\ DTACount' = DTACount /\ InternalDTAs' = T
                         /\ DTAIndex' \in 0..(DTACount' - 1)
    BY <1>2 DEF MovesOn, AtEnd, Places
  <2>2. Grows(a, T) => /\ DTACount' = DTACount + CacheInc
                       /\ InternalDTAs' = Enlarged(DTACount', T)
                       /\ DTAIndex' \in 0..(DTACount' - 1)
    BY <1>2, <1>5 DEF Grows, Places
  <2>3. StartsOver(T) => /\ DTACount' = DTACount /\ InternalDTAs' = T
                         /\ DTAIndex' \in 0..(DTACount' - 1)
    BY <1>1, <1>2 DEF StartsOver
  <2> QED
    BY <1>2, <1>5, <1>7, <2>1, <2>2, <2>3
<1>9. MovesOn(a, T) \/ Grows(a, T) =>
        DTAIndex' = IF UseIdx(a) = DTAIndex THEN DTAIndex + 1 ELSE DTAIndex
  BY DEF MovesOn, Grows, AtEnd
<1> QED
  BY <1>1, <1>6, <1>8, <1>9, Zenon DEF T

(* Every call keeps the types of the searches.                             *)
LEMMA SearchCallsType == SearchTypeOK /\ SearchCalls => SearchTypeOK'
<1> SUFFICES ASSUME SearchTypeOK, NEW a \in DTAs,
                    \/ SFirst_Label(a) \/ SFirst_Nothing(a) \/ GemDOS_SNext(a) \/ Overwrite(a)
                    \/ \E n \in 1..MaxEntries : \E at \in 1..n : SFirst_Found(a, n, at)
             PROVE  SearchTypeOK'
  BY DEF SearchCalls
<1> USE SearchAssumption
<1>0. InternalDTAs \in [Places -> INTERNAL_DTA]
  BY DEF SearchTypeOK, Places
<1>1. CASE SFirst_Label(a) \/ SFirst_Nothing(a)
  <2>1. DTACount > 0
    BY <1>1 DEF SFirst_Label, SFirst_Nothing
  <2>2. UseIdx(a) \in Places
    BY <2>1, UseIdxType
  <2>3. InternalDTAs[UseIdx(a)].centry \in 0..MaxEntries
    BY <1>0, <2>2 DEF INTERNAL_DTA
  <2>4. InternalDTAs' \in [Places -> INTERNAL_DTA]
    <3>1. 0 \in 0..MaxEntries /\ TRUE \in BOOLEAN /\ FALSE \in BOOLEAN
      OBVIOUS
    <3>2. PICK isLabel \in BOOLEAN, at \in {0, InternalDTAs[UseIdx(a)].centry} :
            InternalDTAs' = Take(a, isLabel, 0, at)
      BY <1>1, Zenon DEF SFirst_Label, SFirst_Nothing
    <3>3. at \in 0..MaxEntries
      BY <2>3, <3>1, <3>2
    <3> QED
      BY <2>1, <3>1, <3>2, <3>3, TakeEntry, Zenon
  <2>5. asked' \in [DTAs -> Question]
    <3>1. Asked("label") \in Question /\ Asked("failed") \in Question
      BY DEF Asked, Question
    <3>2. asked \in [DTAs -> Question]
      BY DEF SearchTypeOK
    <3> QED
      BY <1>1, <3>1, <3>2 DEF SFirst_Label, SFirst_Nothing
  <2>6. dta' \in Buffers
    <3>1. UseIdx(a) \in Nat /\ dta \in Buffers
      BY <2>2 DEF Places, SearchTypeOK
    <3> QED
      BY <1>1, <3>1 DEF SFirst_Label, SFirst_Nothing, Buffers
  <2> QED
    BY <1>1, <2>4, <2>5, <2>6 DEF SFirst_Label, SFirst_Nothing, SearchTypeOK, Places
<1>2. CASE Overwrite(a)
  <2>1. dta' \in Buffers /\ asked' \in [DTAs -> Question]
    BY <1>2 DEF Overwrite, Buffers, Asked, Question, SearchTypeOK
  <2> QED
    BY <1>2, <2>1 DEF Overwrite, SearchTypeOK
<1>3. CASE GemDOS_SNext(a)
  <2>1. dta[a] \in Places
    BY <1>3 DEF GemDOS_SNext, SearchTypeOK, Places, Buffers
  <2>2. InternalDTAs[dta[a]] \in INTERNAL_DTA /\ InternalDTAs[dta[a]].nentries \in 0..MaxEntries
        /\ InternalDTAs[dta[a]].centry \in 0..MaxEntries
    BY <1>0, <2>1 DEF INTERNAL_DTA
  <2>3. PICK at \in (InternalDTAs[dta[a]].centry + 1)..InternalDTAs[dta[a]].nentries :
          /\ InternalDTAs' = [InternalDTAs EXCEPT ![dta[a]].centry = at]
          /\ asked' = [asked EXCEPT ![a].at = at]
    BY <1>3 DEF GemDOS_SNext
  <2>4. at \in 0..MaxEntries
    BY <2>2, <2>3
  <2>5. [InternalDTAs[dta[a]] EXCEPT !.centry = at] \in INTERNAL_DTA
    BY <2>2, <2>4 DEF INTERNAL_DTA
  <2>6. InternalDTAs' \in [Places -> INTERNAL_DTA]
    BY <1>0, <2>1, <2>3, <2>5
  <2>7. asked' \in [DTAs -> Question]
    BY <2>3, <2>4 DEF Question, SearchTypeOK
  <2> QED
    BY <1>3, <2>6, <2>7 DEF GemDOS_SNext, SearchTypeOK, Places
<1>4. ASSUME NEW n \in 1..MaxEntries, NEW at \in 1..n, SFirst_Found(a, n, at)
      PROVE  SearchTypeOK'
  <2> DEFINE T == Take(a, FALSE, n, at)
  <2>1. DTACount > 0 /\ DTACount' \in Nat /\ DTACount' >= DTACount
        /\ DTAIndex' \in 0..(DTACount' - 1)
    BY <1>4, FoundStep, Zenon
  <2>2. InternalDTAs' = Enlarged(DTACount', T)
    BY <1>4, FoundStep, Zenon
  <2>3. n \in 0..MaxEntries /\ at \in 0..MaxEntries /\ FALSE \in BOOLEAN /\ DTACount \in Nat
    BY DEF SearchTypeOK
  <2>4. T \in [Places -> INTERNAL_DTA]
    BY <2>1, <2>3, TakeEntry, Zenon
  <2>5. Zero \in INTERNAL_DTA
    BY DEF Zero, INTERNAL_DTA
  <2> HIDE DEF T
  <2>6. InternalDTAs' \in [0..(DTACount' - 1) -> INTERNAL_DTA]
    <3>1. ASSUME NEW j \in 0..(DTACount' - 1)
          PROVE  (IF j < DTACount THEN T[j] ELSE Zero) \in INTERNAL_DTA
      <4>1. j < DTACount => j \in Places
        BY <2>1, <2>3 DEF Places
      <4> QED
        BY <2>4, <2>5, <4>1, Zenon
    <3> QED
      BY <2>2, <3>1, Zenon DEF Enlarged
  <2>7. dta' \in Buffers
    <3>1. UseIdx(a) \in Nat /\ dta \in Buffers
      BY <2>1, UseIdxType DEF SearchTypeOK, Places
    <3> QED
      BY <1>4, <3>1 DEF SFirst_Found, Buffers
  <2>8. asked' \in [DTAs -> Question]
    <3>1. [is |-> "search", of |-> n, at |-> at] \in Question
      BY <2>3 DEF Question
    <3> QED
      BY <1>4, <3>1 DEF SFirst_Found, SearchTypeOK
  <2>9. savedDTA' \in Buffers \union {Nil}
    BY <1>4 DEF SFirst_Found, SearchTypeOK, Buffers
  <2>10. intact' \in BOOLEAN
    BY <1>4, FoundStep, Zenon DEF SearchTypeOK
  <2>11. \A c \in Nat : \A i \in 0..(c - 1) : i \in Nat /\ (c > 0 => i < c)
    OBVIOUS
  <2> QED
    BY <2>1, <2>6, <2>7, <2>8, <2>9, <2>10, <2>11, Zenon DEF SearchTypeOK
<1> QED
  BY <1>1, <1>2, <1>3, <1>4

(* Mounting, unmounting, resets and snapshots keep them too.               *)
LEMMA SearchMachineType ==
  ASSUME SearchTypeOK,
         \/ InitSearches \/ FreeSearches \/ ResetSearches
         \/ SaveSearches \/ RestoreSearches \/ DiscardSearches
  PROVE  SearchTypeOK'
<1>1. \A k \in Nat : k > 0 => 0 \in Nat /\ 0 < k
  OBVIOUS
<1>2. dta \in Buffers /\ savedDTA \in Buffers \union {Nil} /\ (\A a \in DTAs : Nil \in Nat \union {Nil})
  BY DEF SearchTypeOK
<1>3. ASSUME GemDOS_ClearAllInternalDTAs, dta' \in Buffers, savedDTA' = savedDTA, intact' \in BOOLEAN
      PROVE  SearchTypeOK'
  <2>1. savedDTA' \in Buffers \union {Nil}
    BY <1>2, <1>3
  <2> QED
    BY <1>1, <1>3, <2>1, ClearType, Zenon DEF SearchTypeOK, Buffers
<1>4. CASE InitSearches
  BY <1>2, <1>3, <1>4, Zenon DEF InitSearches
<1>5. CASE RestoreSearches
  <2>1. dta' \in Buffers
    BY <1>2, <1>5 DEF RestoreSearches
  <2> QED
    BY <1>3, <1>5, <2>1, Zenon DEF RestoreSearches
<1>6. asked' = [a \in DTAs |-> Asked("none")] => asked' \in [DTAs -> Question]
  BY SearchAssumption DEF Asked, Question
<1>7. CASE FreeSearches
  <2>1. DTACount' \in Nat /\ DTAIndex' \in Nat /\ ~(DTACount' > 0)
    BY <1>7 DEF FreeSearches
  <2>2. InternalDTAs' \in [0..(DTACount' - 1) -> INTERNAL_DTA]
    <3>1. DTACount' = 0 /\ InternalDTAs' = << >>
      BY <1>7 DEF FreeSearches
    <3>2. << >> \in [0..(0 - 1) -> INTERNAL_DTA]
      BY EmptySeq, SeqDef
    <3> QED
      BY <3>1, <3>2
  <2>3. asked' \in [DTAs -> Question]
    BY <1>6, <1>7 DEF FreeSearches, ForgetSearches
  <2>4. dta' = dta /\ savedDTA' = savedDTA /\ intact' = intact
    BY <1>7 DEF FreeSearches
  <2> QED
    BY <1>2, <2>1, <2>2, <2>3, <2>4, Zenon DEF SearchTypeOK
<1>8. CASE ResetSearches
  <2>1. dta' \in Buffers
    BY <1>2, <1>8 DEF ResetSearches, Buffers
  <2>2. asked' \in [DTAs -> Question]
    BY <1>6, <1>8 DEF ResetSearches, ForgetSearches
  <2> QED
    BY <1>8, <2>1, <2>2, Zenon DEF ResetSearches, SearchTypeOK
<1>9. CASE SaveSearches \/ DiscardSearches
  BY <1>9, Zenon DEF SaveSearches, DiscardSearches, SearchTypeOK
<1> QED
  BY <1>4, <1>5, <1>7, <1>8, <1>9

(* At the start there is an empty cache.                                   *)
LEMMA SearchInitType == SearchInit => SearchTypeOK
<1> SUFFICES ASSUME SearchInit PROVE SearchTypeOK
  OBVIOUS
<1>1. Zero \in INTERNAL_DTA /\ Asked("none") \in Question
  BY SearchAssumption DEF Zero, INTERNAL_DTA, Asked, Question
<1>2. dta \in Buffers /\ asked \in [DTAs -> Question] /\ InternalDTAs \in [0..(DTACount - 1) -> INTERNAL_DTA]
  BY <1>1 DEF SearchInit, Buffers
<1>3. DTACount \in Nat /\ DTAIndex \in Nat /\ (DTACount > 0 => DTAIndex < DTACount)
  BY SearchAssumption DEF SearchInit
<1>4. intact \in BOOLEAN /\ savedDTA \in Buffers \union {Nil}
  BY Zenon DEF SearchInit
<1> QED
  BY <1>2, <1>3, <1>4, Zenon DEF SearchTypeOK

-----------------------------------------------------------------------------
(* A search has its entry for itself.                                      *)

Mine(a) ==
  /\ Owned(a) /\ dta[a] < DTAIndex
  /\ InternalDTAs[dta[a]].bUsed /\ ~InternalDTAs[dta[a]].label
  /\ InternalDTAs[dta[a]].nentries = asked[a].of /\ InternalDTAs[dta[a]].centry = asked[a].at

Fresh == \A j \in Places : j > DTAIndex => InternalDTAs[j].addr = Nil

(* The entries of searches that may be continued are before the index,     *)
(* those after it were never used.                                         *)
Own == intact => Fresh /\ \A a \in DTAs : Searching(a) => Mine(a)

(* At the start there is no search and no entry was used.                  *)
LEMMA SearchInitOwn == SearchInit => Own
<1> SUFFICES ASSUME SearchInit PROVE Own
  OBVIOUS
<1>1. \A j \in Places : InternalDTAs[j].addr = Nil
  BY DEF SearchInit, Zero, Places
<1>2. \A a \in DTAs : ~Searching(a)
  BY DEF SearchInit, Asked, Searching
<1> QED
  BY <1>1, <1>2, Zenon DEF Own, Fresh

(* A step that leaves one search and its entry alone, and after which no   *)
(* fewer searches came before the index.                                   *)
LEMMA StaysMine ==
  ASSUME NEW a \in DTAs, Mine(a),
         DTACount' >= DTACount, DTACount \in Nat, DTACount' \in Nat,
         DTAIndex \in Nat, DTAIndex' \in Nat, DTAIndex' >= DTAIndex, dta[a] \in Nat,
         dta'[a] = dta[a], asked'[a] = asked[a],
         InternalDTAs'[dta[a]] = InternalDTAs[dta[a]]
  PROVE  Mine(a)'
<1>1. dta[a] < DTACount' /\ dta[a] < DTAIndex'
  BY DEF Mine, Owned
<1> QED
  BY <1>1, Zenon DEF Mine, Owned

(* Buffers a and b of different searches have different entries: what      *)
(* Fsfirst takes for b is none that a search in a may go on with.          *)
LEMMA TakesOther ==
  ASSUME SearchTypeOK, DTACount > 0, NEW a \in DTAs, NEW b \in DTAs, a # b, Mine(a)
  PROVE  dta[a] \in Places /\ UseIdx(b) # dta[a]
<1>1. dta[a] \in Nat /\ dta[a] < DTAIndex /\ dta[a] < DTACount /\ DTACount \in Nat
      /\ InternalDTAs[dta[a]].addr = a
  BY DEF Mine, Owned, SearchTypeOK, Buffers
<1>2. UseIdx(b) = DTAIndex \/ (Owned(b) /\ UseIdx(b) = dta[b])
  BY UseIdxType
<1> QED
  BY <1>1, <1>2 DEF Owned, Places, SearchTypeOK

(* Fsfirst in buffer b that finds nothing leaves the index where it is.    *)
LEMMA LabelOwn ==
  ASSUME SearchTypeOK, Own, NEW b \in DTAs, SFirst_Label(b) \/ SFirst_Nothing(b)
  PROVE  Own'
<1>1. DTACount > 0 /\ DTACount' = DTACount /\ DTAIndex' = DTAIndex /\ intact' = intact
  BY Zenon DEF SFirst_Label, SFirst_Nothing
<1>2. PICK isLabel \in BOOLEAN, at \in {0, InternalDTAs[UseIdx(b)].centry} :
        InternalDTAs' = Take(b, isLabel, 0, at)
  BY Zenon DEF SFirst_Label, SFirst_Nothing
<1>3. UseIdx(b) \in Places /\ DTACount \in Nat /\ DTAIndex \in Nat
  BY <1>1, UseIdxType DEF SearchTypeOK
<1>4. at \in 0..MaxEntries /\ 0 \in 0..MaxEntries
  BY <1>2, <1>3, SearchAssumption DEF SearchTypeOK, Places, INTERNAL_DTA
<1>5. \A j \in Places : j # UseIdx(b) => InternalDTAs'[j] = InternalDTAs[j]
  BY <1>1, <1>2, <1>4, TakeEntry, Zenon
<1>6. ASSUME intact, Own PROVE Fresh'
  <2>1. Places' = Places
    BY <1>1 DEF Places
  <2>2. UseIdx(b) <= DTAIndex
    <3>1. CASE Owned(b)
      <4>1. dta[b] \in Places /\ InternalDTAs[dta[b]].addr # Nil
        BY <1>1, <3>1, UseIdxType, SearchAssumption DEF Owned
      <4> QED
        BY <1>1, <1>3, <1>6, <3>1, <4>1, UseIdxType DEF Own, Fresh, Places
    <3>2. CASE ~Owned(b)
      BY <1>1, <1>3, <3>2, UseIdxType
    <3> QED
      BY <3>1, <3>2
  <2> QED
    BY <1>1, <1>3, <1>5, <1>6, <2>1, <2>2 DEF Own, Fresh, Places
<1>7. ASSUME NEW a \in DTAs, Searching(a)', Own, intact PROVE Mine(a)'
  <2>1. a # b
    <3>1. asked'[b].is \in {"label", "failed"}
      <4>1. PICK what \in {"label", "failed"} : asked' = [asked EXCEPT ![b] = Asked(what)]
        BY Zenon DEF SFirst_Label, SFirst_Nothing
      <4> QED
        BY <4>1 DEF Asked, SearchTypeOK
    <3> QED
      BY <1>7, <3>1 DEF Searching
  <2>2. dta'[a] = dta[a] /\ asked'[a] = asked[a]
    BY <2>1 DEF SFirst_Label, SFirst_Nothing, SearchTypeOK, Buffers
  <2>3. Searching(a) /\ Mine(a)
    BY <1>7, <2>2, Zenon DEF Own, Searching
  <2>4. dta[a] \in Places /\ UseIdx(b) # dta[a]
    BY <1>1, <2>1, <2>3, TakesOther
  <2>5. InternalDTAs'[dta[a]] = InternalDTAs[dta[a]]
    BY <1>5, <2>4
  <2> QED
    BY <1>1, <1>3, <2>2, <2>3, <2>4, <2>5, StaysMine DEF Places
<1> QED
  BY <1>1, <1>6, <1>7, Zenon DEF Own

(* Fsfirst in buffer b with matches puts b's entry before the index.       *)
LEMMA FoundOwn ==
  ASSUME SearchTypeOK, Own, NEW b \in DTAs, NEW n \in 1..MaxEntries, NEW m \in 1..n,
         SFirst_Found(b, n, m)
  PROVE  Own'
<1> DEFINE T == Take(b, FALSE, n, m)
           i == UseIdx(b)
<1>1. SUFFICES ASSUME intact' # FALSE PROVE Fresh' /\ \A a \in DTAs : Searching(a)' => Mine(a)'
  BY Zenon DEF Own
<1>2. /\ DTACount > 0 /\ DTACount' \in Nat /\ DTACount' >= DTACount
      /\ DTAIndex' \in 0..(DTACount' - 1)
      /\ InternalDTAs' = Enlarged(DTACount', T)
      /\ intact' = intact
      /\ DTAIndex' = IF i = DTAIndex THEN DTAIndex + 1 ELSE DTAIndex
  BY <1>1, FoundStep, Zenon
<1>3. Fresh /\ \A a \in DTAs : Searching(a) => Mine(a)
  BY <1>1, <1>2, Zenon DEF Own, SearchTypeOK
<1>4. n \in 0..MaxEntries /\ m \in 0..MaxEntries /\ FALSE \in BOOLEAN
      /\ DTACount \in Nat /\ DTAIndex \in Nat
  BY SearchAssumption DEF SearchTypeOK
<1>5. i \in Places /\ (Owned(b) \/ i = DTAIndex) /\ (Owned(b) => i = dta[b])
  BY <1>2, UseIdxType
<1>6. T[i] = Entry(b, FALSE, n, m) /\ \A j \in Places : j # i => T[j] = InternalDTAs[j]
  BY <1>2, <1>4, TakeEntry, Zenon
<1> HIDE DEF T
<1>7. \A j \in Places' : InternalDTAs'[j] = IF j < DTACount THEN T[j] ELSE Zero
  BY <1>2 DEF Enlarged, Places
<1>8. Places \subseteq Places' /\ i \in Places' /\ (\A j \in Places : j < DTACount)
      /\ (\A j \in Places' : j < DTACount => j \in Places)
  <2>0. DTACount' \in Nat /\ DTACount' >= DTACount /\ DTACount \in Nat
    BY <1>2, <1>4, Zenon
  <2>1. \A j \in Places : j < DTACount /\ j \in Places'
    BY <2>0, Intervals, Zenon DEF Places
  <2>2. \A j \in Places' : j < DTACount => j \in Places
    BY <2>0 DEF Places
  <2> QED
    BY <1>5, <2>1, <2>2
<1>9. InternalDTAs'[i] = Entry(b, FALSE, n, m) /\ \A j \in Places : j # i => InternalDTAs'[j] = InternalDTAs[j]
  BY <1>5, <1>6, <1>7, <1>8
<1>10. dta'[b] = i /\ \A a \in DTAs : a # b => dta'[a] = dta[a]
  BY DEF SFirst_Found, SearchTypeOK, Buffers
<1>11. asked'[b] = [is |-> "search", of |-> n, at |-> m] /\ \A a \in DTAs : a # b => asked'[a] = asked[a]
  BY DEF SFirst_Found, SearchTypeOK
<1> HIDE DEF i
<1>12. i <= DTAIndex
  <2>1. CASE Owned(b)
    <3>1. i = dta[b] /\ InternalDTAs[i].addr # Nil
      BY <1>5, <2>1, SearchAssumption DEF Owned
    <3> QED
      BY <1>3, <1>4, <1>5, <3>1 DEF Fresh, Places
  <2>2. CASE ~Owned(b)
    BY <1>4, <1>5, <2>2
  <2> QED
    BY <2>1, <2>2
<1>13. i < DTAIndex' /\ DTAIndex' >= DTAIndex /\ DTAIndex' \in Nat
  BY <1>2, <1>4, <1>5, <1>12 DEF Places
<1>14. Fresh'
  <2>1. ASSUME NEW j \in Places', j > DTAIndex' PROVE InternalDTAs'[j].addr = Nil
    <3>1. CASE j < DTACount
      <4>1. j \in Places /\ j # i /\ j > DTAIndex
        BY <1>4, <1>5, <1>8, <1>13, <2>1, <3>1 DEF Places
      <4> QED
        BY <1>3, <1>9, <4>1 DEF Fresh
    <3>2. CASE ~(j < DTACount)
      <4>1. InternalDTAs'[j] = Zero
        BY <1>7, <2>1, <3>2
      <4> QED
        BY <4>1 DEF Zero
    <3> QED
      BY <3>1, <3>2
  <2> QED
    BY <2>1, Zenon DEF Fresh
<1>15. ASSUME NEW a \in DTAs, Searching(a)', a # b PROVE Mine(a)'
  <2>1. dta'[a] = dta[a] /\ asked'[a] = asked[a]
    BY <1>10, <1>11, <1>15
  <2>2. Mine(a)
    BY <1>3, <1>15, <2>1, Zenon DEF Searching
  <2>3. dta[a] \in Places /\ UseIdx(b) # dta[a]
    BY <1>2, <1>15, <2>2, TakesOther
  <2>4. InternalDTAs'[dta[a]] = InternalDTAs[dta[a]]
    BY <1>9, <2>3 DEF i
  <2> QED
    BY <1>2, <1>4, <1>13, <2>1, <2>2, <2>3, <2>4, StaysMine DEF Places
<1>16. Mine(b)'
  <2>1. i \in Nat /\ i < DTACount' /\ i < DTAIndex' /\ i # Nil
    <3>1. i \in Nat /\ i < DTACount' /\ i < DTAIndex'
      BY <1>2, <1>4, <1>5, <1>13 DEF Places
    <3> QED
      BY <3>1, SearchAssumption
  <2>2. /\ InternalDTAs'[i].addr = b /\ InternalDTAs'[i].bUsed = TRUE
        /\ InternalDTAs'[i].label = FALSE /\ InternalDTAs'[i].nentries = n
        /\ InternalDTAs'[i].centry = m
    BY <1>9 DEF Entry
  <2>3. asked'[b].of = n /\ asked'[b].at = m
    BY <1>11
  <2> QED
    BY <1>10, <2>1, <2>2, <2>3, Zenon DEF Mine, Owned
<1> QED
  BY <1>14, <1>15, <1>16, Zenon

(* Fsnext in buffer b moves b's own place.                                 *)
LEMMA NextOwn ==
  ASSUME SearchTypeOK, Own, NEW b \in DTAs, GemDOS_SNext(b)
  PROVE  Own'
<1>1. DTACount' = DTACount /\ DTAIndex' = DTAIndex /\ intact' = intact /\ dta' = dta /\ Searching(b)
  BY Zenon DEF GemDOS_SNext
<1>2. PICK at \in (InternalDTAs[dta[b]].centry + 1)..InternalDTAs[dta[b]].nentries :
          /\ InternalDTAs' = [InternalDTAs EXCEPT ![dta[b]].centry = at]
          /\ asked' = [asked EXCEPT ![b].at = at]
  BY Zenon DEF GemDOS_SNext
<1>3. SUFFICES ASSUME intact, Fresh, \A a \in DTAs : Searching(a) => Mine(a)
               PROVE  Fresh' /\ \A a \in DTAs : Searching(a)' => Mine(a)'
  BY <1>1, Zenon DEF Own
<1>4. Mine(b)
  BY <1>1, <1>3
<1>5. dta[b] \in Places /\ dta[b] < DTAIndex /\ DTAIndex \in Nat /\ DTACount \in Nat
  BY <1>4 DEF Mine, Owned, SearchTypeOK, Buffers, Places
<1>6. \A j \in Places : j # dta[b] => InternalDTAs'[j] = InternalDTAs[j]
  BY <1>2 DEF SearchTypeOK, Places
<1>7. Fresh'
  <2>1. Places' = Places
    BY <1>1 DEF Places
  <2> QED
    BY <1>1, <1>3, <1>5, <1>6, <2>1 DEF Fresh, Places
<1>8. ASSUME NEW a \in DTAs, Searching(a)', a # b PROVE Mine(a)'
  <2>1. asked'[a] = asked[a]
    BY <1>2, <1>8 DEF SearchTypeOK
  <2>2. Mine(a)
    BY <1>3, <1>8, <2>1, Zenon DEF Searching
  <2>3. dta[a] \in Places /\ dta[a] # dta[b]
    <3>1. InternalDTAs[dta[a]].addr = a /\ InternalDTAs[dta[b]].addr = b
      BY <1>4, <2>2 DEF Mine, Owned
    <3>2. dta[a] \in Places
      BY <2>2 DEF Mine, Owned, SearchTypeOK, Buffers, Places
    <3> QED
      BY <1>8, <3>1, <3>2
  <2>4. InternalDTAs'[dta[a]] = InternalDTAs[dta[a]]
    BY <1>6, <2>3
  <2> QED
    BY <1>1, <1>5, <2>1, <2>2, <2>3, <2>4, StaysMine DEF Places
<1>9. Mine(b)'
  <2>1. InternalDTAs \in [Places -> INTERNAL_DTA] /\ asked[b] \in Question
    BY DEF SearchTypeOK, Places
  <2>2. InternalDTAs'[dta[b]] = [InternalDTAs[dta[b]] EXCEPT !.centry = at]
    BY <1>2, <1>5, <2>1
  <2>3. asked'[b] = [asked[b] EXCEPT !.at = at]
    BY <1>2 DEF SearchTypeOK
  <2>4. InternalDTAs[dta[b]] \in INTERNAL_DTA
    BY <1>5, <2>1
  <2>5. /\ InternalDTAs'[dta[b]].addr = InternalDTAs[dta[b]].addr
        /\ InternalDTAs'[dta[b]].bUsed = InternalDTAs[dta[b]].bUsed
        /\ InternalDTAs'[dta[b]].label = InternalDTAs[dta[b]].label
        /\ InternalDTAs'[dta[b]].nentries = InternalDTAs[dta[b]].nentries
        /\ InternalDTAs'[dta[b]].centry = at
    BY <2>2, <2>4 DEF INTERNAL_DTA
  <2>6. asked'[b].of = asked[b].of /\ asked'[b].at = at
    BY <2>1, <2>3 DEF Question
  <2> QED
    BY <1>1, <1>4, <2>5, <2>6, Zenon DEF Mine, Owned
<1> QED
  BY <1>7, <1>8, <1>9, Zenon

(* A buffer that is used for something else has no search any more.        *)
LEMMA OverwriteOwn ==
  ASSUME SearchTypeOK, Own, NEW b \in DTAs, Overwrite(b)
  PROVE  Own'
<1>1. DTACount' = DTACount /\ DTAIndex' = DTAIndex /\ intact' = intact /\ InternalDTAs' = InternalDTAs
  BY Zenon DEF Overwrite
<1>2. Fresh => Fresh'
  BY <1>1, Zenon DEF Fresh, Places
<1>3. ASSUME NEW a \in DTAs, Searching(a)' PROVE dta'[a] = dta[a] /\ asked'[a] = asked[a]
  <2>1. a # b
    <3>1. asked' = [asked EXCEPT ![b] = Asked("none")]
      BY Zenon DEF Overwrite
    <3> QED
      BY <1>3, <3>1 DEF Searching, Asked, SearchTypeOK
  <2> QED
    BY <2>1 DEF Overwrite, SearchTypeOK, Buffers
<1>4. \A a \in DTAs : Searching(a)' /\ (Searching(a) => Mine(a)) => Mine(a)'
  BY <1>1, <1>3, Zenon DEF Searching, Mine, Owned
<1> QED
  BY <1>1, <1>2, <1>4, Zenon DEF Own

(* What happens to the whole machine ends all searches.                    *)
LEMMA MachineOwn ==
  ASSUME SearchTypeOK, Own,
         \/ InitSearches \/ FreeSearches \/ ResetSearches
         \/ SaveSearches \/ RestoreSearches \/ DiscardSearches
  PROVE  Own'
<1>1. ForgetSearches => \A a \in DTAs : ~Searching(a)'
  BY DEF ForgetSearches, Searching, Asked
<1>2. CASE InitSearches
  <2>1. ASSUME intact' PROVE Fresh'
    <3>1. ASSUME NEW j \in Places' PROVE InternalDTAs'[j].addr = Nil
      <4>1. CASE DTACount = 0
        <5>1. InternalDTAs'[j] = Zero
          BY <1>2, <3>1, <4>1 DEF InitSearches, GemDOS_ClearAllInternalDTAs, Places
        <5> QED
          BY <5>1 DEF Zero
      <4>2. CASE DTACount # 0
        <5>1. Places' = Places
          BY <1>2, <4>2 DEF InitSearches, GemDOS_ClearAllInternalDTAs, Allocated, Places
        <5>2. InternalDTAs'[j] = ClearInternalDTA(InternalDTAs[j])
          BY <1>2, <3>1, <4>2 DEF InitSearches, GemDOS_ClearAllInternalDTAs, Places
        <5>3. InternalDTAs[j].addr = Nil
          BY <1>2, <2>1, <3>1, <5>1, Zenon DEF InitSearches, Places
        <5> QED
          BY <5>2, <5>3 DEF ClearInternalDTA
      <4> QED
        BY <4>1, <4>2
    <3> QED
      BY <3>1, Zenon DEF Fresh
  <2>2. ForgetSearches
    BY <1>2, Zenon DEF InitSearches, GemDOS_ClearAllInternalDTAs
  <2> QED
    BY <1>1, <2>1, <2>2, Zenon DEF Own
<1>3. CASE FreeSearches
  <2>1. Places' = {}
    BY <1>3 DEF FreeSearches, Places
  <2>2. ForgetSearches
    BY <1>3, Zenon DEF FreeSearches
  <2> QED
    BY <1>1, <2>1, <2>2, Zenon DEF Own, Fresh
<1>4. CASE ResetSearches
  <2>1. Fresh => Fresh'
    BY <1>4, Zenon DEF ResetSearches, Fresh, Places
  <2>2. ForgetSearches /\ intact' = intact
    BY <1>4, Zenon DEF ResetSearches
  <2> QED
    BY <1>1, <2>1, <2>2, Zenon DEF Own
<1>5. CASE RestoreSearches
  <2>1. ~intact'
    BY <1>5, Zenon DEF RestoreSearches
  <2> QED
    BY <2>1, Zenon DEF Own
<1>6. CASE SaveSearches \/ DiscardSearches
  <2>1. /\ dta' = dta /\ DTACount' = DTACount /\ InternalDTAs' = InternalDTAs
        /\ DTAIndex' = DTAIndex /\ asked' = asked /\ intact' = intact
    BY <1>6, Zenon DEF SaveSearches, DiscardSearches
  <2> QED
    BY <2>1, Zenon DEF Own, Fresh, Places, Mine, Owned, Searching
<1> QED
  BY <1>2, <1>3, <1>4, <1>5, <1>6

(* Every step of the whole keeps the types and the entries of searches.    *)
LEMMA NextSearch ==
  SearchTypeOK /\ Own /\ [Next]_vars => SearchTypeOK' /\ Own'
<1> SUFFICES ASSUME SearchTypeOK, Own, [Next]_vars PROVE SearchTypeOK' /\ Own'
  OBVIOUS
<1>1. CASE SearchCalls
  <2>1. SearchTypeOK'
    BY <1>1, SearchCallsType
  <2>2. Own'
    BY <1>1, LabelOwn, FoundOwn, NextOwn, OverwriteOwn, Zenon DEF SearchCalls
  <2> QED
    BY <2>1, <2>2
<1>2. CASE UNCHANGED searchVars
  BY <1>2, Zenon DEF searchVars, SearchTypeOK, Own, Fresh, Places, Mine, Owned, Searching
<1>3. CASE \/ InitSearches \/ FreeSearches \/ ResetSearches
           \/ SaveSearches \/ RestoreSearches \/ DiscardSearches
  BY <1>3, SearchMachineType, MachineOwn
<1> QED
  BY <1>1, <1>2, <1>3, Zenon DEF Next, GemDOS_Trap, ResetMachine, ChangeDrives,
     GemDOS_MemorySnapShot_Capture, vars

(* A search that a program began and may continue has its entry in the     *)
(* cache for itself, at the place that the program's calls brought it to,  *)
(* whatever other searches, resets and mounts there are.                   *)
THEOREM SearchCorrect == Spec => []OwnEntry
<1>1. Init => SearchTypeOK /\ Own
  BY SearchInitType, SearchInitOwn DEF Init
<1>2. SearchTypeOK /\ Own /\ [Next]_vars => SearchTypeOK' /\ Own'
  BY NextSearch
<1>3. Own => OwnEntry
  BY Zenon DEF Own, OwnEntry, Mine
<1> QED
  BY <1>1, <1>2, <1>3, PTL DEF Spec

-----------------------------------------------------------------------------
(* Handles: their types.                                                   *)

Holds == [Slots -> Hold \union {None}]
Aims == [StdHandles -> Hold \union {None}]

(* What is taken out of the tables leaves tables.                          *)
LEMMA TableTypes ==
  ASSUME FilesTypeOK
  PROVE  /\ \A I : CloseFileHandles(I) \in Table
         /\ \A S : Unforce(S) \in Forced
         /\ \A h : WithoutStale(h) \in Forced
         /\ NoHandles \in Table /\ Unforced \in Forced /\ NoHandles \in Holds /\ Unforced \in Aims
BY DEF FilesTypeOK, CloseFileHandles, Unforce, WithoutStale, NoHandles, Unforced, Table, Forced,
   Holds, Aims

(* So does what is taken out of the history.                               *)
LEMMA HistoryTypes ==
  ASSUME FilesTypeOK
  PROVE  /\ \A h \in Holds : \A X : Forget(h, X) \in Holds /\ Unwanted(h, X) \in Holds
         /\ \A h \in Aims : \A X : Forget(h, X) \in Aims /\ Unwanted(h, X) \in Aims
         /\ \A h : AimAfterLook(h) \in Aims
<1>1. \A e \in Hold : [e EXCEPT !.depth = 0] \in Hold
  BY FilesAssumption DEF Hold
<1>2. ASSUME NEW D, NEW h \in [D -> Hold \union {None}], NEW X
      PROVE  /\ Forget(h, X) \in [D -> Hold \union {None}]
             /\ Unwanted(h, X) \in [D -> Hold \union {None}]
  BY <1>1 DEF Forget, Unwanted
<1>3. \A h : AimAfterLook(h) \in Aims
  BY DEF AimAfterLook, Aims, FilesTypeOK
<1> QED
  BY <1>2, <1>3 DEF Holds, Aims

(* The current program.                                                    *)
LEMMA CurrentType ==
  ASSUME FilesTypeOK, chain # << >>
  PROVE  /\ Len(chain) \in Nat \ {0} /\ Len(chain) \in 0..MaxDepth
         /\ Current \in Basepages
         /\ \A k \in 1..Len(chain) : chain[k] \in Basepages
<1>1. chain \in Seq(Basepages) /\ Len(chain) <= MaxDepth
  BY DEF FilesTypeOK, Chains
<1>2. Len(chain) \in Nat \ {0}
  BY <1>1, EmptySeq
<1>3. \A k \in 1..Len(chain) : chain[k] \in Basepages
  BY <1>1, ElementOfSeq
<1> QED
  BY <1>1, <1>2, <1>3, FilesAssumption DEF Current

(* Where a valid handle leads to.                                          *)
LEMMA SlotType ==
  ASSUME FilesTypeOK, NEW h, Valid(h)
  PROVE  Slot(h) \in Slots /\ FileHandles[Slot(h)] \in FILE_HANDLE
BY DEF FilesTypeOK, Valid, Table

(* Opening a file.                                                         *)
LEMMA TagType ==
  ASSUME FilesTypeOK, chain # << >>, NEW i \in Slots, NEW f \in Files,
         NEW mode \in OpenModes \union {"wb+"}, Tag(i, f, mode)
  PROVE  FileHandles' \in Table /\ holds' \in Holds
<1>1. [szMode |-> mode, Basepage |-> Current, szActualName |-> f] \in FILE_HANDLE
  BY CurrentType DEF FILE_HANDLE
<1>2. [file |-> f, depth |-> Len(chain)] \in Hold
  BY CurrentType DEF Hold
<1> QED
  BY <1>1, <1>2 DEF Tag, FilesTypeOK, Table, Holds

(* The chain grows and shrinks by one program.                             *)
LEMMA ChainTypes ==
  ASSUME FilesTypeOK
  PROVE  /\ << >> \in Chains /\ \A b \in Basepages : << b >> \in Chains
         /\ \A b \in Basepages : Len(chain) < MaxDepth => Append(chain, b) \in Chains
         /\ Len(chain) > 1 => SubSeq(chain, 1, Len(chain) - 1) \in Chains
<1>1. chain \in Seq(Basepages) /\ Len(chain) <= MaxDepth /\ Len(chain) \in Nat /\ MaxDepth \in Nat \ {0}
  BY LenProperties, FilesAssumption DEF FilesTypeOK, Chains
<1>2. << >> \in Chains /\ \A b \in Basepages : << b >> \in Chains
  BY <1>1 DEF Chains
<1>3. ASSUME NEW b \in Basepages, Len(chain) < MaxDepth PROVE Append(chain, b) \in Chains
  BY <1>1, <1>3 DEF Chains
<1>4. ASSUME Len(chain) > 1 PROVE SubSeq(chain, 1, Len(chain) - 1) \in Chains
  <2>1. \A k \in 1..(Len(chain) - 1) : chain[k] \in Basepages
    BY <1>1, ElementOfSeq
  <2>2. /\ SubSeq(chain, 1, Len(chain) - 1) \in Seq(Basepages)
        /\ Len(SubSeq(chain, 1, Len(chain) - 1)) = Len(chain) - 1
    BY <1>1, <1>4, <2>1, SubSeqProperties
  <2> QED
    BY <1>1, <1>4, <2>2 DEF Chains
<1> QED
  BY <1>2, <1>3, <1>4

(* A snapshot is a record of the parts it is made of.                      *)
LEMMA SnapshotRecord ==
  ASSUME NEW M, NEW C, NEW F, NEW R, NEW H, NEW A,
         NEW m \in M, NEW c \in C, NEW f \in F, NEW r \in R, NEW h \in H, NEW a \in A
  PROVE  [mounted |-> m, chain |-> c, FileHandles |-> f, ForcedHandles |-> r, holds |-> h,
          aim |-> a]
           \in [mounted : M, chain : C, FileHandles : F, ForcedHandles : R, holds : H, aim : A]
OBVIOUS

(* Taking a snapshot.                                                      *)
LEMMA SaveType == ASSUME FilesTypeOK PROVE Save => saved' \in Snapshot
<1>1. mounted \in BOOLEAN /\ chain \in Chains /\ FileHandles \in Table /\ ForcedHandles \in Forced
      /\ holds \in Holds /\ aim \in Aims
  BY Zenon DEF FilesTypeOK, Holds, Aims
<1> QED
  <2> DEFINE all == [mounted |-> mounted, chain |-> chain, FileHandles |-> FileHandles,
                     ForcedHandles |-> ForcedHandles, holds |-> holds, aim |-> aim]
  <2>1. all \in [mounted : BOOLEAN, chain : Chains, FileHandles : Table, ForcedHandles : Forced,
                 holds : Holds, aim : Aims]
    BY <1>1, SnapshotRecord, Zenon
  <2>2. Save => saved' = all
    BY Zenon DEF Save
  <2> HIDE DEF all
  <2> QED
    BY <2>1, <2>2, Zenon DEF Snapshot, Holds, Aims

(* Going back to it.                                                       *)
LEMMA RestoreType ==
  ASSUME FilesTypeOK, Restore
  PROVE  /\ chain' \in Chains /\ FileHandles' \in Table /\ ForcedHandles' \in Forced
         /\ host' \in [Files -> {"gone", "empty", "written"}]
         /\ holds' \in Holds /\ aim' \in Aims
<1>1. saved \in Snapshot
  BY Zenon DEF FilesTypeOK, Restore
<1>2. /\ saved.chain \in Chains /\ saved.FileHandles \in Table /\ saved.ForcedHandles \in Forced
      /\ saved.holds \in Holds /\ saved.aim \in Aims
  BY <1>1 DEF Snapshot, Holds, Aims
<1>3. FileHandles' \in Table
  <2>1. FileHandles' = [i \in Slots |-> restore_file_handle_info(saved.FileHandles[i])]
    BY Zenon DEF Restore
  <2> QED
    BY <1>2, <2>1 DEF Table, restore_file_handle_info
<1>4. host' \in [Files -> {"gone", "empty", "written"}]
  <2>1. host' = [f \in Files |-> IF Reopened(f) THEN "empty" ELSE host[f]]
    BY Zenon DEF Restore
  <2>2. host \in [Files -> {"gone", "empty", "written"}]
    BY Zenon DEF FilesTypeOK
  <2> QED
    BY <2>1, <2>2
<1>5. holds' \in Holds
  <2>1. holds' = [i \in Slots |-> IF Lost(saved.FileHandles[i]) THEN None ELSE saved.holds[i]]
    BY Zenon DEF Restore
  <2> QED
    BY <1>2, <2>1 DEF Holds
<1>6. \A X : Unwanted(saved.aim, X) \in Aims
  BY <1>2, HistoryTypes
<1> QED
  BY <1>2, <1>3, <1>4, <1>5, <1>6, Zenon DEF Restore

(* The calls of programs keep the types.                                   *)
LEMMA ProgramType == ASSUME FilesTypeOK, Program PROVE FilesTypeOK'
<1>0. /\ mounted \in BOOLEAN /\ chain \in Chains /\ FileHandles \in Table
      /\ ForcedHandles \in Forced /\ saved \in Snapshot \union {None}
      /\ holds \in Holds /\ aim \in Aims
  BY Zenon DEF FilesTypeOK, Holds, Aims
<1> DEFINE HostType == [Files -> {"gone", "empty", "written"}]
<1>1. host \in HostType
  BY DEF FilesTypeOK
<1> HIDE DEF HostType
<1>2. ASSUME NEW f \in Files, GemDOS_Create(f) \/ GemDOS_Open(f) \/ GemDOS_FDelete(f)
      PROVE  FilesTypeOK'
  <2>1. FileHandles' \in Table /\ holds' \in Holds
    <3>1. CASE GemDOS_Create(f) \/ GemDOS_Open(f)
      <4>1. chain # << >> /\ \E i \in Slots, mode \in OpenModes \union {"wb+"} : Tag(i, f, mode)
        BY <3>1 DEF GemDOS_Create, GemDOS_Open, Running
      <4> QED
        BY <4>1, TagType
    <3>2. CASE GemDOS_FDelete(f)
      BY <1>0, <3>2, Zenon DEF GemDOS_FDelete
    <3> QED
      BY <1>2, <3>1, <3>2
  <2>2. host' \in HostType
    BY <1>1, <1>2 DEF GemDOS_Create, GemDOS_Open, GemDOS_FDelete, HostType
  <2>3. /\ mounted' = mounted /\ chain' = chain /\ ForcedHandles' = ForcedHandles /\ saved' = saved
        /\ aim' = aim
    BY <1>2, Zenon DEF GemDOS_Create, GemDOS_Open, GemDOS_FDelete
  <2> QED
    BY <1>0, <2>1, <2>2, <2>3, Zenon DEF FilesTypeOK, Holds, Aims, HostType
<1>3. ASSUME NEW h \in Handles, GemDOS_Close(h) \/ GemDOS_Look(h) PROVE FilesTypeOK'
  <2>1. FileHandles' \in Table /\ holds' \in Holds
    <3>1. CASE GemDOS_Close(h)
      BY <1>0, <3>1 DEF GemDOS_Close, Table, Holds
    <3>2. CASE GemDOS_Look(h)
      BY <1>0, <3>2, Zenon DEF GemDOS_Look
    <3> QED
      BY <1>3, <3>1, <3>2
  <2>2. ForcedHandles' \in Forced /\ aim' \in Aims
    <3>1. CASE GemDOS_Close(h)
      <4>1. ForcedHandles' = Unforce(LeadingTo(Slot(h))) /\ aim' = Forget(aim, LeadingTo(Slot(h)))
        BY <3>1, Zenon DEF GemDOS_Close, UnforceClosed
      <4> QED
        BY <1>0, <4>1, TableTypes, HistoryTypes
    <3>2. CASE GemDOS_Look(h)
      BY <3>2, TableTypes, HistoryTypes, Zenon DEF GemDOS_Look
    <3> QED
      BY <1>3, <3>1, <3>2
  <2>3. mounted' = mounted /\ chain' = chain /\ saved' = saved /\ host' = host
    BY <1>3, Zenon DEF GemDOS_Close, GemDOS_Look
  <2> QED
    BY <1>0, <1>1, <2>1, <2>2, <2>3, Zenon DEF FilesTypeOK, Holds, Aims, HostType
<1>4. ASSUME NEW h \in Handles, GemDOS_Write(h) PROVE FilesTypeOK'
  <2>1. host' \in HostType
    BY <1>1, <1>4 DEF GemDOS_Write, HostType
  <2>2. /\ mounted' = mounted /\ chain' = chain /\ FileHandles' = FileHandles
        /\ ForcedHandles' = ForcedHandles /\ saved' = saved /\ holds' = holds /\ aim' = aim
    BY <1>4, Zenon DEF GemDOS_Write
  <2> QED
    BY <1>0, <2>1, <2>2, Zenon DEF FilesTypeOK, Holds, Aims, HostType
<1>5. ASSUME NEW a \in Handles, NEW b \in Handles, GemDOS_Force(a, b) PROVE FilesTypeOK'
  <2> DEFINE std == IF a > b THEN b ELSE a
             own == IF a > b THEN a ELSE b
  <2>1. WithoutStale(own) \in Forced /\ Unwanted(aim, {a, b}) \in Aims
    BY <1>0, TableTypes, HistoryTypes, Zenon
  <2>2. CASE Valid(own) /\ std \in StdHandles
    <3>1. chain # << >> /\ Slot(own) \in Slots /\ FileHandles[Slot(own)] \in FILE_HANDLE
      BY <1>5, <2>2, SlotType DEF GemDOS_Force, Running
    <3>2. Redirect(own) \in Redirection
      BY <3>1, CurrentType DEF Redirect, Redirection
    <3>3. [file |-> FileHandles[Slot(own)].szActualName,
           depth |-> IF holds[Slot(own)].depth = 0 THEN 0 ELSE Len(chain)] \in Hold
      BY <3>1, CurrentType, FilesAssumption DEF Hold, FILE_HANDLE
    <3>0. /\ ForcedHandles' = [WithoutStale(own) EXCEPT ![std] = Redirect(own)]
          /\ aim' = [aim EXCEPT ![std] =
               [file |-> FileHandles[Slot(own)].szActualName,
                depth |-> IF holds[Slot(own)].depth = 0 THEN 0 ELSE Len(chain)]]
      BY <1>5, <2>2 DEF GemDOS_Force
    <3> HIDE DEF std, own
    <3>4. [WithoutStale(own) EXCEPT ![std] = Redirect(own)] \in Forced
      BY <2>1, <3>2 DEF Forced
    <3>5. [aim EXCEPT ![std] = [file |-> FileHandles[Slot(own)].szActualName,
             depth |-> IF holds[Slot(own)].depth = 0 THEN 0 ELSE Len(chain)]] \in Aims
      BY <1>0, <3>3 DEF Aims
    <3>6. ForcedHandles' \in Forced /\ aim' \in Aims
      BY <3>0, <3>4, <3>5
    <3> QED
      BY <1>0, <1>1, <1>5, <3>6, Zenon DEF GemDOS_Force, FilesTypeOK, Holds, Aims, HostType
  <2>3. CASE ~(Valid(own) /\ std \in StdHandles)
    <3>1. ForcedHandles' \in Forced /\ aim' \in Aims
      BY <1>5, <2>1, <2>3, Zenon DEF GemDOS_Force
    <3> QED
      BY <1>0, <1>1, <1>5, <3>1, Zenon DEF GemDOS_Force, FilesTypeOK, Holds, Aims, HostType
  <2> QED
    BY <2>2, <2>3
<1>6. ASSUME NEW b \in Basepages, Pexec(b) PROVE FilesTypeOK'
  BY <1>0, <1>1, <1>6, ChainTypes, Zenon DEF Pexec, FilesTypeOK, Holds, Aims, HostType
<1>7. CASE GemDOS_Pterm
  <2>1. FileHandles' \in Table /\ ForcedHandles' \in Forced
    BY <1>0, <1>7, TableTypes, Zenon DEF GemDOS_Pterm, GemDOS_TerminateClose
  <2>2. holds' \in Holds /\ aim' \in Aims /\ chain' \in Chains
    BY <1>0, <1>7, HistoryTypes, ChainTypes, Zenon DEF GemDOS_Pterm
  <2>3. mounted' = mounted /\ saved' = saved /\ host' = host
    BY <1>7, Zenon DEF GemDOS_Pterm
  <2> QED
    BY <1>0, <1>1, <2>1, <2>2, <2>3, Zenon DEF FilesTypeOK, Holds, Aims, HostType
<1> QED
  BY <1>2, <1>3, <1>4, <1>5, <1>6, <1>7, Zenon DEF Program

FilesMachine ==
  \/ GemDOS_Reset \/ GemDOS_Boot \/ GemDOS_InitDrives \/ GemDOS_UnInitDrives
  \/ Save \/ Restore \/ Discard

(* So does what happens to the machine.                                    *)
LEMMA FilesMachineType == ASSUME FilesTypeOK, FilesMachine PROVE FilesTypeOK'
<1> DEFINE HostType == [Files -> {"gone", "empty", "written"}]
           Savings == Snapshot \union {None}
<1>0. /\ mounted \in BOOLEAN /\ chain \in Chains /\ FileHandles \in Table
      /\ ForcedHandles \in Forced /\ saved \in Savings /\ host \in HostType
      /\ holds \in Holds /\ aim \in Aims
  BY Zenon DEF FilesTypeOK, Holds, Aims
<1>1. /\ saved' \in Savings /\ mounted' \in BOOLEAN /\ chain' \in Chains /\ FileHandles' \in Table
      /\ ForcedHandles' \in Forced /\ host' \in HostType /\ holds' \in Holds /\ aim' \in Aims
      => FilesTypeOK'
  BY Zenon DEF FilesTypeOK, Holds, Aims
<1> HIDE DEF HostType
<1>2. CASE GemDOS_Reset \/ GemDOS_Boot
  <2>1. chain' \in Chains
    BY <1>2, ChainTypes DEF GemDOS_Reset, GemDOS_Boot
  <2>2. holds' \in Holds /\ aim' \in Aims
    BY <1>0, <1>2, HistoryTypes, Zenon DEF GemDOS_Reset, GemDOS_Boot, ProgramsGone
  <2> QED
    BY <1>0, <1>1, <1>2, <2>1, <2>2, Zenon DEF GemDOS_Reset, GemDOS_Boot
<1>3. CASE GemDOS_InitDrives
  BY <1>0, <1>1, <1>3, TableTypes, Zenon DEF GemDOS_InitDrives, GemDOS_ClearAllFileHandles
<1>4. CASE GemDOS_UnInitDrives
  BY <1>0, <1>1, <1>4, ChainTypes, HistoryTypes, Zenon DEF GemDOS_UnInitDrives, ProgramsGone
<1>5. CASE Save
  <2>1. saved' \in Savings
    BY <1>5, SaveType, Zenon
  <2> HIDE DEF Savings
  <2> QED
    BY <1>0, <1>1, <1>5, <2>1, Zenon DEF Save
<1>6. CASE Restore
  <2>1. mounted' \in BOOLEAN /\ saved' = saved
    BY <1>6, Zenon DEF Restore
  <2> QED
    BY <1>0, <1>1, <1>6, <2>1, RestoreType, Zenon DEF HostType
<1>7. CASE Discard
  <2>1. saved' \in Savings
    BY <1>7, Zenon DEF Discard
  <2> HIDE DEF Savings
  <2> QED
    BY <1>0, <1>1, <1>7, <2>1, Zenon DEF Discard
<1> QED
  BY <1>2, <1>3, <1>4, <1>5, <1>6, <1>7, Zenon DEF FilesMachine

(* Every step of the whole is one of the handles, or leaves them alone.    *)
LEMMA FilesStep == [Next]_vars => Program \/ FilesMachine \/ UNCHANGED fileVars
BY Zenon DEF Next, GemDOS_Trap, ResetMachine, ChangeDrives, GemDOS_MemorySnapShot_Capture,
   FilesMachine, vars

(* Every step keeps the types of the handles.                              *)
LEMMA NextFilesType == FilesTypeOK /\ [Next]_vars => FilesTypeOK'
<1> SUFFICES ASSUME FilesTypeOK, [Next]_vars PROVE FilesTypeOK'
  OBVIOUS
<1>1. CASE UNCHANGED fileVars
  BY <1>1, Zenon DEF fileVars, FilesTypeOK
<1> QED
  BY <1>1, FilesStep, ProgramType, FilesMachineType

(* Drives that are mounted have a cache for their searches.                *)
LEMMA NextCache ==
  SearchTypeOK /\ (mounted => DTACount > 0) /\ [Next]_vars => (mounted' => DTACount' > 0)
<1> SUFFICES ASSUME SearchTypeOK, mounted => DTACount > 0, [Next]_vars, mounted' PROVE DTACount' > 0
  OBVIOUS
<1>1. CASE mounted' = mounted /\ DTACount' = DTACount
  BY <1>1, Zenon
<1>2. CASE GemDOS_ClearAllInternalDTAs
  BY <1>2, ClearType
<1>3. CASE Running /\ SearchCalls
  <2>1. DTACount > 0 /\ DTACount \in Nat
    BY <1>3, Zenon DEF Running, SearchTypeOK
  <2>2. CASE DTACount' = DTACount
    BY <2>1, <2>2
  <2>3. ASSUME NEW a \in DTAs, NEW n \in 1..MaxEntries, NEW at \in 1..n, SFirst_Found(a, n, at)
        PROVE  DTACount' > 0
    <3>1. DTACount' \in Nat /\ DTACount' >= DTACount
      BY <2>3, FoundStep, Zenon
    <3> QED
      BY <2>1, <3>1
  <2> QED
    BY <1>3, <2>2, <2>3, Zenon DEF SearchCalls, SFirst_Label, SFirst_Nothing, GemDOS_SNext, Overwrite
<1>4. CASE UNCHANGED vars
  BY <1>1, <1>4, Zenon DEF vars, fileVars, searchVars
<1>5. CASE Program /\ UNCHANGED searchVars
  <2>1. mounted' = mounted
    BY <1>5, Zenon DEF Program, GemDOS_Create, GemDOS_Open, GemDOS_FDelete, GemDOS_Close,
       GemDOS_Look, GemDOS_Write, GemDOS_Force, Pexec, GemDOS_Pterm
  <2> QED
    BY <1>1, <1>5, <2>1, Zenon DEF searchVars
<1>6. CASE ResetMachine
  BY <1>1, <1>6, Zenon DEF ResetMachine, GemDOS_Reset, GemDOS_Boot, ResetSearches, searchVars
<1>7. CASE ChangeDrives
  BY <1>2, <1>7, Zenon DEF ChangeDrives, GemDOS_UnInitDrives, InitSearches
<1>8. CASE GemDOS_MemorySnapShot_Capture
  BY <1>1, <1>2, <1>8, Zenon DEF GemDOS_MemorySnapShot_Capture, Save, SaveSearches, Discard,
     DiscardSearches, RestoreSearches
<1> QED
  BY <1>3, <1>4, <1>5, <1>6, <1>7, <1>8, Zenon DEF Next, GemDOS_Trap

(* Handles, redirections and searches are what they are said to be, and    *)
(* whichever way drives came to be mounted, there is a cache for searches. *)
THEOREM GemdosTypeCorrect == Spec => []TypeOK
<1>1. Init => TypeOK /\ Own
  <2> SUFFICES ASSUME FilesInit, SearchInit PROVE TypeOK /\ Own
    BY DEF Init
  <2>1. SearchTypeOK /\ Own
    BY SearchInitType, SearchInitOwn
  <2>2. DTACount > 0
    BY SearchAssumption DEF SearchInit
  <2>3. FilesTypeOK
    <3>1. host \in [Files -> {"gone", "empty", "written"}]
      BY DEF FilesInit
    <3>2. chain \in Chains
      BY EmptySeq, FilesAssumption DEF FilesInit, Chains
    <3>3. FileHandles \in Table /\ ForcedHandles \in Forced /\ holds \in Holds /\ aim \in Aims
      BY DEF FilesInit, NoHandles, Unforced, Table, Forced, Holds, Aims
    <3> QED
      BY <3>1, <3>2, <3>3, Zenon DEF FilesInit, FilesTypeOK, Holds, Aims
  <2> QED
    BY <2>1, <2>2, <2>3, Zenon DEF TypeOK
<1>2. TypeOK /\ Own /\ [Next]_vars => TypeOK' /\ Own'
  BY NextSearch, NextFilesType, NextCache, Zenon DEF TypeOK
<1> QED
  BY <1>1, <1>2, PTL DEF Spec

-----------------------------------------------------------------------------
(* Handles lead where their programs opened them.                          *)

Wanted(x) == x # None /\ x.depth > 0

(* The programs that run have different basepages.                         *)
Distinct(ch) == \A j, k \in 1..Len(ch) : ch[j] = ch[k] => j = k

(* The table of handles and its history.                                   *)
HeldAt(ch, fh, ho, i) ==
  /\ Wanted(ho[i]) =>
       /\ fh[i] # None /\ fh[i].szActualName = ho[i].file
       /\ ho[i].depth <= Len(ch) /\ fh[i].Basepage = ch[ho[i].depth]
  /\ fh[i] # None => ho[i] # None

Held(ch, fh, ho) == \A i \in Slots : HeldAt(ch, fh, ho, i)

(* The table of redirections and its history: what a redirection that is   *)
(* wanted leads to was opened by the program that made it or by one that   *)
(* was there before.                                                       *)
AimedAt(ch, fh, ff, ho, ai, s) ==
  /\ ai[s] = None => ff[s] = None
  /\ Wanted(ai[s]) =>
       /\ ff[s] # None
       /\ ai[s].depth <= Len(ch) /\ ff[s].Basepage = ch[ai[s].depth]
       /\ fh[ff[s].Handle] # None /\ fh[ff[s].Handle].szActualName = ai[s].file
       /\ Wanted(ho[ff[s].Handle]) /\ ho[ff[s].Handle].depth <= ai[s].depth

Aimed(ch, fh, ff, ho, ai) == \A s \in StdHandles : AimedAt(ch, fh, ff, ho, ai, s)

(* Nothing is wanted while no drive is mounted.                            *)
Idle(ho, ai) == (\A i \in Slots : ~Wanted(ho[i])) /\ (\A s \in StdHandles : ~Wanted(ai[s]))

Sound(ch, fh, ff, ho, ai) == Distinct(ch) /\ Held(ch, fh, ho) /\ Aimed(ch, fh, ff, ho, ai)

SoundNow == Sound(chain, FileHandles, ForcedHandles, holds, aim) /\ (~mounted => Idle(holds, aim))

SoundSaved ==
  saved # None =>
    /\ Sound(saved.chain, saved.FileHandles, saved.ForcedHandles, saved.holds, saved.aim)
    /\ ~saved.mounted => Idle(saved.holds, saved.aim)

(* What is sound is what the properties say.                               *)
LEMMA SoundSuffices == FilesTypeOK /\ SoundNow => HandlesLead /\ StdLeads
<1> SUFFICES ASSUME FilesTypeOK, SoundNow PROVE HandlesLead /\ StdLeads
  OBVIOUS
<1>1. Held(chain, FileHandles, holds) /\ Aimed(chain, FileHandles, ForcedHandles, holds, aim)
  BY Zenon DEF SoundNow, Sound
<1>2. HandlesLead
  BY <1>1, Zenon DEF Held, HeldAt, Wanted, HandlesLead, Leads
<1>3. StdLeads
  BY <1>1, Zenon DEF Aimed, AimedAt, Wanted, StdLeads, Redirected
<1> QED
  BY <1>2, <1>3

(* At the start nothing is open.                                           *)
LEMMA InitSound == FilesInit => SoundNow /\ SoundSaved
<1> SUFFICES ASSUME FilesInit PROVE SoundNow /\ SoundSaved
  OBVIOUS
<1>1. Held(chain, FileHandles, holds) /\ Aimed(chain, FileHandles, ForcedHandles, holds, aim)
  BY DEF FilesInit, NoHandles, Unforced, Held, HeldAt, Aimed, AimedAt, Wanted
<1>2. Distinct(chain)
  BY DEF FilesInit, Distinct
<1> QED
  BY <1>1, <1>2, Zenon DEF FilesInit, SoundNow, SoundSaved, Sound

(* What is the same about them.                                            *)
LEMMA SameSound ==
  SoundNow /\ UNCHANGED <<mounted, chain, FileHandles, ForcedHandles, holds, aim>> => SoundNow'
<1> SUFFICES ASSUME SoundNow, mounted' = mounted, chain' = chain, FileHandles' = FileHandles,
                    ForcedHandles' = ForcedHandles, holds' = holds, aim' = aim
             PROVE  SoundNow'
  BY Zenon
<1>1. Distinct(chain)'
  BY Zenon DEF SoundNow, Sound, Distinct
<1>2. Held(chain, FileHandles, holds)'
  BY Zenon DEF SoundNow, Sound, Held, HeldAt, Wanted
<1>3. Aimed(chain, FileHandles, ForcedHandles, holds, aim)'
  BY Zenon DEF SoundNow, Sound, Aimed, AimedAt, Wanted
<1>4. (~mounted => Idle(holds, aim))'
  BY Zenon DEF SoundNow, Idle, Wanted
<1> QED
  BY <1>1, <1>2, <1>3, <1>4, Zenon DEF SoundNow, Sound

(* And about the snapshot.                                                 *)
LEMMA SameSaved == SoundSaved /\ UNCHANGED saved => SoundSaved'
BY ZenonT(60) DEF SoundSaved, Sound, Distinct, Held, HeldAt, Aimed, AimedAt, Idle, Wanted

(* The parts of what is sound after a step.                                *)
LEMMA SoundParts ==
  ASSUME Distinct(chain)', Held(chain, FileHandles, holds)',
         Aimed(chain, FileHandles, ForcedHandles, holds, aim)',
         (~mounted => Idle(holds, aim))'
  PROVE  SoundNow'
BY Zenon DEF SoundNow, Sound

(* What is sound, taken apart.                                             *)
LEMMA SoundFacts ==
  ASSUME FilesTypeOK, SoundNow
  PROVE  /\ Distinct(chain)
         /\ \A i \in Slots : HeldAt(chain, FileHandles, holds, i)
         /\ \A s \in StdHandles : AimedAt(chain, FileHandles, ForcedHandles, holds, aim, s)
         /\ \A s \in StdHandles : ForcedHandles[s] # None => ForcedHandles[s].Handle \in Slots
         /\ \A i \in Slots : Wanted(holds[i]) => holds[i].depth \in 1..Len(chain)
         /\ \A s \in StdHandles : Wanted(aim[s]) => aim[s].depth \in 1..Len(chain)
         /\ Len(chain) \in Nat
<1>1. /\ Distinct(chain)
      /\ \A i \in Slots : HeldAt(chain, FileHandles, holds, i)
      /\ \A s \in StdHandles : AimedAt(chain, FileHandles, ForcedHandles, holds, aim, s)
  BY Zenon DEF SoundNow, Sound, Held, Aimed
<1>2. \A s \in StdHandles : ForcedHandles[s] # None => ForcedHandles[s].Handle \in Slots
  BY DEF FilesTypeOK, Forced, Redirection
<1>3. /\ \A i \in Slots : holds[i] # None => holds[i].depth \in Nat
      /\ \A s \in StdHandles : aim[s] # None => aim[s].depth \in Nat
      /\ Len(chain) \in Nat
  BY FilesAssumption, LenProperties DEF FilesTypeOK, Hold, Chains
<1>4. \A i \in Slots : Wanted(holds[i]) => holds[i].depth \in 1..Len(chain)
  BY <1>1, <1>3 DEF HeldAt, Wanted
<1>5. \A s \in StdHandles : Wanted(aim[s]) => aim[s].depth \in 1..Len(chain)
  BY <1>1, <1>3 DEF AimedAt, Wanted
<1> QED
  BY <1>1, <1>2, <1>3, <1>4, <1>5

(* A file that is opened is its program's, and no redirection leads to it. *)
LEMMA OpenSound ==
  ASSUME FilesTypeOK, SoundNow, chain # << >>, mounted,
         NEW i \in Slots, NEW f \in Files, NEW mode \in OpenModes \union {"wb+"},
         FileHandles[i] = None, Tag(i, f, mode),
         mounted' = mounted, chain' = chain, ForcedHandles' = ForcedHandles, aim' = aim
  PROVE  SoundNow'
<1> DEFINE r == [szMode |-> mode, Basepage |-> Current, szActualName |-> f]
           o == [file |-> f, depth |-> Len(chain)]
<1>1. r \in FILE_HANDLE /\ o \in Hold
  BY CurrentType DEF FILE_HANDLE, Hold
<1>2. r # None /\ o # None
  BY <1>1, NoneAssumption
<1>3. /\ FileHandles'[i] = r /\ \A j \in Slots : j # i => FileHandles'[j] = FileHandles[j]
      /\ holds'[i] = o /\ \A j \in Slots : j # i => holds'[j] = holds[j]
  BY DEF Tag, FilesTypeOK, Table
<1>4. r.szActualName = f /\ r.Basepage = chain[Len(chain)] /\ o.file = f /\ o.depth = Len(chain)
  BY DEF Current
<1>5. Len(chain) \in Nat /\ Len(chain) <= Len(chain)
  BY CurrentType
<1> HIDE DEF r, o
<1>6. Distinct(chain)'
  BY SoundFacts, Zenon DEF Distinct
<1>7. Held(chain, FileHandles, holds)'
  <2>1. ASSUME NEW j \in Slots PROVE HeldAt(chain, FileHandles, holds, j)'
    <3>1. CASE j = i
      BY <1>2, <1>3, <1>4, <1>5, <3>1, Zenon DEF HeldAt
    <3>2. CASE j # i
      BY <1>3, <3>2, SoundFacts, Zenon DEF HeldAt
    <3> QED
      BY <3>1, <3>2
  <2> QED
    BY <2>1, Zenon DEF Held
<1>8. Aimed(chain, FileHandles, ForcedHandles, holds, aim)'
  <2>1. ASSUME NEW s \in StdHandles
        PROVE  AimedAt(chain, FileHandles, ForcedHandles, holds, aim, s)'
    <3>1. AimedAt(chain, FileHandles, ForcedHandles, holds, aim, s)
      BY SoundFacts
    <3>2. CASE Wanted(aim[s])
      <4>1. ForcedHandles[s].Handle \in Slots /\ ForcedHandles[s].Handle # i
        BY <3>1, <3>2, SoundFacts, Zenon DEF AimedAt
      <4>2. /\ FileHandles'[ForcedHandles[s].Handle] = FileHandles[ForcedHandles[s].Handle]
            /\ holds'[ForcedHandles[s].Handle] = holds[ForcedHandles[s].Handle]
        BY <1>3, <4>1
      <4> QED
        BY <3>1, <4>2, Zenon DEF AimedAt, Wanted
    <3>3. CASE ~Wanted(aim[s])
      BY <3>1, <3>3, Zenon DEF AimedAt, Wanted
    <3> QED
      BY <3>2, <3>3
  <2> QED
    BY <2>1, Zenon DEF Aimed
<1>9. (~mounted => Idle(holds, aim))'
  BY Zenon
<1> QED
  BY <1>6, <1>7, <1>8, <1>9, SoundParts

(* Closing a file takes the redirections that lead to it along.            *)
LEMMA CloseSound ==
  ASSUME FilesTypeOK, SoundNow, NEW h, GemDOS_Close(h)
  PROVE  SoundNow'
<1> DEFINE k == Slot(h)
<1>0. /\ k \in Slots /\ mounted /\ mounted' = mounted /\ chain' = chain
      /\ FileHandles' = [FileHandles EXCEPT ![k] = None] /\ holds' = [holds EXCEPT ![k] = None]
      /\ ForcedHandles' = Unforce(LeadingTo(k)) /\ aim' = Forget(aim, LeadingTo(k))
  BY SlotType, Zenon DEF GemDOS_Close, UnforceClosed, Running
<1> HIDE DEF k
<1>1. /\ FileHandles'[k] = None /\ \A j \in Slots : j # k => FileHandles'[j] = FileHandles[j]
      /\ holds'[k] = None /\ \A j \in Slots : j # k => holds'[j] = holds[j]
  BY <1>0 DEF FilesTypeOK, Table
<1>2. \A s \in StdHandles :
        \/ ForcedHandles[s] # None /\ ForcedHandles[s].Handle = k
           /\ ForcedHandles'[s] = None /\ aim'[s] = None
        \/ (ForcedHandles[s] = None \/ ForcedHandles[s].Handle # k)
           /\ ForcedHandles'[s] = ForcedHandles[s] /\ aim'[s] = aim[s]
  <2>1. DOMAIN aim = StdHandles
    BY DEF FilesTypeOK
  <2> QED
    BY <1>0, <2>1 DEF Unforce, LeadingTo, Forget
<1>3. Distinct(chain)'
  BY <1>0, SoundFacts, Zenon DEF Distinct
<1>4. Held(chain, FileHandles, holds)'
  <2>1. ASSUME NEW j \in Slots PROVE HeldAt(chain, FileHandles, holds, j)'
    <3>1. CASE j = k
      BY <1>1, <3>1, Zenon DEF HeldAt, Wanted
    <3>2. CASE j # k
      BY <1>0, <1>1, <3>2, SoundFacts, Zenon DEF HeldAt
    <3> QED
      BY <3>1, <3>2
  <2> QED
    BY <2>1, Zenon DEF Held
<1>5. Aimed(chain, FileHandles, ForcedHandles, holds, aim)'
  <2>1. ASSUME NEW s \in StdHandles
        PROVE  AimedAt(chain, FileHandles, ForcedHandles, holds, aim, s)'
    <3>1. AimedAt(chain, FileHandles, ForcedHandles, holds, aim, s)
      BY SoundFacts
    <3>2. CASE aim'[s] = None /\ ForcedHandles'[s] = None
      BY <3>2, Zenon DEF AimedAt, Wanted
    <3>3. CASE (ForcedHandles[s] = None \/ ForcedHandles[s].Handle # k)
               /\ ForcedHandles'[s] = ForcedHandles[s] /\ aim'[s] = aim[s]
      <4>1. CASE Wanted(aim[s])
        <5>1. ForcedHandles[s].Handle \in Slots /\ ForcedHandles[s].Handle # k
          BY <3>1, <3>3, <4>1, SoundFacts, Zenon DEF AimedAt
        <5>2. /\ FileHandles'[ForcedHandles[s].Handle] = FileHandles[ForcedHandles[s].Handle]
              /\ holds'[ForcedHandles[s].Handle] = holds[ForcedHandles[s].Handle]
          BY <1>1, <5>1
        <5> QED
          BY <1>0, <3>1, <3>3, <5>2, Zenon DEF AimedAt, Wanted
      <4>2. CASE ~Wanted(aim[s])
        BY <3>1, <3>3, <4>2, Zenon DEF AimedAt, Wanted
      <4> QED
        BY <4>1, <4>2
    <3> QED
      BY <1>2, <3>2, <3>3
  <2> QED
    BY <2>1, Zenon DEF Aimed
<1>6. (~mounted => Idle(holds, aim))'
  BY <1>0, Zenon
<1> QED
  BY <1>3, <1>4, <1>5, <1>6, SoundParts

(* Only a redirection whose maker is too far up the chain is found stale   *)
(* while somebody wants it.                                                *)
LEMMA StaleTooDeep ==
  ASSUME FilesTypeOK, SoundNow, NEW s \in StdHandles, Stale(s), Wanted(aim[s])
  PROVE  TooDeep(s)
<1>1. /\ aim[s].depth \in 1..Len(chain) /\ Len(chain) \in Nat
      /\ ForcedHandles[s].Basepage = chain[aim[s].depth]
  BY SoundFacts DEF AimedAt
<1>2. \A k \in 0..(MAX_PARENTS - 1) : k < Len(chain) => chain[Len(chain) - k] # ForcedHandles[s].Basepage
  BY Zenon DEF Stale, BasepageMatches
<1>3. MAX_PARENTS \in Nat \ {0}
  BY FilesAssumption
<1>4. Len(chain) - (Len(chain) - aim[s].depth) = aim[s].depth
  BY <1>1
<1>5. ~(Len(chain) - aim[s].depth \in 0..(MAX_PARENTS - 1))
  BY <1>1, <1>2, <1>4
<1>6. aim[s].depth <= Len(chain) - MAX_PARENTS
  BY <1>1, <1>3, <1>5
<1> QED
  BY <1>6, Zenon DEF TooDeep, Wanted

(* What a step that only redirects, or gives redirections up, has to show. *)
LEMMA RedirectSound ==
  ASSUME FilesTypeOK, SoundNow, mounted,
         mounted' = mounted, chain' = chain, FileHandles' = FileHandles, holds' = holds,
         \A s \in StdHandles : AimedAt(chain, FileHandles, ForcedHandles, holds, aim, s)'
  PROVE  SoundNow'
<1>1. Distinct(chain)'
  BY SoundFacts, Zenon DEF Distinct
<1>2. Held(chain, FileHandles, holds)'
  BY SoundFacts, Zenon DEF Held, HeldAt
<1>3. Aimed(chain, FileHandles, ForcedHandles, holds, aim)'
  BY Zenon DEF Aimed
<1>4. (~mounted => Idle(holds, aim))'
  BY Zenon
<1> QED
  BY <1>1, <1>2, <1>3, <1>4, SoundParts

(* Removing a stale redirection.                                           *)
LEMMA LookSound ==
  ASSUME FilesTypeOK, SoundNow, NEW h, GemDOS_Look(h)
  PROVE  SoundNow'
<1>0. /\ Stale(h) /\ h \in StdHandles /\ mounted /\ mounted' = mounted /\ chain' = chain
      /\ FileHandles' = FileHandles /\ holds' = holds
      /\ ForcedHandles' = WithoutStale(h) /\ aim' = AimAfterLook(h)
  BY Zenon DEF GemDOS_Look, Running, Stale, Redirected
<1>1. ForcedHandles'[h] = None /\ \A s \in StdHandles : s # h => ForcedHandles'[s] = ForcedHandles[s]
  BY <1>0 DEF WithoutStale, FilesTypeOK, Forced
<1>2. aim'[h] = None \/ (aim'[h] = aim[h] /\ ~TooDeep(h))
  BY <1>0 DEF AimAfterLook, FilesTypeOK
<1>3. \A s \in StdHandles : s # h => aim'[s] = aim[s]
  BY <1>0 DEF AimAfterLook, FilesTypeOK
<1>4. ~Wanted(aim'[h])
  BY <1>0, <1>2, StaleTooDeep DEF Wanted
<1>5. ASSUME NEW s \in StdHandles PROVE AimedAt(chain, FileHandles, ForcedHandles, holds, aim, s)'
  <2>1. CASE s = h
    BY <1>1, <1>4, <2>1, Zenon DEF AimedAt
  <2>2. CASE s # h
    BY <1>0, <1>1, <1>3, <2>2, SoundFacts, Zenon DEF AimedAt
  <2> QED
    BY <2>1, <2>2
<1> QED
  BY <1>0, <1>5, RedirectSound

(* Redirecting a standard handle.                                          *)
LEMMA ForceSound ==
  ASSUME FilesTypeOK, SoundNow, NEW a \in Handles, NEW b \in Handles, GemDOS_Force(a, b)
  PROVE  SoundNow'
<1> DEFINE std == IF a > b THEN b ELSE a
           own == IF a > b THEN a ELSE b
<1>0. mounted /\ mounted' = mounted /\ chain' = chain /\ FileHandles' = FileHandles /\ holds' = holds
  BY Zenon DEF GemDOS_Force, Running
<1>1. CASE Valid(own) /\ std \in StdHandles
  <2> DEFINE k == Slot(own)
             o == [file |-> FileHandles[k].szActualName,
                   depth |-> IF holds[k].depth = 0 THEN 0 ELSE Len(chain)]
  <2>1. /\ ForcedHandles' = [WithoutStale(own) EXCEPT ![std] = Redirect(own)]
        /\ aim' = [aim EXCEPT ![std] = o]
    BY <1>1 DEF GemDOS_Force
  <2>2. WithoutStale(own) = ForcedHandles
    BY <1>1, Zenon DEF Valid, WithoutStale
  <2>3. /\ k \in Slots /\ FileHandles[k] # None /\ FileHandles[k] \in FILE_HANDLE /\ chain # << >>
    BY <1>1, SlotType DEF Valid, GemDOS_Force, Running
  <2>4. Redirect(own) \in Redirection /\ Redirect(own).Handle = k /\ Redirect(own).Basepage = Current
    BY <2>3, CurrentType DEF Redirect, Redirection
  <2>5. o \in Hold /\ o.file = FileHandles[k].szActualName
        /\ (o.depth > 0 => o.depth = Len(chain) /\ holds[k].depth # 0)
    BY <2>3, CurrentType, FilesAssumption DEF Hold, FILE_HANDLE
  <2> HIDE DEF k, o, std, own
  <2>6. /\ ForcedHandles'[std] = Redirect(own) /\ aim'[std] = o
        /\ \A s \in StdHandles : s # std => ForcedHandles'[s] = ForcedHandles[s] /\ aim'[s] = aim[s]
    BY <1>1, <2>1, <2>2 DEF FilesTypeOK, Forced
  <2>7. ForcedHandles'[std] # None /\ aim'[std] # None
    BY <2>4, <2>5, <2>6, NoneAssumption
  <2>8. ASSUME NEW s \in StdHandles
        PROVE  AimedAt(chain, FileHandles, ForcedHandles, holds, aim, s)'
    <3>1. CASE s # std
      BY <1>0, <2>6, <3>1, SoundFacts, Zenon DEF AimedAt
    <3>2. CASE s = std /\ ~Wanted(aim'[std])
      BY <2>7, <3>2, Zenon DEF AimedAt
    <3>3. CASE s = std /\ Wanted(aim'[std])
      <4>1. o.depth = Len(chain) /\ holds[k].depth # 0
        BY <2>5, <2>6, <3>3 DEF Wanted
      <4>2. Wanted(holds[k]) /\ holds[k].depth <= Len(chain)
        <5>1. holds[k] # None
          BY <2>3, SoundFacts, Zenon DEF HeldAt
        <5>2. holds[k].depth \in Nat
          BY <2>3, <5>1, FilesAssumption DEF FilesTypeOK, Hold
        <5>3. Wanted(holds[k])
          BY <4>1, <5>1, <5>2 DEF Wanted
        <5> QED
          BY <2>3, <5>3, SoundFacts DEF HeldAt
      <4>3. Len(chain) <= Len(chain) /\ Redirect(own).Basepage = chain[Len(chain)]
        BY <2>3, <2>4, CurrentType DEF Current
      <4> QED
        BY <1>0, <2>3, <2>4, <2>5, <2>6, <2>7, <3>3, <4>1, <4>2, <4>3, Zenon DEF AimedAt
    <3> QED
      BY <3>1, <3>2, <3>3
  <2> QED
    BY <1>0, <2>8, RedirectSound
<1>2. CASE ~(Valid(own) /\ std \in StdHandles)
  <2>1. ForcedHandles' = WithoutStale(own) /\ aim' = Unwanted(aim, {a, b})
    BY <1>2 DEF GemDOS_Force
  <2>2. own \in {a, b}
    OBVIOUS
  <2> HIDE DEF std, own
  <2>3. \A s \in StdHandles :
          /\ ForcedHandles'[s] = ForcedHandles[s] \/ (s = own /\ ForcedHandles'[s] = None)
          /\ aim'[s] = aim[s] \/ (aim[s] # None /\ aim'[s] = [aim[s] EXCEPT !.depth = 0])
          /\ s \in {a, b} /\ aim[s] # None => aim'[s] = [aim[s] EXCEPT !.depth = 0]
    BY <2>1 DEF WithoutStale, Unwanted, FilesTypeOK, Forced
  <2>4. \A s \in StdHandles : aim[s] # None =>
          LET o == [aim[s] EXCEPT !.depth = 0] IN o # None /\ ~Wanted(o)
    <3>1. ASSUME NEW e \in Hold PROVE [e EXCEPT !.depth = 0] \in Hold /\ [e EXCEPT !.depth = 0].depth = 0
      BY FilesAssumption DEF Hold
    <3>2. \A s \in StdHandles : aim[s] # None => aim[s] \in Hold
      BY DEF FilesTypeOK
    <3> QED
      BY <3>1, <3>2, NoneAssumption DEF Wanted
  <2>5. ASSUME NEW s \in StdHandles
        PROVE  AimedAt(chain, FileHandles, ForcedHandles, holds, aim, s)'
    <3>1. AimedAt(chain, FileHandles, ForcedHandles, holds, aim, s)
      BY SoundFacts
    <3>2. aim'[s] = None => aim[s] = None
      BY <2>3, <2>4, Zenon
    <3>3. aim'[s] = None => ForcedHandles'[s] = None
      BY <2>3, <3>1, <3>2, Zenon DEF AimedAt
    <3>4. Wanted(aim'[s]) => aim'[s] = aim[s] /\ ForcedHandles'[s] = ForcedHandles[s]
      BY <2>2, <2>3, <2>4, Zenon DEF Wanted
    <3> QED
      BY <1>0, <3>1, <3>3, <3>4, Zenon DEF AimedAt
  <2> QED
    BY <1>0, <2>5, RedirectSound
<1> QED
  BY <1>1, <1>2

(* Nobody who runs stops when the chain grows.                             *)
LEMMA GrowSound ==
  ASSUME FilesTypeOK, SoundNow, Distinct(chain)', Len(chain') \in Nat, Len(chain') >= Len(chain),
         \A k \in 1..Len(chain) : chain'[k] = chain[k],
         mounted' = mounted, FileHandles' = FileHandles, ForcedHandles' = ForcedHandles,
         holds' = holds, aim' = aim
  PROVE  SoundNow'
<1>1. \A k \in 1..Len(chain) : k <= Len(chain')
  BY SoundFacts
<1>2. Held(chain, FileHandles, holds)'
  <2>1. ASSUME NEW i \in Slots PROVE HeldAt(chain, FileHandles, holds, i)'
    BY <1>1, SoundFacts, Zenon DEF HeldAt
  <2> QED
    BY <2>1, Zenon DEF Held
<1>3. Aimed(chain, FileHandles, ForcedHandles, holds, aim)'
  <2>1. ASSUME NEW s \in StdHandles PROVE AimedAt(chain, FileHandles, ForcedHandles, holds, aim, s)'
    BY <1>1, SoundFacts, Zenon DEF AimedAt
  <2> QED
    BY <2>1, Zenon DEF Aimed
<1>4. (~mounted => Idle(holds, aim))'
  BY Zenon DEF SoundNow, Idle, Wanted
<1> QED
  BY <1>2, <1>3, <1>4, SoundParts

(* A program starts another.                                               *)
LEMMA PexecSound ==
  ASSUME FilesTypeOK, SoundNow, NEW b \in Basepages, Pexec(b)
  PROVE  SoundNow'
<1>1. chain \in Seq(Basepages) /\ Len(chain) \in Nat
  BY LenProperties DEF FilesTypeOK, Chains
<1>2. chain' = Append(chain, b) /\ \A k \in 1..Len(chain) : chain[k] # b
  BY Zenon DEF Pexec
<1>3. /\ Len(chain') = Len(chain) + 1 /\ chain'[Len(chain) + 1] = b
      /\ \A k \in 1..Len(chain) : chain'[k] = chain[k]
  BY <1>1, <1>2
<1>4. Distinct(chain)'
  <2>1. Distinct(chain)
    BY SoundFacts
  <2>2. ASSUME NEW j \in 1..(Len(chain) + 1), NEW k \in 1..(Len(chain) + 1), chain'[j] = chain'[k]
        PROVE  j = k
    <3>1. \A n \in 1..(Len(chain) + 1) : n \in 1..Len(chain) \/ n = Len(chain) + 1
      BY <1>1
    <3> QED
      BY <1>2, <1>3, <2>1, <2>2, <3>1 DEF Distinct
  <2> QED
    BY <1>3, <2>2 DEF Distinct
<1>5. /\ mounted' = mounted /\ FileHandles' = FileHandles /\ ForcedHandles' = ForcedHandles
      /\ holds' = holds /\ aim' = aim
  BY Zenon DEF Pexec
<1>6. Len(chain') \in Nat /\ Len(chain') >= Len(chain)
  BY <1>1, <1>3
<1> QED
  BY <1>3, <1>4, <1>5, <1>6, GrowSound, Zenon

(* The first program starts.                                               *)
LEMMA BootSound == ASSUME FilesTypeOK, SoundNow, GemDOS_Boot PROVE SoundNow'
<1>1. PICK b \in Basepages : chain' = << b >>
  BY Zenon DEF GemDOS_Boot
<1>2. chain = << >> /\ Len(chain) = 0 /\ Len(chain') = 1
  BY <1>1 DEF GemDOS_Boot
<1>3. Distinct(chain)'
  BY <1>2 DEF Distinct
<1>4. Len(chain') \in Nat /\ Len(chain') >= Len(chain) /\ \A k \in 1..Len(chain) : chain'[k] = chain[k]
  BY <1>2
<1> QED
  BY <1>3, <1>4, GrowSound, Zenon DEF GemDOS_Boot

(* What a program that ends leaves behind.  Depths are of programs that    *)
(* run; what belongs to the last of them is closed, the rest is not its.   *)
LEMMA PtermSound == ASSUME FilesTypeOK, SoundNow, GemDOS_Pterm PROVE SoundNow'
<1> DEFINE n == Len(chain)
<1>1. n \in Nat /\ n > 1 /\ chain # << >>
  BY SoundFacts DEF GemDOS_Pterm
<1>2. /\ Len(chain') = n - 1 /\ \A k \in 1..(n - 1) : chain'[k] = chain[k]
  <2>1. \A k \in 1..(n - 1) : chain[k] \in Basepages
    BY <1>1, CurrentType
  <2>2. chain' = SubSeq(chain, 1, n - 1)
    BY Zenon DEF GemDOS_Pterm
  <2> QED
    BY <1>1, <2>1, <2>2, SubSeqProperties
<1>3. Current = chain[n]
  BY DEF Current
<1> HIDE DEF n
<1>4. \A k \in 1..n : k = n \/ (k \in 1..(n - 1) /\ k <= Len(chain') /\ chain[k] # Current)
  <2>1. Distinct(chain) /\ n \in 1..Len(chain) /\ Len(chain) = n
    BY <1>1, SoundFacts DEF n
  <2>2. \A k \in 1..n : k # n => k \in 1..(n - 1) /\ k <= Len(chain')
    BY <1>1, <1>2
  <2> QED
    BY <1>3, <2>1, <2>2 DEF Distinct
<1>5. /\ \A i \in Slots : Wanted(holds[i]) => holds[i].depth \in 1..n
      /\ \A s \in StdHandles : Wanted(aim[s]) => aim[s].depth \in 1..n
  BY SoundFacts DEF n
<1>6. /\ holds' = Forget(holds, {i \in Slots : holds[i] # None /\ holds[i].depth = n})
      /\ aim' = Forget(aim, {s \in StdHandles : aim[s] # None /\ aim[s].depth = n})
      /\ mounted' = mounted
  BY Zenon DEF GemDOS_Pterm, n
<1>7. /\ \A i \in Slots : \/ holds[i] # None /\ holds[i].depth = n /\ holds'[i] = None
                          \/ (holds[i] = None \/ holds[i].depth # n) /\ holds'[i] = holds[i]
      /\ \A s \in StdHandles : \/ aim[s] # None /\ aim[s].depth = n /\ aim'[s] = None
                               \/ (aim[s] = None \/ aim[s].depth # n) /\ aim'[s] = aim[s]
  BY <1>6 DEF FilesTypeOK, Forget
<1>8. Distinct(chain)'
  <2>1. Distinct(chain) /\ Len(chain) = n
    BY SoundFacts DEF n
  <2>2. \A k \in 1..(n - 1) : k \in 1..n
    BY <1>1
  <2> QED
    BY <1>2, <2>1, <2>2 DEF Distinct
<1>9. (~mounted => Idle(holds, aim))'
  BY <1>6, <1>7, Zenon DEF SoundNow, Idle, Wanted
<1>10. CASE mounted
  <2>1. /\ \A i \in Slots : FileHandles'[i] = IF OpenedBy(i) THEN None ELSE FileHandles[i]
        /\ \A s \in StdHandles : ForcedHandles'[s] =
             IF ForcedHandles[s] # None /\ ForcedHandles[s].Basepage = Current
               THEN None ELSE ForcedHandles[s]
    <3>1. GemDOS_TerminateClose
      BY <1>10, Zenon DEF GemDOS_Pterm
    <3> QED
      BY <3>1 DEF GemDOS_TerminateClose, CloseFileHandles, Unforce
  <2>2. ASSUME NEW i \in Slots, Wanted(holds[i])
        PROVE  \/ holds[i].depth = n /\ OpenedBy(i) /\ holds'[i] = None /\ FileHandles'[i] = None
               \/ /\ holds[i].depth # n /\ holds'[i] = holds[i] /\ FileHandles'[i] = FileHandles[i]
                  /\ holds[i].depth <= Len(chain') /\ chain'[holds[i].depth] = chain[holds[i].depth]
    <3>1. FileHandles[i] # None /\ FileHandles[i].Basepage = chain[holds[i].depth] /\ holds[i].depth \in 1..n
      BY <1>5, <2>2, SoundFacts, Zenon DEF HeldAt
    <3>2. CASE holds[i].depth = n
      <4>1. OpenedBy(i)
        BY <1>3, <3>1, <3>2, Zenon DEF OpenedBy
      <4>2. FileHandles'[i] = None
        BY <2>1, <4>1, Zenon
      <4>3. holds'[i] = None
        BY <1>7, <2>2, <3>2, Zenon DEF Wanted
      <4> QED
        BY <3>2, <4>1, <4>2, <4>3
    <3>3. CASE holds[i].depth # n
      <4> DEFINE d == holds[i].depth
      <4>1. d \in 1..(n - 1) /\ d <= Len(chain') /\ chain[d] # Current
        BY <1>4, <3>1, <3>3, Zenon
      <4>2. ~OpenedBy(i)
        BY <3>1, <4>1, Zenon DEF OpenedBy
      <4>3. FileHandles'[i] = FileHandles[i]
        BY <2>1, <4>2, Zenon
      <4>4. holds'[i] = holds[i]
        BY <1>7, <3>3, Zenon
      <4>5. chain'[d] = chain[d]
        BY <1>2, <4>1, Zenon
      <4> QED
        BY <3>3, <4>1, <4>3, <4>4, <4>5
    <3> QED
      BY <3>2, <3>3
  <2>3. Held(chain, FileHandles, holds)'
    <3>1. ASSUME NEW i \in Slots PROVE HeldAt(chain, FileHandles, holds, i)'
      <4>1. HeldAt(chain, FileHandles, holds, i)
        BY SoundFacts
      <4>2. CASE Wanted(holds[i])
        BY <2>2, <4>1, <4>2, Zenon DEF HeldAt, Wanted
      <4>3. CASE ~Wanted(holds[i])
        <5>1. holds'[i] = holds[i]
          <6>1. holds[i] # None => holds[i].depth # n
            BY <1>1, <4>3 DEF Wanted
          <6> QED
            BY <1>7, <6>1
        <5>2. FileHandles'[i] # None => FileHandles[i] # None
          BY <2>1, Zenon
        <5> QED
          BY <4>1, <4>3, <5>1, <5>2, Zenon DEF HeldAt
      <4> QED
        BY <4>2, <4>3
    <3> QED
      BY <3>1, Zenon DEF Held
  <2>4. Aimed(chain, FileHandles, ForcedHandles, holds, aim)'
    <3>1. ASSUME NEW s \in StdHandles
          PROVE  AimedAt(chain, FileHandles, ForcedHandles, holds, aim, s)'
      <4>1. AimedAt(chain, FileHandles, ForcedHandles, holds, aim, s)
        BY SoundFacts
      <4>2. CASE ~Wanted(aim[s])
        <5>1. aim'[s] = aim[s]
          <6>1. aim[s] # None => aim[s].depth # n
            BY <1>1, <4>2 DEF Wanted
          <6> QED
            BY <1>7, <6>1
        <5>2. ForcedHandles'[s] # None => ForcedHandles[s] # None
          BY <2>1, Zenon
        <5> QED
          BY <4>1, <4>2, <5>1, <5>2, Zenon DEF AimedAt
      <4>3. CASE Wanted(aim[s]) /\ aim[s].depth = n
        <5>1. aim'[s] = None
          BY <1>7, <4>3, Zenon
        <5>2. ForcedHandles'[s] = None
          BY <1>3, <2>1, <4>1, <4>3, Zenon DEF AimedAt
        <5> QED
          BY <5>1, <5>2, Zenon DEF AimedAt, Wanted
      <4>4. CASE Wanted(aim[s]) /\ aim[s].depth # n
        <5> DEFINE k == ForcedHandles[s].Handle
        <5>1. /\ ForcedHandles[s] # None /\ k \in Slots /\ Wanted(holds[k])
              /\ holds[k].depth <= aim[s].depth /\ aim[s].depth \in 1..n /\ holds[k].depth \in 1..n
          BY <1>5, <4>1, <4>4, SoundFacts, Zenon DEF AimedAt
        <5>2. aim'[s] = aim[s] /\ ForcedHandles'[s] = ForcedHandles[s]
              /\ aim[s].depth <= Len(chain') /\ chain'[aim[s].depth] = chain[aim[s].depth]
          BY <1>2, <1>4, <1>7, <2>1, <4>1, <4>4, <5>1, Zenon DEF AimedAt
        <5>3. holds[k].depth # n
          BY <1>1, <4>4, <5>1
        <5>4. holds'[k] = holds[k] /\ FileHandles'[k] = FileHandles[k]
          BY <2>2, <5>1, <5>3, Zenon
        <5> QED
          BY <4>1, <4>4, <5>1, <5>2, <5>4, Zenon DEF AimedAt
      <4> QED
        BY <4>2, <4>3, <4>4
    <3> QED
      BY <3>1, Zenon DEF Aimed
  <2> QED
    BY <1>8, <1>9, <2>3, <2>4, SoundParts
<1>11. CASE ~mounted
  <2>1. FileHandles' = FileHandles /\ ForcedHandles' = ForcedHandles
    BY <1>11, Zenon DEF GemDOS_Pterm
  <2>2. Idle(holds, aim)
    BY <1>11, Zenon DEF SoundNow
  <2>3. \A i \in Slots : holds'[i] = holds[i] /\ ~Wanted(holds[i])
    <3>1. \A i \in Slots : holds[i] # None => holds[i].depth # n
      BY <1>1, <2>2 DEF Idle, Wanted
    <3> QED
      BY <1>7, <2>2, <3>1 DEF Idle
  <2>4. \A s \in StdHandles : aim'[s] = aim[s] /\ ~Wanted(aim[s])
    <3>1. \A s \in StdHandles : aim[s] # None => aim[s].depth # n
      BY <1>1, <2>2 DEF Idle, Wanted
    <3> QED
      BY <1>7, <2>2, <3>1 DEF Idle
  <2>5. Held(chain, FileHandles, holds)'
    BY <2>1, <2>3, SoundFacts, Zenon DEF Held, HeldAt
  <2>6. Aimed(chain, FileHandles, ForcedHandles, holds, aim)'
    BY <2>1, <2>4, SoundFacts, Zenon DEF Aimed, AimedAt
  <2> QED
    BY <1>8, <1>9, <2>5, <2>6, SoundParts
<1> QED
  BY <1>10, <1>11

(* A reset: nobody runs, and nothing is wanted any more.                   *)
LEMMA GoneSound ==
  ASSUME FilesTypeOK, SoundNow, chain' = << >>, ProgramsGone,
         FileHandles' = FileHandles, ForcedHandles' = ForcedHandles
  PROVE  SoundNow'
<1>1. \A e \in Hold : [e EXCEPT !.depth = 0] \in Hold /\ [e EXCEPT !.depth = 0].depth = 0
  BY FilesAssumption DEF Hold
<1>2. /\ \A i \in Slots : (holds'[i] = None <=> holds[i] = None) /\ ~Wanted(holds'[i])
      /\ \A s \in StdHandles : (aim'[s] = None <=> aim[s] = None) /\ ~Wanted(aim'[s])
  BY <1>1, NoneAssumption DEF ProgramsGone, Unwanted, Wanted, FilesTypeOK
<1>3. Distinct(chain)'
  BY DEF Distinct
<1>4. Held(chain, FileHandles, holds)'
  BY <1>2, SoundFacts, Zenon DEF Held, HeldAt
<1>5. Aimed(chain, FileHandles, ForcedHandles, holds, aim)'
  BY <1>2, SoundFacts, Zenon DEF Aimed, AimedAt
<1>6. (~mounted => Idle(holds, aim))'
  BY <1>2, Zenon DEF Idle
<1> QED
  BY <1>3, <1>4, <1>5, <1>6, SoundParts

(* Mounting drives: nothing is open.                                       *)
LEMMA InitDrivesSound == ASSUME FilesTypeOK, SoundNow, GemDOS_InitDrives PROVE SoundNow'
<1>1. /\ chain' = chain /\ mounted' = TRUE /\ holds' = NoHandles /\ aim' = Unforced
      /\ FileHandles' = NoHandles /\ ForcedHandles' = Unforced
  BY Zenon DEF GemDOS_InitDrives, GemDOS_ClearAllFileHandles
<1>2. /\ \A i \in Slots : holds'[i] = None /\ FileHandles'[i] = None
      /\ \A s \in StdHandles : aim'[s] = None /\ ForcedHandles'[s] = None
  BY <1>1 DEF NoHandles, Unforced
<1>3. Distinct(chain)'
  BY <1>1, SoundFacts, Zenon DEF Distinct
<1>4. Held(chain, FileHandles, holds)'
  BY <1>2, Zenon DEF Held, HeldAt, Wanted
<1>5. Aimed(chain, FileHandles, ForcedHandles, holds, aim)'
  BY <1>2, Zenon DEF Aimed, AimedAt, Wanted
<1>6. (~mounted => Idle(holds, aim))'
  BY <1>1, Zenon
<1> QED
  BY <1>3, <1>4, <1>5, <1>6, SoundParts

(* A snapshot is as sound as the machine it was taken of.                  *)
LEMMA SaveSound == ASSUME SoundNow, Save PROVE SoundSaved'
<1>1. /\ saved'.chain = chain /\ saved'.FileHandles = FileHandles
      /\ saved'.ForcedHandles = ForcedHandles /\ saved'.holds = holds /\ saved'.aim = aim
  BY DEF Save
<1>2. saved'.mounted = mounted
  BY Zenon DEF Save
<1>3. Sound(saved'.chain, saved'.FileHandles, saved'.ForcedHandles, saved'.holds, saved'.aim)
  BY <1>1, Zenon DEF SoundNow
<1>4. ~saved'.mounted => Idle(saved'.holds, saved'.aim)
  BY <1>1, <1>2, Zenon DEF SoundNow
<1> QED
  BY <1>3, <1>4, Zenon DEF SoundSaved

(* The machine that a snapshot is restored into: of what was open the      *)
(* files that are gone are missing, with the redirections to them.         *)
LEMMA RestoreSound == ASSUME FilesTypeOK, SoundSaved, Restore PROVE SoundNow'
<1> DEFINE ch == saved.chain
           fh == saved.FileHandles
           ff == saved.ForcedHandles
           ho == saved.holds
           ai == saved.aim
<1>1. saved \in Snapshot /\ saved # None
  BY Zenon DEF FilesTypeOK, Restore
<1>2. /\ Distinct(ch) /\ \A i \in Slots : HeldAt(ch, fh, ho, i)
      /\ \A s \in StdHandles : AimedAt(ch, fh, ff, ho, ai, s)
      /\ ~saved.mounted => Idle(ho, ai)
  BY <1>1, Zenon DEF SoundSaved, Sound, Held, Aimed
<1>3. /\ fh \in Table /\ ff \in Forced /\ ho \in Holds /\ ai \in Aims
  BY <1>1 DEF Snapshot, Holds, Aims
<1>4. chain' = ch /\ ForcedHandles' = ff
  BY Zenon DEF Restore
<1>5. \A i \in Slots :
        \/ fh[i] # None /\ Lost(fh[i]) /\ FileHandles'[i] = None /\ holds'[i] = None
        \/ ~Lost(fh[i]) /\ FileHandles'[i] = fh[i] /\ holds'[i] = ho[i]
  <2>1. /\ FileHandles' = [i \in Slots |-> restore_file_handle_info(fh[i])]
        /\ holds' = [i \in Slots |-> IF Lost(fh[i]) THEN None ELSE ho[i]]
    BY Zenon DEF Restore
  <2>2. \A i \in Slots : Lost(fh[i]) => fh[i] # None
    BY Zenon DEF Lost
  <2> HIDE DEF fh, ho
  <2> QED
    BY <2>1, <2>2 DEF restore_file_handle_info
<1>6. \A s \in StdHandles :
        /\ aim'[s] = None <=> ai[s] = None
        /\ Wanted(aim'[s]) => aim'[s] = ai[s] /\ (ff[s] # None => ~Lost(fh[ff[s].Handle]))
  <2>1. aim' = Unwanted(ai, {s \in StdHandles : ff[s] # None /\ Lost(fh[ff[s].Handle])})
    BY Zenon DEF Restore
  <2> HIDE DEF fh, ff, ai
  <2>2. \A e \in Hold : [e EXCEPT !.depth = 0] \in Hold /\ [e EXCEPT !.depth = 0].depth = 0
    BY FilesAssumption DEF Hold
  <2> QED
    BY <1>3, <2>1, <2>2, NoneAssumption DEF Unwanted, Wanted, Aims
<1>7. \A s \in StdHandles : ff[s] # None => ff[s].Handle \in Slots
  BY <1>3 DEF Forced, Redirection
<1> HIDE DEF ch, fh, ff, ho, ai
<1>8. Distinct(chain)'
  BY <1>2, <1>4, Zenon DEF Distinct
<1>9. Held(chain, FileHandles, holds)'
  <2>1. ASSUME NEW i \in Slots PROVE HeldAt(chain, FileHandles, holds, i)'
    <3>1. CASE FileHandles'[i] = None /\ holds'[i] = None
      BY <3>1, Zenon DEF HeldAt, Wanted
    <3>2. CASE FileHandles'[i] = fh[i] /\ holds'[i] = ho[i]
      BY <1>2, <1>4, <3>2, Zenon DEF HeldAt
    <3> QED
      BY <1>5, <3>1, <3>2
  <2> QED
    BY <2>1, Zenon DEF Held
<1>10. Aimed(chain, FileHandles, ForcedHandles, holds, aim)'
  <2>1. ASSUME NEW s \in StdHandles
        PROVE  AimedAt(chain, FileHandles, ForcedHandles, holds, aim, s)'
    <3>1. AimedAt(ch, fh, ff, ho, ai, s)
      BY <1>2
    <3>2. CASE ~Wanted(aim'[s])
      BY <1>4, <1>6, <3>1, <3>2, Zenon DEF AimedAt
    <3>3. CASE Wanted(aim'[s])
      <4>1. aim'[s] = ai[s] /\ ff[s] # None /\ ff[s].Handle \in Slots /\ ~Lost(fh[ff[s].Handle])
        BY <1>6, <1>7, <3>1, <3>3, Zenon DEF AimedAt
      <4>2. FileHandles'[ff[s].Handle] = fh[ff[s].Handle] /\ holds'[ff[s].Handle] = ho[ff[s].Handle]
        BY <1>5, <4>1, Zenon
      <4> QED
        BY <1>4, <3>1, <3>3, <4>1, <4>2, Zenon DEF AimedAt
    <3> QED
      BY <3>2, <3>3
  <2> QED
    BY <2>1, Zenon DEF Aimed
<1>11. (~mounted => Idle(holds, aim))'
  <2>1. ASSUME ~mounted' PROVE Idle(holds, aim)'
    <3>1. Idle(ho, ai)
      BY <1>2, <2>1, Zenon DEF Restore
    <3>2. \A i \in Slots : ~Wanted(holds'[i])
      BY <1>5, <3>1, Zenon DEF Idle, Wanted
    <3>3. \A s \in StdHandles : ~Wanted(aim'[s])
      BY <1>6, <3>1, Zenon DEF Idle
    <3> QED
      BY <3>2, <3>3, Zenon DEF Idle
  <2> QED
    BY <2>1
<1> QED
  BY <1>8, <1>9, <1>10, <1>11, SoundParts

(* Every step of the whole keeps the tables and the snapshot sound.        *)
LEMMA NextSound ==
  FilesTypeOK /\ SoundNow /\ SoundSaved /\ [Next]_vars => SoundNow' /\ SoundSaved'
<1> SUFFICES ASSUME FilesTypeOK, SoundNow, SoundSaved, [Next]_vars PROVE SoundNow' /\ SoundSaved'
  OBVIOUS
<1>1. CASE Program
  <2>1. ASSUME NEW f \in Files, GemDOS_Create(f) \/ GemDOS_Open(f) PROVE SoundNow' /\ saved' = saved
    <3>1. \E i \in Slots, mode \in OpenModes \union {"wb+"} : IsFreeFileHandle(i) /\ Tag(i, f, mode)
      BY <2>1 DEF GemDOS_Create, GemDOS_Open
    <3>2. /\ chain # << >> /\ mounted /\ mounted' = mounted /\ chain' = chain
          /\ ForcedHandles' = ForcedHandles /\ aim' = aim /\ saved' = saved
      BY <2>1, Zenon DEF GemDOS_Create, GemDOS_Open, Running
    <3> QED
      BY <3>1, <3>2, OpenSound DEF IsFreeFileHandle
  <2>2. ASSUME NEW f \in Files, GemDOS_FDelete(f) PROVE SoundNow' /\ saved' = saved
    BY <2>2, SameSound, Zenon DEF GemDOS_FDelete
  <2>3. ASSUME NEW h \in Handles, GemDOS_Close(h) \/ GemDOS_Look(h) PROVE SoundNow' /\ saved' = saved
    <3>1. saved' = saved
      BY <2>3, Zenon DEF GemDOS_Close, GemDOS_Look
    <3> QED
      BY <2>3, <3>1, CloseSound, LookSound
  <2>4. ASSUME NEW h \in Handles, GemDOS_Write(h) PROVE SoundNow' /\ saved' = saved
    BY <2>4, SameSound, Zenon DEF GemDOS_Write
  <2>5. ASSUME NEW a \in Handles, NEW b \in Handles, GemDOS_Force(a, b)
        PROVE  SoundNow' /\ saved' = saved
    <3>1. saved' = saved
      BY <2>5, Zenon DEF GemDOS_Force
    <3> QED
      BY <2>5, <3>1, ForceSound
  <2>6. ASSUME NEW b \in Basepages, Pexec(b) PROVE SoundNow' /\ saved' = saved
    <3>1. saved' = saved
      BY <2>6, Zenon DEF Pexec
    <3> QED
      BY <2>6, <3>1, PexecSound
  <2>7. ASSUME GemDOS_Pterm PROVE SoundNow' /\ saved' = saved
    <3>1. saved' = saved
      BY <2>7, Zenon DEF GemDOS_Pterm
    <3> QED
      BY <2>7, <3>1, PtermSound
  <2> QED
    BY <1>1, <2>1, <2>2, <2>3, <2>4, <2>5, <2>6, <2>7, SameSaved, Zenon DEF Program
<1>2. CASE GemDOS_Reset \/ GemDOS_UnInitDrives
  BY <1>2, GoneSound, SameSaved, Zenon DEF GemDOS_Reset, GemDOS_UnInitDrives
<1>3. CASE GemDOS_Boot \/ GemDOS_InitDrives
  <2>1. saved' = saved
    BY <1>3, Zenon DEF GemDOS_Boot, GemDOS_InitDrives
  <2> QED
    BY <1>3, <2>1, BootSound, InitDrivesSound, SameSaved
<1>4. CASE Save
  <2>1. SoundNow'
    BY <1>4, SameSound, Zenon DEF Save
  <2> QED
    BY <1>4, <2>1, SaveSound
<1>5. CASE Restore
  <2>1. saved' = saved
    BY <1>5, Zenon DEF Restore
  <2> QED
    BY <1>5, <2>1, RestoreSound, SameSaved
<1>6. CASE Discard
  <2>1. SoundNow'
    BY <1>6, SameSound, Zenon DEF Discard
  <2>2. saved' = None
    BY <1>6, Zenon DEF Discard
  <2> QED
    BY <2>1, <2>2, Zenon DEF SoundSaved
<1>7. CASE UNCHANGED fileVars
  BY <1>7, SameSound, SameSaved, Zenon DEF fileVars
<1> QED
  BY <1>1, <1>2, <1>3, <1>4, <1>5, <1>6, <1>7, FilesStep DEF FilesMachine

(* In every reachable state the tables are sound.                          *)
LEMMA SoundCorrect == Spec => [](FilesTypeOK /\ SoundNow /\ SoundSaved)
<1>1. Init => SoundNow /\ SoundSaved
  BY InitSound DEF Init
<1>2. TypeOK => FilesTypeOK
  BY DEF TypeOK
<1> QED
  BY <1>1, <1>2, NextSound, GemdosTypeCorrect, PTL DEF Spec

(* What a program opened and did not close is open for it under its        *)
(* number, whichever programs start and end, and nothing else is open but  *)
(* what outlived a reset.                                                  *)
THEOREM HandlesCorrect == Spec => []HandlesLead
<1>1. FilesTypeOK /\ SoundNow => HandlesLead
  BY SoundSuffices
<1> QED
  BY <1>1, SoundCorrect, PTL

(* A redirected standard handle leads to the file it was redirected to     *)
(* while its program runs and the file is open, and afterwards to none.    *)
THEOREM RedirectionsCorrect == Spec => []StdLeads
<1>1. FilesTypeOK /\ SoundNow => StdLeads
  BY SoundSuffices
<1> QED
  BY <1>1, SoundCorrect, PTL
=============================================================================
