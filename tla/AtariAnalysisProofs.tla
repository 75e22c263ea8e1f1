------------------------- MODULE AtariAnalysisProofs -------------------------
(* What holds of the hooks for every setting, disk and number of accesses.  *)
EXTENDS AtariAnalysis, Induction, TLAPS

IsProbe(h) == h.by = "probe"

(* The probe runs for a read of drive A's boot sector, while it is active  *)
(* and not yet done, and is done once it has written.                      *)
ProbeState ==
  /\ active => at.step \in {"probing", "probed"}
  /\ at.step \in {"probing", "probed"} => active /\ at.drive = 0 /\ at.sector = Boot
  /\ at.step = "probing" => ~done
  /\ \A i \in DOMAIN happened : IsProbe(happened[i]) => done

(* While a probe may follow, the last record is that of the read, unless   *)
(* the limit keeps the probe from being recorded as well.                  *)
ReadRecorded ==
  at.step \in {"probe", "probing", "probed"} /\ MediaWanted =>
    log # <<>> /\ log[Len(log)] = Media("read", at.drive, at.sector, FALSE)

IInv == TypeOK /\ ProbeState /\ ProbeOnce /\ ReadRecorded /\ ProbeExplained

Records == MediaRecord \union MemoryRecord \union {Exception}
Sector_Access == [op : {"read", "write"}, drive : Drives, sector : Sectors,
                  by : {"guest", "probe"}]

(* What the environment may say.                                           *)
LEMMA EnvTyped ==
  ASSUME env \in Settings
  PROVE  /\ env.mediaLimit \in Nat /\ env.memoryLimit \in Nat
         /\ env.start \in 0..(Modulus - 1) /\ env.end \in 0..(Modulus - 1)
BY HooksAssumption DEF Setting

(* For windows that end at 3 or above, the comparison in 32 bits accepts   *)
(* an access if and only if all of it lies in the window.                  *)
THEOREM WindowExact ==
  ASSUME env \in Settings, env.end >= 3, NEW p \in Accesses
  PROVE  Watched(p) <=> Inside(p)
<1>1. /\ p.address \in 0..(Modulus - 1)
      /\ p.size \in {1, 2, 4}
  BY HooksAssumption
<1>2. env.end - (p.size - 1) \in 0..(Modulus - 1)
  BY <1>1, EnvTyped, HooksAssumption
<1>3. (env.end - (p.size - 1)) % Modulus = env.end - (p.size - 1)
  BY <1>2, HooksAssumption
<1> QED
  BY <1>1, <1>3, EnvTyped DEF Watched, Inside

(* A record that is appended is the last, and the others stay.             *)
LEMMA AppendLog ==
  ASSUME NEW S, NEW s \in Seq(S), NEW e \in S
  PROVE  /\ Append(s, e) \in Seq(S)
         /\ Append(s, e) # <<>>
         /\ Len(Append(s, e)) = Len(s) + 1
         /\ Append(s, e)[Len(s) + 1] = e
         /\ \A i \in 1..Len(s) : Append(s, e)[i] = s[i]
         /\ DOMAIN Append(s, e) = 1..(Len(s) + 1)
         /\ DOMAIN s = 1..Len(s)
         /\ Len(s) \in Nat
OBVIOUS

(* An access by the guest, or the first of the probe, keeps the history.   *)
LEMMA AccessKept ==
  ASSUME TypeOK, ProbeOnce, NEW op \in {"read", "write"}, NEW d \in Drives,
         NEW s \in Sectors, NEW by \in {"guest", "probe"}, Access(op, d, s, by),
         by = "probe" => \A i \in DOMAIN happened : ~IsProbe(happened[i])
  PROVE  /\ happened' \in Seq(Sector_Access)
         /\ ProbeOnce'
         /\ \A i \in DOMAIN happened' :
              IsProbe(happened'[i]) =>
                by = "probe" \/ \E j \in DOMAIN happened : IsProbe(happened[j])
<1> DEFINE new == [op |-> op, drive |-> d, sector |-> s, by |-> by]
<1>1. happened \in Seq(Sector_Access) /\ new \in Sector_Access
  BY DEF TypeOK, Sector_Access
<1>2. /\ happened' = Append(happened, new) /\ new.by = by
  BY DEF Access
<1> HIDE DEF new
<1>3. /\ happened' \in Seq(Sector_Access)
      /\ DOMAIN happened' = 1..(Len(happened) + 1)
      /\ DOMAIN happened = 1..Len(happened)
      /\ Len(happened) \in Nat
      /\ happened'[Len(happened) + 1] = new
      /\ \A i \in 1..Len(happened) : happened'[i] = happened[i]
  BY <1>1, <1>2, AppendLog
<1>4. ProbeOnce'
  BY <1>2, <1>3 DEF ProbeOnce, IsProbe
<1>5. \A i \in DOMAIN happened' :
        IsProbe(happened'[i]) =>
          by = "probe" \/ \E j \in DOMAIN happened : IsProbe(happened[j])
  BY <1>2, <1>3 DEF IsProbe
<1> QED
  BY <1>3, <1>4, <1>5

(* A record keeps the limit, the type, and what explains the probe.        *)
LEMMA RecordKept ==
  ASSUME IInv, NEW op \in {"read", "write"}, RecordFloppyIO(op),
         at.step \in Steps, UNCHANGED env,
         op = "write" /\ active => at.step = "probed"
  PROVE  /\ log' \in Seq(Records)
         /\ mediaCount' \in 0..env.mediaLimit
         /\ ProbeExplained'
         /\ MediaWanted' => MediaWanted
         /\ MediaWanted => /\ log' # <<>>
                           /\ log'[Len(log')] = Media(op, at.drive, at.sector, active)
<1> USE DEF IInv
<1>1. log \in Seq(Records) /\ mediaCount \in 0..env.mediaLimit /\ env.mediaLimit \in Nat
  BY EnvTyped DEF TypeOK, Records
<1>2. CASE ~MediaWanted
  BY <1>1, <1>2 DEF RecordFloppyIO, ProbeExplained, MediaWanted
<1>3. CASE MediaWanted
  <2> DEFINE new == Media(op, at.drive, at.sector, active)
  <2>1. at.drive \in Drives /\ at.sector \in Sectors /\ active \in BOOLEAN
    BY DEF TypeOK, Guest, Steps
  <2>2. new \in MediaRecord
    BY <2>1 DEF Media, MediaRecord
  <2>3. OfProbe(new) => op = "write" /\ active
    BY <2>1 DEF Media, OfProbe
  <2>4. log' = Append(log, new) /\ mediaCount' = mediaCount + 1
    BY <1>3 DEF RecordFloppyIO
  <2> HIDE DEF new
  <2>5. /\ log' \in Seq(Records) /\ log' # <<>>
        /\ Len(log') = Len(log) + 1
        /\ log'[Len(log) + 1] = new
        /\ \A i \in 1..Len(log) : log'[i] = log[i]
        /\ DOMAIN log' = 1..(Len(log) + 1)
        /\ DOMAIN log = 1..Len(log)
        /\ Len(log) \in Nat
    BY <1>1, <2>2, <2>4, AppendLog DEF Records
  <2>6. mediaCount' \in 0..env.mediaLimit
    BY <1>1, <1>3, <2>4 DEF MediaWanted
  <2>7. ASSUME OfProbe(new)
        PROVE  Len(log) > 0 /\ log[Len(log)] = Media("read", 0, Boot, FALSE)
    <3>1. at.step = "probed"
      BY <2>3, <2>7
    <3>2. at.drive = 0 /\ at.sector = Boot
      BY <3>1 DEF ProbeState
    <3>3. log # <<>> /\ log[Len(log)] = Media("read", 0, Boot, FALSE)
      BY <1>3, <3>1, <3>2 DEF ReadRecorded
    <3> QED
      BY <1>1, <3>3
  <2>8. ProbeExplained'
    <3> DEFINE cause == Media("read", 0, Boot, FALSE)
    <3>a. /\ OfProbe(new) => Len(log) > 0 /\ log[Len(log)] = cause
          /\ \A i \in 1..Len(log) : OfProbe(log[i]) => i > 1 /\ log[i - 1] = cause
      BY <2>5, <2>7 DEF ProbeExplained
    <3> HIDE DEF cause
    <3>0. \A i \in 1..(Len(log) + 1) : OfProbe(log'[i]) => i > 1 /\ log'[i - 1] = cause
      <4> SUFFICES ASSUME NEW i \in 1..(Len(log) + 1), OfProbe(log'[i])
                   PROVE  i > 1 /\ log'[i - 1] = cause
        OBVIOUS
      <4>1. CASE i = Len(log) + 1
        <5>1. OfProbe(new)
          BY <4>1, <2>5
        <5>2. Len(log) > 0 /\ log[Len(log)] = cause
          BY <3>a, <5>1
        <5>3. i - 1 = Len(log) /\ Len(log) \in 1..Len(log)
          BY <4>1, <5>2, <2>5
        <5>4. log'[Len(log)] = log[Len(log)]
          BY <5>3, <2>5
        <5> QED
          BY <5>2, <5>3, <5>4, <4>1, <2>5
      <4>2. CASE i \in 1..Len(log)
        <5>1. OfProbe(log[i])
          BY <4>2, <2>5
        <5>2. i > 1 /\ log[i - 1] = cause
          BY <4>2, <5>1, <3>a
        <5>3. i - 1 \in 1..Len(log)
          BY <4>2, <5>2, <2>5
        <5> QED
          BY <5>2, <5>3, <2>5
      <4> QED
        BY <4>1, <4>2, <2>5
    <3> QED
      BY <3>0, <2>5 DEF ProbeExplained, Media, cause
  <2> QED
    BY <1>3, <2>5, <2>6, <2>8 DEF new
<1> QED
  BY <1>2, <1>3

-----------------------------------------------------------------------------
LEMMA InitInv == Init => IInv
<1> SUFFICES ASSUME Init PROVE IInv
  OBVIOUS
<1>1. TypeOK
  <2>1. env \in Settings /\ env.mediaLimit \in Nat /\ env.memoryLimit \in Nat
    BY EnvTyped DEF Init
  <2>2. mediaCount \in 0..env.mediaLimit /\ memoryCount \in 0..env.memoryLimit
    BY <2>1 DEF Init
  <2>3. /\ log \in Seq(MediaRecord \union MemoryRecord \union {Exception})
        /\ happened \in Seq([op : {"read", "write"}, drive : Drives, sector : Sectors,
                             by : {"guest", "probe"}])
        /\ puts \in Seq(Accesses)
    BY DEF Init
  <2> QED
    BY <2>1, <2>2, <2>3 DEF Init, TypeOK
<1>2. ProbeState /\ ProbeOnce /\ ReadRecorded /\ ProbeExplained
  BY DEF Init, ProbeState, ProbeOnce, ReadRecorded, ProbeExplained, Guest
<1> QED
  BY <1>1, <1>2 DEF IInv

(* A record of another kind, made while the guest runs, leaves the media   *)
(* records where they are.                                                 *)
LEMMA OtherRecordInv ==
  ASSUME IInv, at = Guest, NEW e \in MemoryRecord \union {Exception},
         log' = Append(log, e), memoryCount' \in 0..env.memoryLimit,
         puts' \in Seq(Accesses),
         UNCHANGED <<env, mediaCount, done, active, at, disk, happened>>
  PROVE  IInv'
<1> USE DEF IInv
<1>1. log \in Seq(Records) /\ e \in Records
  BY DEF TypeOK, Records
<1>2. ~OfProbe(e)
  BY DEF MemoryRecord, Exception, OfProbe
<1>3. /\ log' \in Seq(Records)
      /\ log'[Len(log) + 1] = e
      /\ \A i \in 1..Len(log) : log'[i] = log[i]
      /\ DOMAIN log' = 1..(Len(log) + 1)
      /\ DOMAIN log = 1..Len(log)
      /\ Len(log) \in Nat
  BY <1>1, AppendLog
<1>4. TypeOK'
  BY <1>3 DEF TypeOK, Records
<1>5. ProbeExplained'
  <2> SUFFICES ASSUME NEW i \in DOMAIN log', OfProbe(log'[i])
               PROVE  i > 1 /\ log'[i - 1] = Media("read", 0, Boot, FALSE)
    BY DEF ProbeExplained, Media, OfProbe
  <2>1. i \in 1..Len(log)
    BY <1>2, <1>3
  <2>2. OfProbe(log[i])
    BY <2>1, <1>3
  <2>3. i > 1 /\ log[i - 1] = Media("read", 0, Boot, FALSE)
    BY <2>1, <2>2, <1>3 DEF ProbeExplained
  <2>4. i - 1 \in 1..Len(log)
    BY <2>1, <2>3, <1>3
  <2> QED
    BY <2>3, <2>4, <1>3
<1>6. ProbeState' /\ ProbeOnce' /\ ReadRecorded'
  BY DEF ProbeState, ProbeOnce, ReadRecorded, Guest
<1> QED
  BY <1>4, <1>5, <1>6

LEMMA NextInv == IInv /\ [Next]_vars => IInv'
<1> SUFFICES ASSUME IInv, [Next]_vars PROVE IInv'
  OBVIOUS
<1>a. TypeOK /\ ProbeState /\ ProbeOnce /\ ReadRecorded /\ ProbeExplained
  BY DEF IInv
<1>1. ASSUME NEW p \in Accesses, RecordMemoryWrite(p) PROVE IInv'
  <2>1. puts' \in Seq(Accesses)
    BY <1>1, <1>a DEF RecordMemoryWrite, TypeOK
  <2>2. at = Guest
    BY <1>1 DEF RecordMemoryWrite, GuestRuns
  <2>3. CASE env.opens /\ memoryCount < env.memoryLimit /\ Watched(p)
    <3>1. memoryCount' \in 0..env.memoryLimit
      BY <1>1, <1>a, <2>3, EnvTyped DEF RecordMemoryWrite, TypeOK
    <3>2. [type |-> "memory", put |-> p] \in MemoryRecord
      BY DEF MemoryRecord
    <3> QED
      BY <1>1, <2>1, <2>2, <2>3, <3>1, <3>2, OtherRecordInv DEF RecordMemoryWrite
  <2>4. CASE ~(env.opens /\ memoryCount < env.memoryLimit /\ Watched(p))
    BY <1>1, <1>a, <2>1, <2>4 DEF RecordMemoryWrite, IInv, TypeOK, ProbeState, ProbeOnce,
       ReadRecorded, ProbeExplained, MediaWanted
  <2> QED
    BY <2>3, <2>4
<1>2. ASSUME RecordException PROVE IInv'
  BY <1>2, <1>a, OtherRecordInv DEF RecordException, GuestRuns, TypeOK
<1>3. ASSUME NEW d \in Drives, NEW s \in Sectors, ReadSectors(d, s) \/ WriteSectors(d, s)
      PROVE  IInv'
  <2>1. PICK op \in {"read", "write"} : Access(op, d, s, "guest")
    BY <1>3 DEF ReadSectors, WriteSectors
  <2>2. at = Guest /\ UNCHANGED <<env, hooks, disk, puts>>
    BY <1>3 DEF ReadSectors, WriteSectors, GuestRuns
  <2>3. PICK step \in {"read", "written"} : at' = Wrapper(step, d, s)
    BY <1>3 DEF ReadSectors, WriteSectors
  <2>4. /\ happened' \in Seq(Sector_Access) /\ ProbeOnce'
        /\ \A i \in DOMAIN happened' :
             IsProbe(happened'[i]) => \E j \in DOMAIN happened : IsProbe(happened[j])
    BY <2>1, <1>a, AccessKept
  <2>5. TypeOK'
    BY <2>2, <2>3, <2>4, <1>a DEF TypeOK, Sector_Access, Wrapper, Steps, hooks
  <2>6. ProbeState'
    BY <2>2, <2>3, <2>4, <1>a DEF ProbeState, Wrapper, Guest, hooks
  <2>7. ReadRecorded' /\ ProbeExplained'
    BY <2>2, <2>3, <1>a DEF ReadRecorded, ProbeExplained, Wrapper, hooks
  <2> QED
    BY <2>4, <2>5, <2>6, <2>7 DEF IInv
<1>4. ASSUME RecordRead PROVE IInv'
  <2>1. /\ at.step = "read" /\ RecordFloppyIO("read") /\ at' = [at EXCEPT !.step = "probe"]
        /\ UNCHANGED <<env, memoryCount, done, active, disk, happened, puts>>
    BY <1>4 DEF RecordRead
  <2>2. /\ log' \in Seq(Records) /\ mediaCount' \in 0..env.mediaLimit /\ ProbeExplained'
        /\ MediaWanted' => MediaWanted
        /\ MediaWanted => log' # <<>> /\ log'[Len(log')] = Media("read", at.drive, at.sector, active)
    BY <2>1, RecordKept DEF Steps
  <2>3. /\ at \in [step : Steps, drive : Drives, sector : Sectors]
        /\ ~active
    BY <2>1, <1>a DEF TypeOK, Guest, ProbeState
  <2>4. /\ at' \in [step : Steps, drive : Drives, sector : Sectors]
        /\ at'.step = "probe" /\ at'.drive = at.drive /\ at'.sector = at.sector
    BY <2>1, <2>3 DEF Steps
  <2>5. TypeOK'
    BY <2>1, <2>2, <2>4, <1>a DEF TypeOK, Records
  <2>6. ReadRecorded'
    <3>1. active = FALSE
      BY <2>3, <1>a DEF TypeOK
    <3> QED
      BY <2>2, <2>4, <3>1 DEF ReadRecorded, Media
  <2>7. ProbeState' /\ ProbeOnce'
    BY <2>1, <2>3, <2>4, <1>a DEF ProbeState, ProbeOnce
  <2> QED
    BY <2>2, <2>5, <2>6, <2>7 DEF IInv
<1>5. ASSUME StartProbe \/ NoProbe \/ ProbeFails PROVE IInv'
  <2>1. /\ at \in [step : Steps, drive : Drives, sector : Sectors]
        /\ UNCHANGED <<env, log, memoryCount, mediaCount, done, disk, happened, puts>>
    BY <1>5, <1>a DEF StartProbe, NoProbe, ProbeFails, TypeOK, Guest, hooks
  <2>2. CASE StartProbe
    <3>1. /\ at.step = "probe" /\ at'.step = "probing"
          /\ at'.drive = at.drive /\ at'.sector = at.sector
          /\ at' \in [step : Steps, drive : Drives, sector : Sectors]
          /\ active' = TRUE /\ ~done /\ at.drive = 0 /\ at.sector = Boot
      BY <2>1, <2>2 DEF StartProbe, ProbeWanted, Steps
    <3>2. TypeOK'
      BY <2>1, <3>1, <1>a DEF TypeOK
    <3>3. ProbeState' /\ ProbeOnce' /\ ProbeExplained'
      BY <2>1, <3>1, <1>a DEF ProbeState, ProbeOnce, ProbeExplained
    <3>4. ReadRecorded'
      BY <2>1, <3>1, <1>a DEF ReadRecorded, MediaWanted
    <3> QED
      BY <3>2, <3>3, <3>4 DEF IInv
  <2>3. CASE NoProbe \/ ProbeFails
    <3>1. at' = Guest /\ active' = FALSE
      BY <2>3, <1>a DEF NoProbe, ProbeFails, hooks, ProbeState, TypeOK
    <3>2. TypeOK'
      BY <2>1, <3>1, <1>a DEF TypeOK
    <3>3. ProbeState' /\ ProbeOnce' /\ ProbeExplained' /\ ReadRecorded'
      BY <2>1, <3>1, <1>a DEF ProbeState, ProbeOnce, ProbeExplained, ReadRecorded, Guest
    <3> QED
      BY <3>2, <3>3 DEF IInv
  <2> QED
    BY <1>5, <2>2, <2>3
<1>6. ASSUME ProbeWritten PROVE IInv'
  <2>1. /\ at.step = "probing" /\ Access("write", at.drive, Boot, "probe")
        /\ done' = TRUE /\ at' = [at EXCEPT !.step = "probed"]
        /\ UNCHANGED <<env, log, memoryCount, mediaCount, active, disk, puts>>
    BY <1>6 DEF ProbeWritten
  <2>2. /\ at \in [step : Steps, drive : Drives, sector : Sectors]
        /\ active /\ ~done /\ at.drive = 0 /\ at.sector = Boot
        /\ \A i \in DOMAIN happened : ~IsProbe(happened[i])
    BY <2>1, <1>a DEF TypeOK, Guest, ProbeState
  <2>3. /\ at' \in [step : Steps, drive : Drives, sector : Sectors]
        /\ at'.step = "probed" /\ at'.drive = at.drive /\ at'.sector = at.sector
    BY <2>1, <2>2 DEF Steps
  <2>4. /\ happened' \in Seq(Sector_Access) /\ ProbeOnce'
    BY <2>1, <2>2, <1>a, HooksAssumption, AccessKept
  <2>5. TypeOK'
    BY <2>1, <2>3, <2>4, <1>a DEF TypeOK, Sector_Access
  <2>6. ProbeState'
    BY <2>1, <2>2, <2>3 DEF ProbeState
  <2>7. ReadRecorded' /\ ProbeExplained'
    BY <2>1, <2>3, <1>a DEF ReadRecorded, ProbeExplained, MediaWanted
  <2> QED
    BY <2>4, <2>5, <2>6, <2>7 DEF IInv
<1>7. ASSUME RecordProbe \/ RecordWrite PROVE IInv'
  <2>1. /\ at.step \in {"probed", "written"} /\ RecordFloppyIO("write")
        /\ at' = Guest /\ active' = FALSE
        /\ UNCHANGED <<env, memoryCount, done, disk, happened, puts>>
    BY <1>7, <1>a DEF RecordProbe, RecordWrite, ProbeState, TypeOK
  <2>2. /\ log' \in Seq(Records) /\ mediaCount' \in 0..env.mediaLimit /\ ProbeExplained'
    <3>1. active => at.step = "probed"
      BY <2>1, <1>a DEF ProbeState
    <3> QED
      BY <2>1, <3>1, RecordKept DEF Steps
  <2>3. TypeOK'
    BY <2>1, <2>2, <1>a DEF TypeOK, Records
  <2>4. ProbeState' /\ ProbeOnce' /\ ReadRecorded'
    BY <2>1, <1>a DEF ProbeState, ProbeOnce, ReadRecorded, Guest
  <2> QED
    BY <2>2, <2>3, <2>4 DEF IInv
<1>8. ASSUME NEW d \in Drives, NEW state \in DiskStates, ChangeDisk(d, state) PROVE IInv'
  <2>1. TypeOK'
    BY <1>8, <1>a DEF ChangeDisk, TypeOK, hooks
  <2> QED
    BY <1>8, <1>a, <2>1 DEF ChangeDisk, IInv, ProbeState, ProbeOnce, ReadRecorded,
       ProbeExplained, MediaWanted, hooks
<1>9. CASE UNCHANGED vars
  BY <1>9, <1>a DEF vars, IInv, TypeOK, ProbeState, ProbeOnce, ReadRecorded,
     ProbeExplained, MediaWanted
<1> QED
  BY <1>1, <1>2, <1>3, <1>4, <1>5, <1>6, <1>7, <1>8, <1>9 DEF Next

(* The counters stay within their limits and the file is one of records.   *)
THEOREM TypeCorrect == Spec => []TypeOK
<1>1. IInv => TypeOK
  BY DEF IInv
<1> QED
  BY <1>1, InitInv, NextInv, PTL DEF Spec

(* The probe writes once in a session, however often the boot sector is    *)
(* read, disks are exchanged or protected, and whatever is recorded.       *)
THEOREM ProbeOnceCorrect == Spec => []ProbeOnce
<1>1. IInv => ProbeOnce
  BY DEF IInv
<1> QED
  BY <1>1, InitInv, NextInv, PTL DEF Spec

(* Whoever reads the evidence finds the cause of the probe in front of it. *)
THEOREM ProbeExplainedCorrect == Spec => []ProbeExplained
<1>1. IInv => ProbeExplained
  BY DEF IInv
<1> QED
  BY <1>1, InitInv, NextInv, PTL DEF Spec

-----------------------------------------------------------------------------
(* What the operators of the evidence compute.                             *)

(* What Kept has kept of the first n elements.                             *)
KeptStep(kept, seq, T, n) ==
  kept[n] = IF n = 0 THEN <<>>
            ELSE IF seq[n] \in T THEN Append(kept[n - 1], seq[n])
            ELSE kept[n - 1]

(* A solution of those equations for the first m elements.                 *)
KeptRun(kept, seq, T, m) == \A n \in 0..m : KeptStep(kept, seq, T, n)

SameUpTo(s, t, m) == \A n \in 1..m : s[n] = t[n]

(* A solution for m elements is one for one element more.                  *)
LEMMA KeptExtends ==
  ASSUME NEW seq, NEW T, NEW m \in Nat,
         NEW f, f = [n \in 0..m |-> f[n]], \A n \in 0..m : KeptStep(f, seq, T, n)
  PROVE  \E g : g = [n \in 0..(m + 1) |-> g[n]] /\ \A n \in 0..(m + 1) : KeptStep(g, seq, T, n)
<1> DEFINE new == IF seq[m + 1] \in T THEN Append(f[m], seq[m + 1]) ELSE f[m]
           g == [n \in 0..(m + 1) |-> IF n = m + 1 THEN new ELSE f[n]]
<1>1. \A n \in 0..m : g[n] = f[n]
  OBVIOUS
<1>2. g[m + 1] = new /\ g = [n \in 0..(m + 1) |-> g[n]]
  OBVIOUS
<1> HIDE DEF g
<1>3. ASSUME NEW n \in 0..(m + 1) PROVE KeptStep(g, seq, T, n)
  <2>1. CASE n = m + 1
    <3>1. n # 0 /\ n - 1 = m /\ g[m] = f[m]
      BY <2>1, <1>1
    <3> QED
      BY <2>1, <3>1, <1>2 DEF KeptStep
  <2>2. CASE n \in 1..m
    <3>1. g[n] = f[n] /\ g[n - 1] = f[n - 1] /\ KeptStep(f, seq, T, n)
      BY <2>2, <1>1
    <3> QED
      BY <3>1 DEF KeptStep
  <2>3. CASE n = 0
    <3>1. g[n] = f[n] /\ KeptStep(f, seq, T, n)
      BY <2>3, <1>1
    <3> QED
      BY <2>3, <3>1 DEF KeptStep
  <2> QED
    BY <2>1, <2>2, <2>3
<1> QED
  BY <1>2, <1>3

(* There is a solution for any number of elements.                         *)
LEMMA KeptExists ==
  ASSUME NEW seq, NEW T, NEW m \in Nat
  PROVE  \E f : f = [n \in 0..m |-> f[n]] /\ \A n \in 0..m : KeptStep(f, seq, T, n)
<1> DEFINE Good(k) == \E f : f = [n \in 0..k |-> f[n]] /\ \A n \in 0..k : KeptStep(f, seq, T, n)
           S == {k \in 0..m : Good(k)}
<1>1. Good(0)
  <2> DEFINE f == [n \in 0..0 |-> <<>>]
  <2>1. f = [n \in 0..0 |-> f[n]] /\ \A n \in 0..0 : KeptStep(f, seq, T, n)
    BY DEF KeptStep
  <2> QED
    BY <2>1
<1>2. ASSUME NEW k \in 0..(m - 1), Good(k) PROVE Good(k + 1)
  <2>1. PICK f : f = [n \in 0..k |-> f[n]] /\ \A n \in 0..k : KeptStep(f, seq, T, n)
    BY <1>2
  <2>2. k \in Nat
    OBVIOUS
  <2> QED
    BY <2>1, <2>2, KeptExtends
<1> HIDE DEF Good
<1>3. 0 \in S /\ \A k \in 0..(m - 1) : k \in S => k + 1 \in S
  BY <1>1, <1>2
<1> HIDE DEF S
<1>4. 0..m \subseteq S
  BY <1>3, SegmentInduction
<1>5. Good(m)
  BY <1>4 DEF S
<1> QED
  BY <1>5 DEF Good

(* Sequences that agree so far have kept the same.                         *)
LEMMA KeptUnique ==
  ASSUME NEW s, NEW t, NEW T, NEW m \in Nat, NEW f, NEW g,
         SameUpTo(s, t, m),
         KeptRun(f, s, T, m),
         KeptRun(g, t, T, m)
  PROVE  f[m] = g[m]
<1> DEFINE S == {k \in 0..m : f[k] = g[k]}
<1>1. 0 \in S
  BY DEF KeptStep, KeptRun
<1>2. ASSUME NEW k \in 0..(m - 1), k \in S PROVE k + 1 \in S
  <2>1. k + 1 \in 1..m /\ k + 1 \in 0..m /\ (k + 1) - 1 = k /\ k + 1 # 0
    OBVIOUS
  <2>2. f[k] = g[k] /\ s[k + 1] = t[k + 1]
    BY <1>2, <2>1 DEF SameUpTo
  <2>3. KeptStep(f, s, T, k + 1) /\ KeptStep(g, t, T, k + 1)
    BY <2>1 DEF KeptRun
  <2>4. f[k + 1] = g[k + 1]
    BY <2>1, <2>2, <2>3 DEF KeptStep
  <2> QED
    BY <2>1, <2>4
<1> HIDE DEF S
<1>3. 0..m \subseteq S
  BY <1>1, <1>2, SegmentInduction
<1> QED
  BY <1>3 DEF S

(* Kept is what any solution has kept in the end.                          *)
LEMMA KeptSolved ==
  ASSUME NEW seq, NEW T, Len(seq) \in Nat
  PROVE  \E f : KeptRun(f, seq, T, Len(seq)) /\ Kept(seq, T) = f[Len(seq)]
<1> DEFINE Eq(f) == f = [n \in 0..Len(seq) |->
                           IF n = 0 THEN <<>>
                           ELSE IF seq[n] \in T THEN Append(f[n - 1], seq[n])
                           ELSE f[n - 1]]
           kept == CHOOSE f : Eq(f)
<1>1. PICK f : f = [n \in 0..Len(seq) |-> f[n]] /\ \A n \in 0..Len(seq) : KeptStep(f, seq, T, n)
  BY KeptExists
<1>2. \A n \in 0..Len(seq) : f[n] = IF n = 0 THEN <<>>
                                    ELSE IF seq[n] \in T THEN Append(f[n - 1], seq[n])
                                    ELSE f[n - 1]
  BY <1>1 DEF KeptStep
<1>3. Eq(f)
  BY <1>1, <1>2, Zenon
<1>4. Eq(kept)
  BY <1>3, Zenon
<1>5. Kept(seq, T) = kept[Len(seq)]
  BY Zenon DEF Kept
<1>6. KeptRun(kept, seq, T, Len(seq))
  <2> HIDE DEF kept
  <2> SUFFICES ASSUME NEW n \in 0..Len(seq) PROVE KeptStep(kept, seq, T, n)
    BY DEF KeptRun
  <2> QED
    BY <1>4, Zenon DEF KeptStep
<1> QED
  BY <1>5, <1>6

(* An element that follows is kept if it lies in T, and what is kept is a  *)
(* sequence of elements of T.                                              *)
LEMMA KeptAppend ==
  ASSUME NEW S, NEW s \in Seq(S), NEW e \in S, NEW T
  PROVE  Kept(Append(s, e), T) = IF e \in T THEN Append(Kept(s, T), e) ELSE Kept(s, T)
<1>0. PICK t : t = Append(s, e)
  OBVIOUS
<1>1. /\ t \in Seq(S) /\ Len(s) \in Nat /\ Len(t) = Len(s) + 1 /\ t[Len(s) + 1] = e
      /\ \A n \in 1..Len(s) : s[n] = t[n]
  BY <1>0, AppendLog
<1>2. PICK f : KeptRun(f, s, T, Len(s)) /\ Kept(s, T) = f[Len(s)]
  BY <1>1, KeptSolved
<1>3. PICK g : KeptRun(g, t, T, Len(t)) /\ Kept(t, T) = g[Len(t)]
  BY <1>1, KeptSolved
<1>4. KeptRun(g, t, T, Len(s)) /\ SameUpTo(s, t, Len(s))
  BY <1>1, <1>3 DEF KeptRun, SameUpTo
<1>5. f[Len(s)] = g[Len(s)]
  BY <1>1, <1>2, <1>4, KeptUnique
<1>6. KeptStep(g, t, T, Len(s) + 1)
  BY <1>1, <1>3 DEF KeptRun
<1>7. g[Len(s) + 1] = IF e \in T THEN Append(g[Len(s)], e) ELSE g[Len(s)]
  BY <1>1, <1>6 DEF KeptStep
<1> QED
  BY <1>1, <1>2, <1>3, <1>5, <1>7, <1>0

LEMMA KeptEmpty == \A T : Kept(<<>>, T) = <<>>
<1> SUFFICES ASSUME NEW T PROVE Kept(<<>>, T) = <<>>
  OBVIOUS
<1>1. Len(<<>>) = 0
  OBVIOUS
<1>2. PICK f : KeptRun(f, <<>>, T, Len(<<>>)) /\ Kept(<<>>, T) = f[Len(<<>>)]
  BY <1>1, KeptSolved
<1>3. KeptStep(f, <<>>, T, 0)
  BY <1>1, <1>2 DEF KeptRun
<1> QED
  BY <1>1, <1>2, <1>3 DEF KeptStep

LEMMA KeptTyped ==
  ASSUME NEW S, NEW s \in Seq(S), NEW T
  PROVE  Kept(s, T) \in Seq(S \intersect T)
<1>1. Len(s) \in Nat /\ \A n \in 1..Len(s) : s[n] \in S
  OBVIOUS
<1>2. PICK f : KeptRun(f, s, T, Len(s)) /\ Kept(s, T) = f[Len(s)]
  BY <1>1, KeptSolved
<1> DEFINE G == {k \in 0..Len(s) : f[k] \in Seq(S \intersect T)}
<1>3. 0 \in G
  <2>1. 0 \in 0..Len(s)
    BY <1>1
  <2>2. f[0] = <<>>
    BY <1>2, <2>1 DEF KeptRun, KeptStep
  <2>3. <<>> \in Seq(S \intersect T)
    OBVIOUS
  <2> QED
    BY <2>1, <2>2, <2>3
<1>4. ASSUME NEW k \in 0..(Len(s) - 1), k \in G PROVE k + 1 \in G
  <2>1. k + 1 \in 1..Len(s) /\ k + 1 \in 0..Len(s) /\ (k + 1) - 1 = k /\ k + 1 # 0
    BY <1>1
  <2>2. f[k + 1] = IF s[k + 1] \in T THEN Append(f[k], s[k + 1]) ELSE f[k]
    BY <1>2, <2>1 DEF KeptRun, KeptStep
  <2>3. f[k] \in Seq(S \intersect T) /\ s[k + 1] \in S
    BY <1>1, <1>4, <2>1
  <2>4. f[k + 1] \in Seq(S \intersect T)
    BY <2>2, <2>3
  <2> QED
    BY <2>1, <2>4
<1> HIDE DEF G
<1>5. 0..Len(s) \subseteq G
  BY <1>1, <1>3, <1>4, SegmentInduction
<1> QED
  BY <1>1, <1>2, <1>5 DEF G

-----------------------------------------------------------------------------
(* The evidence, kept by every step.                                       *)

Pending == at.step \in {"read", "probed", "written"}

Facts == [i \in DOMAIN happened |-> Told(happened[i])]

Recorded == IF Pending THEN SubSeq(Facts, 1, Len(Facts) - 1) ELSE Facts

MediaLimit == IF env.opens THEN env.mediaLimit ELSE 0

MemoryLimit == IF env.opens THEN env.memoryLimit ELSE 0

(* The records are the facts up to the limit, the counter is their number, *)
(* and the fact that is not yet recorded is the one the wrapper will       *)
(* record.                                                                 *)
MediaInv ==
  /\ MediaLog = UpTo(MediaLimit, Recorded)
  /\ mediaCount = Len(MediaLog)
  /\ Pending =>
       /\ happened # <<>>
       /\ Told(happened[Len(happened)]) =
            Media(IF at.step = "read" THEN "read" ELSE "write", at.drive, at.sector, active)

InWindow == Kept(puts, {p \in Accesses : Inside(p)})

PutsOf(records) == [i \in DOMAIN records |-> records[i].put]

MemoryInv ==
  /\ PutsOf(MemoryLog) = UpTo(MemoryLimit, InWindow)
  /\ memoryCount = Len(MemoryLog)

(* A fact that follows is among the first unless the limit is reached.     *)
LEMMA UpToAppend ==
  ASSUME NEW S, NEW s \in Seq(S), NEW e \in S, NEW limit \in Nat
  PROVE  /\ UpTo(limit, s) \in Seq(S)
         /\ Len(UpTo(limit, s)) = IF limit < Len(s) THEN limit ELSE Len(s)
         /\ Len(UpTo(limit, s)) < limit =>
              UpTo(limit, Append(s, e)) = Append(UpTo(limit, s), e)
         /\ ~(Len(UpTo(limit, s)) < limit) =>
              UpTo(limit, Append(s, e)) = UpTo(limit, s)
<1>1. Len(s) \in Nat /\ Len(Append(s, e)) = Len(s) + 1
  OBVIOUS
<1>2. CASE Len(s) < limit
  <2>1. UpTo(limit, s) = SubSeq(s, 1, Len(s)) /\ SubSeq(s, 1, Len(s)) = s
    BY <1>1, <1>2 DEF UpTo
  <2>2. /\ UpTo(limit, Append(s, e)) = SubSeq(Append(s, e), 1, Len(s) + 1)
        /\ SubSeq(Append(s, e), 1, Len(s) + 1) = Append(s, e)
    BY <1>1, <1>2 DEF UpTo
  <2>3. UpTo(limit, s) = s /\ UpTo(limit, Append(s, e)) = Append(s, e)
    BY <2>1, <2>2
  <2> QED
    BY <1>1, <1>2, <2>3
<1>3. CASE ~(Len(s) < limit)
  <2>1. UpTo(limit, s) = SubSeq(s, 1, limit)
    BY <1>1, <1>3 DEF UpTo
  <2>2. UpTo(limit, Append(s, e)) = SubSeq(Append(s, e), 1, limit)
    BY <1>1, <1>3 DEF UpTo
  <2>3. SubSeq(Append(s, e), 1, limit) = SubSeq(s, 1, limit)
    BY <1>1, <1>3
  <2>4. SubSeq(s, 1, limit) \in Seq(S) /\ Len(SubSeq(s, 1, limit)) = limit
    BY <1>1, <1>3
  <2> QED
    BY <1>1, <1>3, <2>1, <2>2, <2>3, <2>4
<1> QED
  BY <1>2, <1>3

(* The first limit of none.                                                *)
LEMMA UpToEmpty == \A limit \in Nat : UpTo(limit, <<>>) = <<>>
BY DEF UpTo

(* Every access can be told by a record.                                   *)
LEMMA FactsTyped ==
  ASSUME TypeOK
  PROVE  /\ Facts \in Seq(MediaRecord)
         /\ Len(Facts) = Len(happened) /\ Len(happened) \in Nat
         /\ \A i \in 1..Len(happened) : Facts[i] = Told(happened[i])
         /\ Recorded \in Seq(MediaRecord)
<1>1. /\ happened \in Seq(Sector_Access) /\ Len(happened) \in Nat
      /\ DOMAIN happened = 1..Len(happened)
  BY DEF TypeOK, Sector_Access
<1>2. \A i \in 1..Len(happened) : Told(happened[i]) \in MediaRecord
  <2>1. \A h \in Sector_Access : Told(h) \in MediaRecord
    BY DEF Sector_Access, Told, Media, MediaRecord
  <2>2. \A i \in 1..Len(happened) : happened[i] \in Sector_Access
    BY <1>1
  <2> QED
    BY <2>1, <2>2
<1>3. Facts = [i \in 1..Len(happened) |-> Told(happened[i])]
  BY <1>1 DEF Facts
<1>4. Facts \in Seq(MediaRecord) /\ Len(Facts) = Len(happened)
  BY <1>1, <1>2, <1>3
<1>5. Recorded \in Seq(MediaRecord)
  BY <1>4 DEF Recorded
<1> QED
  BY <1>1, <1>3, <1>4, <1>5

(* An access that is made is not yet recorded.                             *)
LEMMA AccessPends ==
  ASSUME TypeOK, TypeOK', MediaInv, ~Pending, Pending',
         NEW op, NEW d, NEW s, NEW by, Access(op, d, s, by),
         UNCHANGED <<env, log, mediaCount>>,
         Media(op, d, s, by = "probe")
           = Media(IF at'.step = "read" THEN "read" ELSE "write", at'.drive, at'.sector, active')
  PROVE  MediaInv'
<1> DEFINE new == [op |-> op, drive |-> d, sector |-> s, by |-> by]
<1>0. Told(new) = Media(op, d, s, by = "probe")
  BY DEF Told
<1>1. happened' = Append(happened, new)
  BY DEF Access
<1> HIDE DEF new
<1>2. /\ happened \in Seq(Sector_Access) /\ Len(happened) \in Nat
      /\ happened' \in Seq(Sector_Access)
  BY DEF TypeOK, Sector_Access
<1>3. /\ Len(happened') = Len(happened) + 1
      /\ happened'[Len(happened) + 1] = new
      /\ happened' # <<>>
      /\ \A i \in 1..Len(happened) : happened'[i] = happened[i]
  BY <1>1, <1>2
<1>4. /\ Facts \in Seq(MediaRecord) /\ Len(Facts) = Len(happened)
      /\ \A i \in 1..Len(happened) : Facts[i] = Told(happened[i])
  BY FactsTyped
<1>5. /\ Facts' \in Seq(MediaRecord) /\ Len(Facts') = Len(happened')
      /\ \A i \in 1..Len(happened') : Facts'[i] = Told(happened'[i])
  <2>1. Facts' = [i \in DOMAIN happened' |-> Told(happened'[i])]
    BY DEF Facts, Told
  <2>2. DOMAIN happened' = 1..Len(happened')
    BY <1>2
  <2>3. \A h \in Sector_Access : Told(h) \in MediaRecord
    BY DEF Sector_Access, Told, Media, MediaRecord
  <2>4. \A i \in 1..Len(happened') : happened'[i] \in Sector_Access
    BY <1>2
  <2>5. \A i \in 1..Len(happened') : Told(happened'[i]) \in MediaRecord
    BY <2>3, <2>4
  <2> QED
    BY <1>2, <1>3, <2>1, <2>2, <2>5
<1>6. Recorded' = SubSeq(Facts', 1, Len(Facts') - 1)
  BY DEF Recorded
<1>7. SubSeq(Facts', 1, Len(happened)) = Facts
  <2>1. /\ SubSeq(Facts', 1, Len(happened)) \in Seq(MediaRecord)
        /\ Len(SubSeq(Facts', 1, Len(happened))) = Len(happened)
        /\ \A i \in 1..Len(happened) : SubSeq(Facts', 1, Len(happened))[i] = Facts'[i]
    BY <1>2, <1>3, <1>5
  <2>2. \A i \in 1..Len(happened) : Facts'[i] = Facts[i]
    BY <1>2, <1>3, <1>4, <1>5
  <2> QED
    BY <1>2, <1>4, <2>1, <2>2
<1>8. Recorded' = Recorded
  BY <1>2, <1>3, <1>5, <1>6, <1>7 DEF Recorded
<1>9. MediaLog' = MediaLog /\ MediaLimit' = MediaLimit
  BY DEF MediaLog, MediaLimit
<1>10. Told(happened'[Len(happened')])
         = Media(IF at'.step = "read" THEN "read" ELSE "write", at'.drive, at'.sector, active')
  BY <1>0, <1>2, <1>3
<1> QED
  BY <1>3, <1>8, <1>9, <1>10 DEF MediaInv, UpTo, Told, Media

(* The record of the access that pends.                                    *)
LEMMA PendingRecorded ==
  ASSUME TypeOK, MediaInv, Pending, ~Pending', NEW op \in {"read", "write"},
         (op = "read") <=> (at.step = "read"),
         RecordFloppyIO(op), UNCHANGED <<env, happened>>
  PROVE  MediaInv'
<1> DEFINE new == Media(op, at.drive, at.sector, active)
<1>1. /\ Facts \in Seq(MediaRecord) /\ Len(Facts) = Len(happened) /\ Len(happened) \in Nat
      /\ \A i \in 1..Len(happened) : Facts[i] = Told(happened[i])
      /\ Recorded \in Seq(MediaRecord)
  BY FactsTyped
<1>2. happened # <<>> /\ Len(happened) > 0
  <2>1. happened # <<>> /\ happened \in Seq(Sector_Access)
    BY DEF MediaInv, TypeOK, Sector_Access
  <2> QED
    BY <2>1
<1>3. Told(happened[Len(happened)]) = new
  BY DEF MediaInv
<1> HIDE DEF new
<1>4. Facts[Len(happened)] = new /\ new \in MediaRecord
  BY <1>1, <1>2, <1>3
<1>5. Recorded = SubSeq(Facts, 1, Len(Facts) - 1)
  BY DEF Recorded
<1>6. Facts = Append(Recorded, new)
  BY <1>1, <1>2, <1>4, <1>5
<1>7. Facts' = Facts
  BY DEF Facts, Told, Media
<1>8. Recorded' = Append(Recorded, new)
  BY <1>6, <1>7 DEF Recorded
<1>9. MediaLimit \in Nat /\ MediaLimit' = MediaLimit
  BY EnvTyped DEF TypeOK, MediaLimit
<1>10. /\ MediaLog = UpTo(MediaLimit, Recorded) /\ mediaCount = Len(MediaLog)
       /\ UpTo(MediaLimit, Recorded) \in Seq(MediaRecord)
  BY <1>1, <1>4, <1>9, UpToAppend DEF MediaInv
<1>11. MediaWanted <=> Len(UpTo(MediaLimit, Recorded)) < MediaLimit
  BY <1>10, EnvTyped DEF MediaWanted, MediaLimit, TypeOK
<1>12. ~Pending' /\ MediaInv' <=> ~Pending' /\ MediaLog' = UpTo(MediaLimit', Recorded') /\ mediaCount' = Len(MediaLog')
  BY DEF MediaInv
<1>13. CASE MediaWanted
  <2>1. log' = Append(log, new) /\ mediaCount' = mediaCount + 1 /\ log \in Seq(Records)
    BY <1>13 DEF RecordFloppyIO, new, TypeOK, Records
  <2>2. MediaLog' = Append(MediaLog, new)
    <3>1. new \in Records
      BY <1>4 DEF Records
    <3>2. Kept(Append(log, new), MediaRecord) = Append(Kept(log, MediaRecord), new)
      BY <1>4, <2>1, <3>1, KeptAppend
    <3> QED
      BY <2>1, <3>2 DEF MediaLog
  <2>3. UpTo(MediaLimit, Append(Recorded, new)) = Append(UpTo(MediaLimit, Recorded), new)
    BY <1>1, <1>4, <1>9, <1>11, <1>13, UpToAppend
  <2>4. mediaCount' = Len(MediaLog')
    BY <1>4, <1>10, <2>1, <2>2
  <2>5. MediaLog' = UpTo(MediaLimit', Recorded')
    BY <1>8, <1>9, <1>10, <2>2, <2>3
  <2> QED
    BY <1>12, <2>4, <2>5
<1>14. CASE ~MediaWanted
  <2>1. log' = log /\ mediaCount' = mediaCount
    BY <1>14 DEF RecordFloppyIO
  <2>2. MediaLog' = MediaLog
    BY <2>1 DEF MediaLog
  <2>3. UpTo(MediaLimit, Append(Recorded, new)) = UpTo(MediaLimit, Recorded)
    BY <1>1, <1>4, <1>9, <1>11, <1>14, UpToAppend
  <2> QED
    BY <1>8, <1>9, <1>10, <1>12, <2>1, <2>2, <2>3
<1> QED
  BY <1>13, <1>14

(* Steps that make no access and record none.                              *)
LEMMA MediaUntouched ==
  ASSUME MediaInv, UNCHANGED <<env, mediaCount, happened>>, MediaLog' = MediaLog,
         ~Pending, ~Pending'
  PROVE  MediaInv'
<1>1. Recorded' = Recorded /\ MediaLimit' = MediaLimit
  BY DEF Recorded, Facts, Told, Media, MediaLimit
<1> QED
  BY <1>1 DEF MediaInv, UpTo

LEMMA MediaNext ==
  ASSUME IInv, IInv', MediaInv, [Next]_vars
  PROVE  MediaInv'
<1>t. TypeOK /\ TypeOK' /\ ProbeState /\ ProbeState' /\ active \in BOOLEAN /\ active' \in BOOLEAN
  BY DEF IInv, TypeOK
<1>1. ASSUME NEW e \in Records \ MediaRecord, log' = Append(log, e), at = Guest,
             UNCHANGED <<env, mediaCount, at, happened>>
      PROVE  MediaInv'
  <2>1. log \in Seq(Records)
    BY <1>t DEF TypeOK, Records
  <2>2. MediaLog' = MediaLog
    BY <1>1, <2>1, KeptAppend DEF MediaLog
  <2> QED
    BY <1>1, <2>2, MediaUntouched DEF Pending, Guest
<1>2. ASSUME NEW p \in Accesses, RecordMemoryWrite(p) PROVE MediaInv'
  <2>1. CASE log' = log
    BY <1>2, <2>1, MediaUntouched DEF RecordMemoryWrite, GuestRuns, Pending, Guest, MediaLog
  <2>2. CASE log' = Append(log, [type |-> "memory", put |-> p])
    <3>1. [type |-> "memory", put |-> p] \in Records \ MediaRecord
      BY DEF Records, MemoryRecord, MediaRecord
    <3> QED
      BY <1>1, <1>2, <2>2, <3>1 DEF RecordMemoryWrite, GuestRuns
  <2> QED
    BY <1>2, <2>1, <2>2 DEF RecordMemoryWrite
<1>3. ASSUME RecordException PROVE MediaInv'
  <2>1. Exception \in Records \ MediaRecord
    BY DEF Records, MediaRecord, Exception
  <2> QED
    BY <1>1, <1>3, <2>1 DEF RecordException, GuestRuns
<1>4. ASSUME NEW d \in Drives, NEW s \in Sectors, ReadSectors(d, s) PROVE MediaInv'
  <2>1. ~Pending /\ Pending' /\ at' = Wrapper("read", d, s)
    BY <1>4 DEF ReadSectors, GuestRuns, Guest, Pending, Wrapper
  <2>2. active' = FALSE
    BY <1>t, <2>1 DEF ProbeState, Wrapper
  <2>3. /\ Access("read", d, s, "guest") /\ UNCHANGED <<env, log, mediaCount>>
        /\ Media("read", d, s, "guest" = "probe")
             = Media(IF at'.step = "read" THEN "read" ELSE "write", at'.drive, at'.sector, active')
    <3>1. ("guest" = "probe") = active'
      BY <2>2
    <3>2. (IF at'.step = "read" THEN "read" ELSE "write") = "read" /\ at'.drive = d /\ at'.sector = s
      BY <2>1 DEF Wrapper
    <3>3. Access("read", d, s, "guest") /\ UNCHANGED <<env, log, mediaCount>>
      BY <1>4 DEF ReadSectors, hooks
    <3> QED
      BY <3>1, <3>2, <3>3, Zenon
  <2> QED
    BY <1>t, <2>1, <2>3, AccessPends
<1>5. ASSUME NEW d \in Drives, NEW s \in Sectors, WriteSectors(d, s) PROVE MediaInv'
  <2>1. ~Pending /\ Pending' /\ at' = Wrapper("written", d, s)
    BY <1>5 DEF WriteSectors, GuestRuns, Guest, Pending, Wrapper
  <2>2. active' = FALSE
    BY <1>t, <2>1 DEF ProbeState, Wrapper
  <2>3. /\ Access("write", d, s, "guest") /\ UNCHANGED <<env, log, mediaCount>>
        /\ Media("write", d, s, "guest" = "probe")
             = Media(IF at'.step = "read" THEN "read" ELSE "write", at'.drive, at'.sector, active')
    <3>1. ("guest" = "probe") = active'
      BY <2>2
    <3>2. (IF at'.step = "read" THEN "read" ELSE "write") = "write" /\ at'.drive = d /\ at'.sector = s
      BY <2>1 DEF Wrapper
    <3>3. Access("write", d, s, "guest") /\ UNCHANGED <<env, log, mediaCount>>
      BY <1>5 DEF WriteSectors, hooks
    <3> QED
      BY <3>1, <3>2, <3>3, Zenon
  <2> QED
    BY <1>t, <2>1, <2>3, AccessPends
<1>6. ASSUME RecordRead PROVE MediaInv'
  <2>1. Pending /\ ~Pending' /\ RecordFloppyIO("read") /\ at.step = "read"
    BY <1>6, <1>t DEF RecordRead, Pending, TypeOK, Guest
  <2> QED
    BY <1>6, <1>t, <2>1, PendingRecorded DEF RecordRead
<1>7. ASSUME RecordProbe \/ RecordWrite PROVE MediaInv'
  <2>1. Pending /\ ~Pending' /\ RecordFloppyIO("write") /\ at.step # "read"
    BY <1>7 DEF RecordProbe, RecordWrite, Pending, Guest
  <2> QED
    BY <1>7, <1>t, <2>1, PendingRecorded DEF RecordProbe, RecordWrite
<1>8. ASSUME ProbeWritten PROVE MediaInv'
  <2>1. at \in [step : Steps, drive : Drives, sector : Sectors] /\ at.sector = Boot /\ active
    BY <1>8, <1>t DEF ProbeWritten, TypeOK, Guest, ProbeState
  <2>2. ~Pending /\ Pending' /\ at'.step = "probed" /\ at'.drive = at.drive /\ at'.sector = Boot
    BY <1>8, <2>1 DEF ProbeWritten, Pending, Steps
  <2>3. active' = TRUE
    BY <1>t, <2>2 DEF ProbeState
  <2>4. /\ Access("write", at.drive, Boot, "probe") /\ UNCHANGED <<env, log, mediaCount>>
        /\ Media("write", at.drive, Boot, "probe" = "probe")
             = Media(IF at'.step = "read" THEN "read" ELSE "write", at'.drive, at'.sector, active')
    BY <1>8, <2>2, <2>3 DEF ProbeWritten
  <2> QED
    BY <1>t, <2>2, <2>4, AccessPends
<1>9. ASSUME StartProbe \/ NoProbe \/ ProbeFails PROVE MediaInv'
  <2>1. ~Pending /\ ~Pending' /\ UNCHANGED <<env, log, mediaCount, happened>>
    BY <1>9, <1>t DEF StartProbe, NoProbe, ProbeFails, Pending, Guest, hooks, TypeOK
  <2> QED
    BY <2>1, MediaUntouched DEF MediaLog
<1>10. ASSUME NEW d \in Drives, NEW state \in DiskStates, ChangeDisk(d, state) PROVE MediaInv'
  <2>1. ~Pending /\ ~Pending' /\ UNCHANGED <<env, log, mediaCount, happened>>
    BY <1>10 DEF ChangeDisk, Pending, Guest, hooks
  <2> QED
    BY <2>1, MediaUntouched DEF MediaLog
<1>11. CASE UNCHANGED vars
  <2>1. Recorded' = Recorded /\ MediaLimit' = MediaLimit /\ Pending' = Pending /\ MediaLog' = MediaLog
    BY <1>11 DEF vars, Recorded, Facts, Told, Media, MediaLimit, Pending, MediaLog
  <2> QED
    BY <1>11, <2>1 DEF vars, MediaInv, UpTo, Told, Media
<1> QED
  BY <1>2, <1>3, <1>4, <1>5, <1>6, <1>7, <1>8, <1>9, <1>10, <1>11 DEF Next

LEMMA MediaInit == Init => MediaInv
<1> SUFFICES ASSUME Init PROVE MediaInv
  OBVIOUS
<1>1. TypeOK
  BY InitInv DEF IInv
<1>2. /\ Facts \in Seq(MediaRecord) /\ Len(Facts) = 0
  BY <1>1, FactsTyped DEF Init
<1>3. Facts = <<>> /\ ~Pending
  BY <1>2 DEF Init, Pending, Guest
<1>4. Recorded = <<>> /\ MediaLog = <<>> /\ mediaCount = 0 /\ MediaLimit \in Nat
  BY <1>1, <1>3, KeptEmpty, EnvTyped DEF Init, Recorded, MediaLog, MediaLimit, TypeOK
<1>5. UpTo(MediaLimit, <<>>) = <<>>
  BY <1>4, UpToEmpty
<1> QED
  BY <1>3, <1>4, <1>5 DEF MediaInv

(* However the guest, the probe and the disks go on, the media records are *)
(* the sector accesses up to the limit, in their order.                    *)
THEOREM MediaEvidenceCorrect == Spec => []MediaEvidence
<1>1. Init => IInv /\ MediaInv
  BY InitInv, MediaInit
<1>2. IInv /\ MediaInv /\ [Next]_vars => IInv' /\ MediaInv'
  BY NextInv, MediaNext
<1>3. MediaInv => MediaEvidence
  BY DEF MediaInv, MediaEvidence, Recorded, Facts, Pending, MediaLimit
<1> QED
  BY <1>1, <1>2, <1>3, PTL DEF Spec

-----------------------------------------------------------------------------
(* The memory writes.                                                      *)

LEMMA PutsOfAppend ==
  ASSUME NEW m \in Seq(MemoryRecord), NEW r \in MemoryRecord
  PROVE  /\ PutsOf(m) \in Seq(Accesses) /\ Len(PutsOf(m)) = Len(m)
         /\ PutsOf(Append(m, r)) = Append(PutsOf(m), r.put)
<1>1. \A x \in MemoryRecord : x.put \in Accesses
  BY DEF MemoryRecord
<1>2. /\ DOMAIN m = 1..Len(m) /\ Len(m) \in Nat /\ \A i \in 1..Len(m) : m[i] \in MemoryRecord
  OBVIOUS
<1>3. PutsOf(m) = [i \in 1..Len(m) |-> m[i].put]
  BY <1>2 DEF PutsOf
<1>4. PutsOf(m) \in Seq(Accesses) /\ Len(PutsOf(m)) = Len(m)
  BY <1>1, <1>2, <1>3
<1>5. /\ DOMAIN Append(m, r) = 1..(Len(m) + 1)
      /\ Append(m, r)[Len(m) + 1] = r
      /\ \A i \in 1..Len(m) : Append(m, r)[i] = m[i]
  BY AppendLog
<1>6. PutsOf(Append(m, r)) = [i \in 1..(Len(m) + 1) |-> Append(m, r)[i].put]
  BY <1>5 DEF PutsOf
<1>7. r.put \in Accesses
  BY <1>1
<1>8. Append(PutsOf(m), r.put) = [i \in 1..(Len(m) + 1) |-> IF i = Len(m) + 1 THEN r.put ELSE m[i].put]
  BY <1>2, <1>3, <1>4, <1>7
<1>9. \A i \in 1..(Len(m) + 1) :
        Append(m, r)[i].put = IF i = Len(m) + 1 THEN r.put ELSE m[i].put
  BY <1>2, <1>5
<1> QED
  BY <1>4, <1>6, <1>8, <1>9

LEMMA MemoryTyped ==
  ASSUME TypeOK
  PROVE  /\ MemoryLog \in Seq(MemoryRecord) /\ InWindow \in Seq(Accesses)
         /\ log \in Seq(Records) /\ puts \in Seq(Accesses)
<1>1. log \in Seq(Records) /\ puts \in Seq(Accesses)
  BY DEF TypeOK, Records
<1>2. MemoryLog \in Seq(Records \intersect MemoryRecord)
  BY <1>1, KeptTyped DEF MemoryLog
<1>3. InWindow \in Seq(Accesses \intersect {p \in Accesses : Inside(p)})
  BY <1>1, KeptTyped DEF InWindow
<1> QED
  BY <1>1, <1>2, <1>3

(* The records of the writes stay, whatever else is recorded.              *)
LEMMA MemoryUntouched ==
  ASSUME TypeOK, MemoryInv, UNCHANGED <<env, puts, memoryCount>>,
         log' = log \/ \E e \in Records \ MemoryRecord : log' = Append(log, e)
  PROVE  MemoryInv'
<1>1. MemoryLog' = MemoryLog
  <2>1. CASE log' = log
    BY <2>1 DEF MemoryLog
  <2>2. ASSUME NEW e \in Records \ MemoryRecord, log' = Append(log, e)
        PROVE  MemoryLog' = MemoryLog
    <3>1. Kept(Append(log, e), MemoryRecord) = Kept(log, MemoryRecord)
      BY <2>2, MemoryTyped, KeptAppend
    <3> QED
      BY <2>2, <3>1 DEF MemoryLog
  <2> QED
    BY <2>1, <2>2
<1>2. InWindow' = InWindow /\ MemoryLimit' = MemoryLimit
  BY DEF InWindow, MemoryLimit, Inside
<1> QED
  BY <1>1, <1>2 DEF MemoryInv, UpTo, PutsOf

(* A write of the guest: in the window it is recorded, up to the limit.    *)
LEMMA WriteRecorded ==
  ASSUME TypeOK, MemoryInv, env.end >= 3, NEW p \in Accesses, RecordMemoryWrite(p)
  PROVE  MemoryInv'
<1> DEFINE new == [type |-> "memory", put |-> p]
           W == {q \in Accesses : Inside(q)}
<1>1. /\ MemoryLog \in Seq(MemoryRecord) /\ InWindow \in Seq(Accesses)
      /\ log \in Seq(Records) /\ puts \in Seq(Accesses)
  BY MemoryTyped
<1>2. new \in MemoryRecord /\ new \in Records /\ new.put = p
  BY DEF MemoryRecord, Records
<1>3. /\ env' = env /\ puts' = Append(puts, p)
      /\ IF env.opens /\ memoryCount < env.memoryLimit /\ Watched(p)
           THEN log' = Append(log, new) /\ memoryCount' = memoryCount + 1
           ELSE UNCHANGED <<log, memoryCount>>
  BY DEF RecordMemoryWrite
<1>4. Watched(p) <=> Inside(p)
  BY WindowExact DEF TypeOK
<1>5. MemoryLimit \in Nat /\ MemoryLimit' = MemoryLimit
  BY <1>3, EnvTyped DEF TypeOK, MemoryLimit
<1>6. InWindow' = Kept(Append(puts, p), W)
  BY <1>3 DEF InWindow, Inside
<1>7. InWindow' = IF Inside(p) THEN Append(InWindow, p) ELSE InWindow
  BY <1>1, <1>6, KeptAppend DEF InWindow
<1>8. /\ PutsOf(MemoryLog) = UpTo(MemoryLimit, InWindow) /\ memoryCount = Len(MemoryLog)
      /\ Len(PutsOf(MemoryLog)) = Len(MemoryLog)
      /\ PutsOf(Append(MemoryLog, new)) = Append(PutsOf(MemoryLog), p)
  BY <1>1, <1>2, PutsOfAppend DEF MemoryInv
<1> HIDE DEF new, W
<1>9. /\ Len(UpTo(MemoryLimit, InWindow)) < MemoryLimit =>
           UpTo(MemoryLimit, Append(InWindow, p)) = Append(UpTo(MemoryLimit, InWindow), p)
      /\ ~(Len(UpTo(MemoryLimit, InWindow)) < MemoryLimit) =>
           UpTo(MemoryLimit, Append(InWindow, p)) = UpTo(MemoryLimit, InWindow)
  BY <1>1, <1>5, UpToAppend
<1>10. env.opens /\ memoryCount < env.memoryLimit <=> Len(UpTo(MemoryLimit, InWindow)) < MemoryLimit
  <2>1. memoryCount = Len(UpTo(MemoryLimit, InWindow)) /\ memoryCount \in Nat
    BY <1>1, <1>8
  <2> QED
    BY <2>1, EnvTyped DEF MemoryLimit, TypeOK
<1>11. CASE env.opens /\ memoryCount < env.memoryLimit /\ Watched(p)
  <2>1. log' = Append(log, new) /\ memoryCount' = memoryCount + 1
    BY <1>3, <1>11
  <2>2. MemoryLog' = Append(MemoryLog, new)
    BY <1>1, <1>2, <2>1, KeptAppend DEF MemoryLog
  <2>3. memoryCount' = Len(MemoryLog')
    BY <1>1, <1>2, <1>8, <2>1, <2>2
  <2>4. PutsOf(MemoryLog') = UpTo(MemoryLimit, Append(InWindow, p))
    BY <1>8, <1>9, <1>10, <1>11, <2>2
  <2>5. InWindow' = Append(InWindow, p)
    BY <1>4, <1>7, <1>11
  <2> QED
    BY <1>5, <2>3, <2>4, <2>5 DEF MemoryInv, UpTo, PutsOf
<1>12. CASE ~(env.opens /\ memoryCount < env.memoryLimit /\ Watched(p))
  <2>1. log' = log /\ memoryCount' = memoryCount
    BY <1>3, <1>12
  <2>2. MemoryLog' = MemoryLog
    BY <2>1 DEF MemoryLog
  <2>3. UpTo(MemoryLimit, InWindow') = UpTo(MemoryLimit, InWindow)
    BY <1>4, <1>7, <1>9, <1>10, <1>12
  <2> QED
    BY <1>5, <1>8, <2>1, <2>2, <2>3 DEF MemoryInv, UpTo, PutsOf
<1> QED
  BY <1>11, <1>12

LEMMA MemoryNext ==
  ASSUME IInv, MemoryInv, env.end >= 3, [Next]_vars
  PROVE  MemoryInv'
<1>t. TypeOK
  BY DEF IInv
<1>1. ASSUME NEW p \in Accesses, RecordMemoryWrite(p) PROVE MemoryInv'
  BY <1>t, <1>1, WriteRecorded
<1>2. ASSUME RecordException PROVE MemoryInv'
  <2>1. Exception \in Records \ MemoryRecord
    BY DEF Records, MemoryRecord, Exception
  <2> QED
    BY <1>t, <1>2, <2>1, MemoryUntouched DEF RecordException
<1>3. ASSUME NEW op \in {"read", "write"}, RecordFloppyIO(op),
             at.step \in Steps, UNCHANGED <<env, puts, memoryCount>>
      PROVE  MemoryInv'
  <2> DEFINE new == Media(op, at.drive, at.sector, active)
  <2>1. at.drive \in Drives /\ at.sector \in Sectors /\ active \in BOOLEAN
    BY <1>t, <1>3 DEF TypeOK, Guest, Steps
  <2>2. new \in Records \ MemoryRecord
    BY <2>1 DEF Media, MediaRecord, MemoryRecord, Records
  <2>3. log' = log \/ log' = Append(log, new)
    BY <1>3 DEF RecordFloppyIO
  <2> HIDE DEF new
  <2> QED
    BY <1>t, <1>3, <2>2, <2>3, MemoryUntouched
<1>4. ASSUME RecordRead \/ RecordProbe \/ RecordWrite PROVE MemoryInv'
  <2>1. \E op \in {"read", "write"} : RecordFloppyIO(op)
    BY <1>4 DEF RecordRead, RecordProbe, RecordWrite
  <2>2. at.step \in Steps /\ UNCHANGED <<env, puts, memoryCount>>
    BY <1>4 DEF RecordRead, RecordProbe, RecordWrite, Steps
  <2> QED
    BY <1>3, <2>1, <2>2
<1>5. CASE UNCHANGED <<env, log, puts, memoryCount>>
  BY <1>t, <1>5, MemoryUntouched
<1>6. ASSUME [Next]_vars,
             ~\E p \in Accesses : RecordMemoryWrite(p), ~RecordException,
             ~(RecordRead \/ RecordProbe \/ RecordWrite)
      PROVE  UNCHANGED <<env, log, puts, memoryCount>>
  BY <1>6 DEF Next, ReadSectors, WriteSectors, StartProbe, NoProbe, ProbeWritten, ProbeFails,
     ChangeDisk, hooks, vars
<1> QED
  BY <1>1, <1>2, <1>4, <1>5, <1>6

(* Whenever the window ends at 3 or above, the memory records are the      *)
(* guest's writes that lie in it, up to the limit, in their order.         *)
THEOREM MemoryEvidenceCorrect == Spec => [](env.end >= 3 => MemoryEvidence)
<1> DEFINE Inv == env.end >= 3 => MemoryInv
<1>1. Init => IInv /\ Inv
  <2> SUFFICES ASSUME Init PROVE Inv
    BY InitInv
  <2>1. TypeOK
    BY InitInv DEF IInv
  <2>2. MemoryLog = <<>> /\ InWindow = <<>> /\ memoryCount = 0
    BY KeptEmpty DEF Init, MemoryLog, InWindow
  <2>3. MemoryLimit \in Nat
    BY <2>1, EnvTyped DEF TypeOK, MemoryLimit
  <2>4. UpTo(MemoryLimit, <<>>) = <<>> /\ PutsOf(<<>>) = <<>>
    BY <2>3, UpToEmpty DEF PutsOf
  <2> QED
    BY <2>2, <2>4 DEF MemoryInv
<1>2. IInv /\ Inv /\ [Next]_vars => IInv' /\ Inv'
  <2> SUFFICES ASSUME IInv, Inv, [Next]_vars PROVE Inv'
    BY NextInv
  <2>1. env' = env
    BY DEF Next, RecordMemoryWrite, RecordException, ReadSectors, WriteSectors, RecordRead,
       StartProbe, NoProbe, ProbeWritten, ProbeFails, RecordProbe, RecordWrite, ChangeDisk,
       hooks, vars
  <2> QED
    BY <2>1, MemoryNext
<1>3. Inv => (env.end >= 3 => MemoryEvidence)
  BY DEF MemoryInv, MemoryEvidence, PutsOf, InWindow, MemoryLimit
<1> QED
  BY <1>1, <1>2, <1>3, PTL DEF Spec
=============================================================================
