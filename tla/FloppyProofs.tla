---------------------------- MODULE FloppyProofs ----------------------------
(***************************************************************************)
(* Theorems about Floppy, with their proofs.                               *)
(***************************************************************************)
EXTENDS Floppy, TLAPS

(* The disks and the files, as the operators of an exchange take them. *)
DisksAndFiles == [drive : [Drives -> Drive], file : [Images -> Contents]]

-----------------------------------------------------------------------------
(* The parts of the invariant. *)

(* No phase lies further ahead than an exchange puts it. *)
Timed(r) ==
  /\ r.State1.is # "none" => r.State1.vbl <= nVBLs
  /\ r.State2.is # "none" => r.State2.vbl <= nVBLs + DELAY

(* The phases of a drive began no later than when it was last touched. *)
Early(d) ==
  LET r == drive[d] IN
  /\ r.State1.is # "none" => r.State1.vbl + guest.touched[d] <= nVBLs
  /\ r.State2.is # "none" => r.State2.vbl + guest.touched[d] <= nVBLs + DELAY

AllEarly == on => \A d \in Drives : Early(d)

(* The dialog is open only on a machine that runs, after the user waited. *)
DialogPaused == opened # Closed => on /\ Patient

(* The disk that a name stands for. *)
DiskOf(img) == IF img \in Recognized THEN img ELSE None

(* While the dialog is open the drives still hold what was shown before. *)
Shown == IF opened = Closed THEN name ELSE opened

HoldShown == on => \A d \in Drives : drive[d].sFileName = DiskOf(Shown[d])

(* The guest looked at a drive not long ago. *)
PolledOften == \A d \in Drives : guest.polled[d] <= POLL

(* The disk that was in the drive at the last look was taken out since, by *)
(* an exchange that is in its first phase.                                 *)
TakenOut(d) ==
  LET r == drive[d] IN
  /\ r.State1 = [is |-> "eject", vbl |-> nVBLs - guest.touched[d]]
  /\ r.State2.is # "none" => r.State2.vbl = r.State1.vbl + DELAY
  /\ guest.touched[d] <= guest.polled[d]

SeenOrTakenOut ==
  on => \A d \in Drives :
          guest.saw[d] # None => drive[d].sFileName = guest.saw[d] \/ TakenOut(d)

(* Each drive holds the disk that is named for it, or is empty; a disk is  *)
(* named once.                                                             *)
NamedOnce == name[0] = name[1] => name[0] = None
HoldNamed == \A d \in Drives : drive[d].sFileName \in {None, name[d]}

(* Only the disk of a file that may be written over is to be saved.        *)
SaveAllowed(s, img) ==
  \A d \in Drives : s.drive[d].sFileName = img /\ s.drive[d].bOKToSave =>
    img \in Savable /\ BootSectorOK(s.file[img])

(* What was written to a disk is in its drive, will be saved when it       *)
(* differs from the file, and is in the file when no drive has the disk.   *)
KeptIn(s, written, img) ==
  img \in Savable /\ BootSectorOK(s.file[img]) =>
    /\ \A d \in Drives : s.drive[d].sFileName = img =>
         /\ s.drive[d].pBuffer = written[img]
         /\ s.drive[d].bOKToSave
         /\ ~s.drive[d].bContentsChanged => s.file[img] = written[img]
    /\ (\A d \in Drives : s.drive[d].sFileName # img) => s.file[img] = written[img]

AllKeptIn(s, written) ==
  \A img \in Images : SaveAllowed(s, img) /\ KeptIn(s, written, img)

Now == [drive |-> drive, file |-> file]

Kept == AllKeptIn(Now, guest.written)

EmptyWhenOff == ~on => \A d \in Drives : drive[d].sFileName = None

-----------------------------------------------------------------------------
(* The operators of an exchange. *)

(* The disks of new drives are drives' disks. *)
LEMMA NewDisks ==
  /\ Blank \in Contents
  /\ NewDrive \in Drive
  /\ NewDrive.sFileName = None /\ Timed(NewDrive)
<1>1. (CHOOSE v \in Values : TRUE) \in Values
  BY ContentAssumption
<1>2. Blank \in Contents
  BY <1>1 DEF Blank, Contents
<1> QED
  BY <1>2 DEF NewDrive, Drive, NoPhase, Phases, Names, Timed

(* The empty name names no image.                                          *)
LEMMA NoneIsNoImage == None \notin Images
BY ImagesAssumption

(* Looking at the phases of a drive ends some of them and changes nothing  *)
(* else.                                                                   *)
LEMMA UpdateFacts ==
  ASSUME NEW r \in Drive, nVBLs \in Nat
  PROVE  LET u == UpdateState(r) IN
         /\ u \in Drive
         /\ u = [r EXCEPT !.State1 = u.State1, !.State2 = u.State2]
         /\ Timed(r) => Timed(u)
BY DelayAssumption DEF UpdateState, Drive, Phases, NoPhase, Timed, Elapsed

(* Beginning a phase, too; and it begins now when no phase is going on.    *)
LEMMA SetStateFacts ==
  ASSUME NEW r \in Drive, nVBLs \in Nat, NEW state \in {"insert", "eject"}
  PROVE  LET t == SetState(r, state) IN
         /\ t \in Drive
         /\ t = [r EXCEPT !.State1 = t.State1, !.State2 = t.State2]
         /\ Timed(r) => Timed(t)
<1> DEFINE u == UpdateState(r)
           t == SetState(r, state)
<1>1. /\ u \in Drive
      /\ u = [r EXCEPT !.State1 = u.State1, !.State2 = u.State2]
      /\ Timed(r) => Timed(u)
  BY UpdateFacts
<1>2. \E p1 \in {u.State1, [is |-> state, vbl |-> nVBLs]},
         p2 \in {NoPhase, [is |-> state, vbl |-> u.State1.vbl + DELAY]} :
        /\ t = [u EXCEPT !.State1 = p1, !.State2 = p2]
        /\ p2 # NoPhase => u.State1.is # "none"
  BY <1>1 DEF SetState, Drive, Phases
<1> HIDE DEF u, t
<1>3. PICK p1 \in {u.State1, [is |-> state, vbl |-> nVBLs]},
            p2 \in {NoPhase, [is |-> state, vbl |-> u.State1.vbl + DELAY]} :
        /\ t = [u EXCEPT !.State1 = p1, !.State2 = p2]
        /\ p2 # NoPhase => u.State1.is # "none"
  BY <1>2
<1>4. u.State1 \in Phases /\ u.State1.vbl \in Nat
  BY <1>1 DEF Drive, Phases
<1>5. p1 \in Phases /\ p2 \in Phases
  BY <1>4, DelayAssumption DEF Phases, NoPhase
<1>6. t \in Drive
  BY <1>1, <1>3, <1>5 DEF Drive
<1>7. t = [r EXCEPT !.State1 = t.State1, !.State2 = t.State2]
  BY <1>1, <1>3 DEF Drive
<1>8. t.State1 = p1 /\ t.State2 = p2
  BY <1>1, <1>3 DEF Drive
<1>9. ASSUME Timed(u) PROVE Timed(t)
  <2>1. p1.is # "none" => p1.vbl <= nVBLs
    BY <1>4, <1>9 DEF Timed
  <2>2. CASE p2 = NoPhase
    BY <1>8, <2>1, <2>2 DEF Timed, NoPhase
  <2>3. CASE p2 # NoPhase
    <3>1. u.State1.vbl <= nVBLs
      BY <1>3, <1>9, <2>3 DEF Timed
    <3>2. p2.vbl <= nVBLs + DELAY
      BY <1>4, <2>3, <3>1, DelayAssumption
    <3> QED
      BY <1>8, <2>1, <3>2 DEF Timed
  <2> QED
    BY <2>2, <2>3
<1> QED
  BY <1>1, <1>6, <1>7, <1>9 DEF t

(* An ejected drive is empty, and its disk was saved when it had to be.    *)
LEMMA EjectFacts ==
  ASSUME NEW s \in DisksAndFiles, NEW d \in Drives, nVBLs \in Nat
  PROVE  LET e == EjectDiskFromDrive(s, d) IN
         /\ e \in DisksAndFiles
         /\ e.drive[Other(d)] = s.drive[Other(d)]
         /\ e.drive[d].sFileName = None
         /\ Timed(s.drive[d]) => Timed(e.drive[d])
         /\ s.drive[d].sFileName # None =>
              /\ e.drive[d].State1 = SetState(s.drive[d], "eject").State1
              /\ e.drive[d].State2 = SetState(s.drive[d], "eject").State2
<1> DEFINE r == s.drive[d]
           t == SetState(r, "eject")
           e == EjectDiskFromDrive(s, d)
<1>1. /\ r \in Drive /\ s.drive \in [Drives -> Drive] /\ s.file \in [Images -> Contents]
      /\ d \in {0, 1} /\ Other(d) \in Drives /\ Other(d) # d
  BY DEF DisksAndFiles, Drives, Other
<1>2. CASE r.sFileName = None
  BY <1>1, <1>2 DEF EjectDiskFromDrive
<1>3. CASE r.sFileName # None
  <2>1. t \in Drive /\ (Timed(r) => Timed(t))
    BY <1>1, SetStateFacts
  <2>2. r.sFileName \in Images /\ r.pBuffer \in Contents
    BY <1>1, <1>3 DEF Drive, Names
  <2>3. /\ Empty(t) \in Drive
        /\ Empty(t).sFileName = None
        /\ Empty(t).State1 = t.State1 /\ Empty(t).State2 = t.State2
    <3> HIDE DEF t
    <3> QED
      BY <2>1, NewDisks DEF Empty, Drive, Names
  <2>4. /\ e.drive = [s.drive EXCEPT ![d] = Empty(t)]
        /\ e.file \in {s.file, [s.file EXCEPT ![r.sFileName] = r.pBuffer]}
        /\ e = [drive |-> e.drive, file |-> e.file]
    BY <1>3 DEF EjectDiskFromDrive
  <2> HIDE DEF e, t, r
  <2>5. e.file \in [Images -> Contents]
    BY <1>1, <2>2, <2>4
  <2>6. e.drive \in [Drives -> Drive] /\ e.drive[d] = Empty(t) /\ e.drive[Other(d)] = s.drive[Other(d)]
    BY <1>1, <2>3, <2>4
  <2>7. e \in DisksAndFiles
    BY <2>4, <2>5, <2>6 DEF DisksAndFiles
  <2>8. Timed(r) => Timed(Empty(t))
    BY <2>1, <2>3 DEF Timed
  <2> QED
    BY <1>3, <2>3, <2>6, <2>7, <2>8 DEF e, t, r
<1> QED
  BY <1>2, <1>3

(* What an ejection leaves of the files: only that of its disk may change, *)
(* to what was in the drive.                                               *)
LEMMA EjectKeeps ==
  ASSUME NEW s \in DisksAndFiles, NEW d \in Drives, nVBLs \in Nat, NEW written,
         s.drive[d].sFileName # None => s.drive[Other(d)].sFileName # s.drive[d].sFileName,
         AllKeptIn(s, written)
  PROVE  AllKeptIn(EjectDiskFromDrive(s, d), written)
<1> DEFINE r == s.drive[d]
           e == EjectDiskFromDrive(s, d)
<1>1. /\ e \in DisksAndFiles
      /\ e.drive[Other(d)] = s.drive[Other(d)]
      /\ e.drive[d].sFileName = None
  BY EjectFacts
<1>2. /\ s.drive \in [Drives -> Drive] /\ s.file \in [Images -> Contents]
      /\ Drives = {d, Other(d)}
  BY DEF DisksAndFiles, Drives, Other
<1>3. CASE r.sFileName = None
  BY <1>3 DEF EjectDiskFromDrive
<1>4. CASE r.sFileName # None
  <2>1. e.file = IF r.bContentsChanged /\ r.bOKToSave
                   THEN [s.file EXCEPT ![r.sFileName] = r.pBuffer] ELSE s.file
    BY <1>4 DEF EjectDiskFromDrive
  <2> HIDE DEF e
  <2> SUFFICES ASSUME NEW img \in Images
               PROVE  SaveAllowed(e, img) /\ KeptIn(e, written, img)
    BY DEF AllKeptIn, e
  <2>2. SaveAllowed(s, img) /\ KeptIn(s, written, img)
    BY DEF AllKeptIn
  <2>3. CASE img # r.sFileName
    <3>1. e.file[img] = s.file[img]
      BY <1>2, <2>1, <2>3
    <3>2. SaveAllowed(e, img)
      BY <1>1, <1>2, <2>2, <3>1, NoneIsNoImage DEF SaveAllowed
    <3>3. KeptIn(e, written, img)
      BY <1>1, <1>2, <2>2, <2>3, <3>1, NoneIsNoImage DEF KeptIn
    <3> QED
      BY <3>2, <3>3
  <2>4. CASE img = r.sFileName
    <3>1. \A c \in Drives : e.drive[c].sFileName # img
      BY <1>1, <1>2, <1>4, <2>4
    <3>2. SaveAllowed(e, img)
      BY <3>1 DEF SaveAllowed
    <3>3. KeptIn(e, written, img)
      <4>1. CASE r.bContentsChanged /\ r.bOKToSave
        <5>1. img \in Savable /\ BootSectorOK(s.file[img]) /\ e.file[img] = r.pBuffer
          BY <1>2, <2>1, <2>2, <2>4, <4>1 DEF SaveAllowed
        <5>2. r.pBuffer = written[img]
          BY <2>2, <2>4, <5>1 DEF KeptIn
        <5> QED
          BY <3>1, <5>1, <5>2 DEF KeptIn
      <4>2. CASE ~(r.bContentsChanged /\ r.bOKToSave)
        <5>1. e.file = s.file
          BY <2>1, <4>2
        <5> QED
          BY <2>2, <2>4, <3>1, <4>2, <5>1 DEF KeptIn
      <4> QED
        BY <4>1, <4>2
    <3> QED
      BY <3>2, <3>3
  <2> QED
    BY <2>3, <2>4
<1> QED
  BY <1>3, <1>4

(* An exchange begins with a forced signal when the drive was at rest.     *)
BeginsNow(r) ==
  /\ r.State1 = [is |-> "eject", vbl |-> nVBLs]
  /\ r.State2.is # "none" => r.State2.vbl = nVBLs + DELAY

AtRest(r) == UpdateState(r).State1.is = "none"

LEMMA EjectBegins ==
  ASSUME NEW s \in DisksAndFiles, NEW d \in Drives, nVBLs \in Nat,
         s.drive[d].sFileName # None, AtRest(s.drive[d])
  PROVE  BeginsNow(EjectDiskFromDrive(s, d).drive[d])
<1>1. s.drive[d] \in Drive
  BY DEF DisksAndFiles
<1>2. /\ SetState(s.drive[d], "eject").State1 = [is |-> "eject", vbl |-> nVBLs]
      /\ SetState(s.drive[d], "eject").State2 = NoPhase
  BY <1>1, UpdateFacts DEF SetState, AtRest, Drive
<1> QED
  BY <1>2, EjectFacts DEF BeginsNow, NoPhase

(* The second phase follows the first.                                     *)
LEMMA InsertFollows ==
  ASSUME NEW r \in Drive, nVBLs \in Nat, BeginsNow(r)
  PROVE  BeginsNow(SetState(r, "insert"))
<1> DEFINE u == UpdateState(r)
<1>1. u \in Drive /\ u.State1 = r.State1
  <2>1. ~Elapsed(r.State1)
    BY DelayAssumption DEF Elapsed, BeginsNow
  <2>2. u.State1 = r.State1
    BY <2>1 DEF UpdateState, Drive
  <2> QED
    BY <2>2, UpdateFacts
<1>2. SetState(r, "insert") = [u EXCEPT !.State2 = [is |-> "insert", vbl |-> u.State1.vbl + DELAY]]
  BY <1>1 DEF SetState, BeginsNow
<1> HIDE DEF u
<1> QED
  BY <1>1, <1>2 DEF BeginsNow, Drive

(* The disk of an inserted drive is the named one, if its content is       *)
(* recognized; nothing else of the other drive changes.                    *)
LEMMA InsertFacts ==
  ASSUME NEW s \in DisksAndFiles, NEW d \in Drives, NEW names \in [Drives -> Names], nVBLs \in Nat
  PROVE  LET i == InsertDiskIntoDrive(s, d, names) IN
         /\ i \in DisksAndFiles
         /\ i.drive[Other(d)] = s.drive[Other(d)]
         /\ i.drive[d].sFileName = DiskOf(names[d])
         /\ Timed(s.drive[d]) => Timed(i.drive[d])
         /\ s.drive[d].sFileName # None /\ AtRest(s.drive[d]) => BeginsNow(i.drive[d])
<1> DEFINE e == EjectDiskFromDrive(s, d)
           img == names[d]
           t == SetState(e.drive[d], "insert")
           n == [t EXCEPT !.sFileName = img, !.pBuffer = e.file[img], !.bContentsChanged = FALSE,
                          !.bOKToSave = img \in Savable /\ BootSectorOK(e.file[img])]
           i == InsertDiskIntoDrive(s, d, names)
<1>1. /\ e \in DisksAndFiles
      /\ e.drive[Other(d)] = s.drive[Other(d)]
      /\ e.drive[d].sFileName = None
      /\ Timed(s.drive[d]) => Timed(e.drive[d])
  BY EjectFacts
<1>2. s.drive[d].sFileName # None /\ AtRest(s.drive[d]) => BeginsNow(e.drive[d])
  BY EjectBegins
<1>3. e.drive \in [Drives -> Drive] /\ e.file \in [Images -> Contents] /\ Other(d) # d
  BY <1>1 DEF DisksAndFiles, Drives, Other
<1>4. CASE img \notin Recognized
  BY <1>1, <1>2, <1>4 DEF InsertDiskIntoDrive, DiskOf
<1>5. CASE img \in Recognized
  <2>1. i = [e EXCEPT !.drive = [e.drive EXCEPT ![d] = n]]
    BY <1>1, <1>5 DEF InsertDiskIntoDrive, DisksAndFiles
  <2>2. t \in Drive /\ (Timed(e.drive[d]) => Timed(t))
    BY <1>3, SetStateFacts
  <2>3. BeginsNow(e.drive[d]) => BeginsNow(t)
    BY <1>3, InsertFollows
  <2>4. img \in Images /\ e.file[img] \in Contents
    BY <1>3, <1>5, ImagesAssumption
  <2> HIDE DEF t, e, i
  <2>5. n \in Drive /\ n.sFileName = img /\ n.State1 = t.State1 /\ n.State2 = t.State2
    BY <2>2, <2>4 DEF Drive, Names
  <2> HIDE DEF n
  <2>6. i \in DisksAndFiles /\ i.drive[Other(d)] = s.drive[Other(d)] /\ i.drive[d] = n
    BY <1>1, <1>3, <2>1, <2>5 DEF DisksAndFiles
  <2>7. (Timed(t) => Timed(n)) /\ (BeginsNow(t) => BeginsNow(n))
    BY <2>5 DEF Timed, BeginsNow
  <2>8. i.drive[d].sFileName = DiskOf(img)
    BY <1>5, <2>5, <2>6 DEF DiskOf
  <2> QED
    BY <1>1, <1>2, <2>2, <2>3, <2>6, <2>7, <2>8 DEF i, e
<1> QED
  BY <1>4, <1>5

(* Two drives never have the same disk.                                    *)
Apart(s, names, d) ==
  LET there == s.drive[Other(d)].sFileName IN
  there # None => there # s.drive[d].sFileName /\ there # names[d]

(* A disk is read from a file that has what was written to it.             *)
LEMMA InsertKeeps ==
  ASSUME NEW s \in DisksAndFiles, NEW d \in Drives, NEW names \in [Drives -> Names], nVBLs \in Nat,
         NEW written, Apart(s, names, d), AllKeptIn(s, written)
  PROVE  AllKeptIn(InsertDiskIntoDrive(s, d, names), written)
<1> DEFINE e == EjectDiskFromDrive(s, d)
           img == names[d]
           i == InsertDiskIntoDrive(s, d, names)
           n == i.drive[d]
<1>1. AllKeptIn(e, written)
  BY EjectKeeps DEF Apart
<1>2. /\ e \in DisksAndFiles
      /\ e.drive[Other(d)] = s.drive[Other(d)]
      /\ e.drive[d].sFileName = None
  BY EjectFacts
<1>3. /\ e.drive \in [Drives -> Drive]
      /\ Drives = {d, Other(d)} /\ Other(d) # d
  BY <1>2 DEF DisksAndFiles, Drives, Other
<1>4. CASE img \notin Recognized
  BY <1>1, <1>4 DEF InsertDiskIntoDrive
<1>5. CASE img \in Recognized
  <2>1. SetState(e.drive[d], "insert") \in Drive
    BY <1>3, SetStateFacts
  <2>2. /\ i.file = e.file
        /\ i.drive[Other(d)] = e.drive[Other(d)]
        /\ n.sFileName = img
        /\ n.pBuffer = e.file[img]
        /\ n.bContentsChanged = FALSE
        /\ n.bOKToSave = (img \in Savable /\ BootSectorOK(e.file[img]))
    BY <1>2, <1>3, <1>5, <2>1 DEF InsertDiskIntoDrive, DisksAndFiles, Drive
  <2>3. img \in Images /\ img # None
    BY <1>5, ImagesAssumption
  <2>4. \A c \in Drives : e.drive[c].sFileName # img
    BY <1>2, <1>3, <2>3 DEF Apart
  <2> HIDE DEF i, e, n
  <2>5. ASSUME NEW j \in Images PROVE SaveAllowed(i, j) /\ KeptIn(i, written, j)
    <3>1. SaveAllowed(e, j) /\ KeptIn(e, written, j)
      BY <1>1 DEF AllKeptIn
    <3>2. CASE j = img
      <4>1. KeptIn(i, written, j)
        BY <1>3, <2>2, <2>4, <3>1, <3>2 DEF KeptIn, n
      <4>2. SaveAllowed(i, j)
        BY <1>3, <2>2, <2>4, <3>1, <3>2 DEF SaveAllowed, n
      <4> QED
        BY <4>1, <4>2
    <3>3. CASE j # img
      <4>1. j # None
        BY NoneIsNoImage
      <4>2. i.drive[d].sFileName # j /\ e.drive[d].sFileName # j
        BY <1>2, <2>2, <3>3, <4>1 DEF n
      <4>3. KeptIn(i, written, j)
        BY <1>3, <2>2, <3>1, <4>2 DEF KeptIn
      <4>4. SaveAllowed(i, j)
        BY <1>3, <2>2, <3>1, <4>2 DEF SaveAllowed
      <4> QED
        BY <4>3, <4>4
    <3> QED
      BY <3>2, <3>3
  <2> QED
    BY <2>5 DEF AllKeptIn, i
<1> QED
  BY <1>4, <1>5

(* The drives of a set are filled, the others stay as they are.            *)
LEMMA InsertAllFacts ==
  ASSUME NEW s \in DisksAndFiles, NEW D \in SUBSET Drives, NEW names \in [Drives -> Names], nVBLs \in Nat
  PROVE  LET i == InsertAll(s, D, names) IN
         /\ i \in DisksAndFiles
         /\ \A d \in Drives \ D : i.drive[d] = s.drive[d]
         /\ \A d \in D :
              /\ i.drive[d].sFileName = DiskOf(names[d])
              /\ Timed(s.drive[d]) => Timed(i.drive[d])
              /\ s.drive[d].sFileName # None /\ AtRest(s.drive[d]) => BeginsNow(i.drive[d])
<1> DEFINE a == IF 0 \in D THEN InsertDiskIntoDrive(s, 0, names) ELSE s
           i == InsertAll(s, D, names)
<1>1. 0 \in Drives /\ 1 \in Drives /\ Other(0) = 1 /\ Other(1) = 0 /\ D \subseteq {0, 1} /\ Drives = {0, 1}
  BY DEF Drives, Other
<1>2. /\ a \in DisksAndFiles
      /\ a.drive[1] = s.drive[1]
      /\ 0 \notin D => a.drive[0] = s.drive[0]
      /\ 0 \in D =>
           /\ a.drive[0].sFileName = DiskOf(names[0])
           /\ Timed(s.drive[0]) => Timed(a.drive[0])
           /\ s.drive[0].sFileName # None /\ AtRest(s.drive[0]) => BeginsNow(a.drive[0])
  BY <1>1, InsertFacts
<1>3. i = IF 1 \in D THEN InsertDiskIntoDrive(a, 1, names) ELSE a
  BY DEF InsertAll
<1> HIDE DEF a, i
<1>4. /\ i \in DisksAndFiles
      /\ i.drive[0] = a.drive[0]
      /\ 1 \notin D => i.drive[1] = a.drive[1]
      /\ 1 \in D =>
           /\ i.drive[1].sFileName = DiskOf(names[1])
           /\ Timed(a.drive[1]) => Timed(i.drive[1])
           /\ a.drive[1].sFileName # None /\ AtRest(a.drive[1]) => BeginsNow(i.drive[1])
  BY <1>1, <1>2, <1>3, InsertFacts
<1> SUFFICES /\ i \in DisksAndFiles
             /\ \A d \in Drives \ D : i.drive[d] = s.drive[d]
             /\ \A d \in D :
                  /\ i.drive[d].sFileName = DiskOf(names[d])
                  /\ Timed(s.drive[d]) => Timed(i.drive[d])
                  /\ s.drive[d].sFileName # None /\ AtRest(s.drive[d]) => BeginsNow(i.drive[d])
  BY DEF i
<1> QED
  BY <1>1, <1>2, <1>4

(* Drive A filled first, then perhaps drive B: no disk is read too early.  *)
LEMMA InsertAllKeeps ==
  ASSUME NEW s \in DisksAndFiles, NEW D \in SUBSET Drives, NEW names \in [Drives -> Names], nVBLs \in Nat,
         NEW written, 0 \in D, Apart(s, names, 0), names[0] = names[1] => names[0] = None,
         AllKeptIn(s, written)
  PROVE  AllKeptIn(InsertAll(s, D, names), written)
<1> DEFINE a == InsertDiskIntoDrive(s, 0, names)
<1>1. 0 \in Drives /\ 1 \in Drives /\ Other(0) = 1 /\ Other(1) = 0
  BY DEF Drives, Other
<1>2. /\ a \in DisksAndFiles
      /\ a.drive[1] = s.drive[1]
      /\ a.drive[0].sFileName = DiskOf(names[0])
  BY <1>1, InsertFacts
<1>3. AllKeptIn(a, written)
  BY <1>1, InsertKeeps
<1>4. Apart(a, names, 1)
  BY <1>1, <1>2 DEF Apart, DiskOf
<1>5. InsertAll(s, D, names) = IF 1 \in D THEN InsertDiskIntoDrive(a, 1, names) ELSE a
  BY DEF InsertAll
<1> HIDE DEF a
<1> QED
  BY <1>1, <1>2, <1>3, <1>4, <1>5, InsertKeeps

-----------------------------------------------------------------------------
(* The actions. *)

(* What every exchange of disks does: the drives touched.                  *)
ExchangedBy(D) ==
  /\ on /\ Patient
  /\ drive' \in [Drives -> Drive] /\ file' \in [Images -> Contents]
  /\ guest' = [guest EXCEPT !.touched = [d \in Drives |-> IF d \in D THEN 0 ELSE @[d]]]
  /\ opened' = Closed
  /\ nVBLs' = nVBLs /\ on' = on
  /\ \A d \in Drives \ D : drive'[d] = drive[d]
  /\ \A d \in D : Timed(drive[d]) => Timed(drive'[d])
  /\ \A d \in D : drive[d].sFileName # None /\ AtRest(drive[d]) => BeginsNow(drive'[d])

LEMMA SetDiskFileNameType ==
  ASSUME NEW names \in [Drives -> Names], NEW d \in Drives, NEW img \in Names
  PROVE  SetDiskFileName(names, d, img) \in [Drives -> Names]
<1>1. ASSUME NEW f \in [Drives -> Names], NEW c \in Drives, NEW j \in Names
      PROVE  SetOneName(f, c, j) \in [Drives -> Names]
  BY DEF SetOneName
<1>2. 0 \in Drives /\ 1 \in Drives
  BY DEF Drives
<1>3. img \in Images => PartnerB[img] \in Names
  BY ImagesAssumption DEF Names
<1> QED
  BY <1>1, <1>2, <1>3 DEF SetDiskFileName

(* The drives and the files as they are.                                   *)
LEMMA NowType == TypeOK => Now \in DisksAndFiles /\ Now.drive = drive /\ Now.file = file
BY DEF TypeOK, Now, DisksAndFiles

(* Disks inserted into a set of drives are an exchange of these.           *)
LEMMA InsertExchanges ==
  ASSUME TypeOK, on, Patient, NEW D \in SUBSET Drives, NEW names \in [Drives -> Names],
         Exchange(InsertAll(Now, D, names), D), opened' = Closed, MachineUnchanged
  PROVE  ExchangedBy(D) /\ \A d \in D : drive'[d].sFileName = DiskOf(names[d])
<1> DEFINE i == InsertAll(Now, D, names)
<1>1. nVBLs \in Nat
  BY DEF TypeOK
<1>2. /\ i \in DisksAndFiles
      /\ \A d \in Drives \ D : i.drive[d] = drive[d]
      /\ \A d \in D :
           /\ i.drive[d].sFileName = DiskOf(names[d])
           /\ Timed(drive[d]) => Timed(i.drive[d])
           /\ drive[d].sFileName # None /\ AtRest(drive[d]) => BeginsNow(i.drive[d])
  <2>1. Now \in DisksAndFiles /\ Now.drive = drive
    BY NowType
  <2>2. /\ i \in DisksAndFiles
        /\ \A d \in Drives \ D : i.drive[d] = Now.drive[d]
        /\ \A d \in D :
             /\ i.drive[d].sFileName = DiskOf(names[d])
             /\ Timed(Now.drive[d]) => Timed(i.drive[d])
             /\ Now.drive[d].sFileName # None /\ AtRest(Now.drive[d]) => BeginsNow(i.drive[d])
    BY <1>1, <2>1, InsertAllFacts
  <2> HIDE DEF i
  <2> QED
    BY <2>1, <2>2
<1>3. drive' = i.drive /\ file' = i.file
  BY DEF Exchange
<1>4. i.drive \in [Drives -> Drive] /\ i.file \in [Images -> Contents]
  BY <1>2 DEF DisksAndFiles
<1> HIDE DEF i
<1> QED
  BY <1>2, <1>3, <1>4 DEF ExchangedBy, Exchange, MachineUnchanged

LEMMA ShortCutExchanges ==
  ASSUME TypeOK, NEW d \in Drives, NEW img \in Names, ShortCut_InsertDisk(d, img)
  PROVE  LET D == InsertedByShortcut(d, name, name') IN
         /\ name' \in [Drives -> Names]
         /\ D \in SUBSET Drives
         /\ ExchangedBy(D)
         /\ \A c \in D : drive'[c].sFileName = DiskOf(name'[c])
<1>1. name' \in [Drives -> Names]
  BY SetDiskFileNameType DEF ShortCut_InsertDisk, TypeOK
<1>2. InsertedByShortcut(d, name, name') \in SUBSET Drives
  BY DEF InsertedByShortcut, Drives
<1>3. /\ on /\ Patient /\ opened' = Closed /\ MachineUnchanged
      /\ Exchange(InsertAll(Now, InsertedByShortcut(d, name, name'), name'), InsertedByShortcut(d, name, name'))
  BY DEF ShortCut_InsertDisk, Running, Now
<1> QED
  BY <1>1, <1>2, <1>3, InsertExchanges

LEMMA DialogExchanges ==
  ASSUME TypeOK, DialogPaused, Dialog_OK
  PROVE  ExchangedBy(Changed) /\ \A c \in Changed : drive'[c].sFileName = DiskOf(name[c])
<1>1. name \in [Drives -> Names] /\ Changed \in SUBSET Drives
  BY DEF TypeOK, Changed
<1>2. /\ on /\ Patient /\ opened' = Closed /\ MachineUnchanged
      /\ Exchange(InsertAll(Now, Changed, name), Changed)
  BY DEF Dialog_OK, DialogPaused, Now
<1> QED
  BY <1>1, <1>2, InsertExchanges

LEMMA LoadExchanges ==
  ASSUME TypeOK, NEW img \in Names, retro_load_game(img)
  PROVE  /\ name' \in [Drives -> Names]
         /\ ExchangedBy({0})
         /\ drive'[0].sFileName = DiskOf(name'[0])
<1>1. 0 \in Drives /\ {0} \in SUBSET Drives
  BY DEF Drives
<1>2. name' \in [Drives -> Names]
  BY <1>1, SetDiskFileNameType DEF retro_load_game, TypeOK
<1>3. /\ on /\ Patient /\ opened' = Closed /\ MachineUnchanged
      /\ Exchange(InsertAll(Now, {0}, name'), {0})
  BY DEF retro_load_game, Running, Now
<1> QED
  BY <1>1, <1>2, <1>3, InsertExchanges

LEMMA UnloadExchanges ==
  ASSUME TypeOK, retro_unload_game
  PROVE  ExchangedBy({0}) /\ drive'[0].sFileName = None
<1> DEFINE e == EjectDiskFromDrive(Now, 0)
<1>1. 0 \in Drives /\ Other(0) = 1 /\ Drives \ {0} = {1} /\ nVBLs \in Nat
  BY DEF Drives, Other, TypeOK
<1>2. /\ e \in DisksAndFiles
      /\ e.drive[1] = drive[1]
      /\ e.drive[0].sFileName = None
      /\ Timed(drive[0]) => Timed(e.drive[0])
  BY <1>1, NowType, EjectFacts
<1>3. drive[0].sFileName # None /\ AtRest(drive[0]) => BeginsNow(e.drive[0])
  BY <1>1, NowType, EjectBegins
<1>4. e.drive \in [Drives -> Drive] /\ e.file \in [Images -> Contents]
  BY <1>2 DEF DisksAndFiles
<1>5. /\ on /\ Patient /\ opened' = Closed /\ MachineUnchanged
      /\ Exchange(e, {0})
  BY DEF retro_unload_game, Running, Now
<1> HIDE DEF e
<1> QED
  BY <1>1, <1>2, <1>3, <1>4, <1>5 DEF ExchangedBy, Exchange, MachineUnchanged

(* The emulator starts with drives at rest that hold the named disks.      *)
LEMMA StartedFacts ==
  ASSUME TypeOK
  PROVE  /\ Started(file) \in [Drives -> Drive]
         /\ \A d \in Drives :
              /\ Started(file)[d].State1 = NoPhase /\ Started(file)[d].State2 = NoPhase
              /\ Started(file)[d].sFileName = DiskOf(name[d])
<1> DEFINE s == [drive |-> [d \in Drives |-> NewDrive], file |-> file]
           i == InsertAll(s, Drives, name)
<1>1. s \in DisksAndFiles
  BY NewDisks DEF DisksAndFiles, TypeOK
<1>2. name \in [Drives -> Names] /\ nVBLs \in Nat
  BY DEF TypeOK
<1>3. i \in DisksAndFiles /\ \A d \in Drives : i.drive[d].sFileName = DiskOf(name[d])
  <2> HIDE DEF s
  <2>1. Drives \in SUBSET Drives
    OBVIOUS
  <2> QED
    BY <1>1, <1>2, <2>1, InsertAllFacts
<1>4. Started(file) = [d \in Drives |-> Floppy_Reset(i.drive[d])]
  BY DEF Started
<1> HIDE DEF i
<1>5. i.drive \in [Drives -> Drive]
  BY <1>3 DEF DisksAndFiles
<1>6. ASSUME NEW r \in Drive
      PROVE  /\ Floppy_Reset(r) \in Drive
             /\ Floppy_Reset(r).State1 = NoPhase /\ Floppy_Reset(r).State2 = NoPhase
             /\ Floppy_Reset(r).sFileName = r.sFileName
  BY DEF Floppy_Reset, Drive, NoPhase, Phases
<1> QED
  BY <1>3, <1>4, <1>5, <1>6

(* The emulator ends with empty drives.                                    *)
LEMMA EndedFacts ==
  ASSUME TypeOK, Floppy_UnInit
  PROVE  /\ drive' \in [Drives -> Drive] /\ file' \in [Images -> Contents]
         /\ \A d \in Drives : drive'[d].sFileName = None
<1> DEFINE a == EjectDiskFromDrive(Now, 0)
           e == EjectDiskFromDrive(a, 1)
<1>1. 0 \in Drives /\ 1 \in Drives /\ Other(0) = 1 /\ Other(1) = 0 /\ Drives = {0, 1} /\ nVBLs \in Nat
  BY DEF Drives, Other, TypeOK
<1>2. a \in DisksAndFiles /\ a.drive[0].sFileName = None
  BY <1>1, NowType, EjectFacts
<1> HIDE DEF a
<1>3. e \in DisksAndFiles /\ e.drive[0] = a.drive[0] /\ e.drive[1].sFileName = None
  BY <1>1, <1>2, EjectFacts
<1>4. drive' = e.drive /\ file' = e.file
  BY DEF Floppy_UnInit, Now, a
<1> HIDE DEF e
<1> QED
  BY <1>1, <1>2, <1>3, <1>4 DEF DisksAndFiles

(* The guest's part of the history keeps its type.                         *)
LEMMA ExchangedType ==
  ASSUME TypeOK, NEW D \in SUBSET Drives, ExchangedBy(D), name' \in [Drives -> Names]
  PROVE  TypeOK'
<1>1. guest' \in Guest
  BY DelayAssumption DEF TypeOK, ExchangedBy, Guest, Long
<1> QED
  BY <1>1 DEF TypeOK, ExchangedBy

LEMMA InitType == Init => TypeOK
<1> SUFFICES ASSUME Init PROVE TypeOK
  OBVIOUS
<1> USE NewDisks, DelayAssumption DEF Init
<1>1. file \in [Images -> Contents]
  OBVIOUS
<1>2. guest \in Guest
  BY <1>1 DEF Guest, Names, Long
<1>3. name \in [Drives -> Names] /\ drive \in [Drives -> Drive]
  BY DEF Names
<1> QED
  BY <1>1, <1>2, <1>3 DEF TypeOK

LEMMA UserType == ASSUME TypeOK, DialogPaused, User PROVE TypeOK'
<1>1. ASSUME NEW d \in Drives, NEW img \in Names, ShortCut_InsertDisk(d, img) PROVE TypeOK'
  BY <1>1, ShortCutExchanges, ExchangedType
<1>2. CASE Dialog_Open
  BY <1>2 DEF TypeOK, Dialog_Open, MachineUnchanged
<1>3. ASSUME NEW d \in Drives, NEW img \in Names, DlgFloppy_Set(d, img) PROVE TypeOK'
  BY <1>3, SetDiskFileNameType DEF TypeOK, DlgFloppy_Set, MachineUnchanged
<1>4. CASE Dialog_Cancel
  BY <1>4 DEF TypeOK, Dialog_Cancel, MachineUnchanged
<1>5. CASE Dialog_OK
  <2>1. Changed \in SUBSET Drives /\ name' \in [Drives -> Names]
    BY <1>5 DEF Changed, Dialog_OK, TypeOK
  <2> QED
    BY <1>5, <2>1, DialogExchanges, ExchangedType
<1>6. ASSUME NEW img \in Names, retro_load_game(img) PROVE TypeOK'
  <2>1. {0} \in SUBSET Drives
    BY DEF Drives
  <2> QED
    BY <1>6, <2>1, LoadExchanges, ExchangedType
<1>7. CASE retro_unload_game
  <2>1. {0} \in SUBSET Drives /\ name' \in [Drives -> Names]
    BY <1>7 DEF Drives, retro_unload_game, TypeOK
  <2> QED
    BY <1>7, <2>1, UnloadExchanges, ExchangedType
<1> QED
  BY <1>1, <1>2, <1>3, <1>4, <1>5, <1>6, <1>7 DEF User

LEMMA MachineType == ASSUME TypeOK, Machine PROVE TypeOK'
<1> USE DEF TypeOK
<1>1. CASE VBL
  <2>1. guest' \in Guest
    <3> DEFINE polled == [d \in Drives |-> guest.polled[d] + 1]
               touched == [d \in Drives |-> IF guest.touched[d] < Long
                                              THEN guest.touched[d] + 1 ELSE guest.touched[d]]
    <3>1. guest' = [guest EXCEPT !.polled = polled, !.touched = touched]
      BY <1>1 DEF VBL, Guest
    <3>2. polled \in [Drives -> 0..Long] /\ touched \in [Drives -> 0..Long]
      BY <1>1, DelayAssumption DEF VBL, Guest, Long
    <3> HIDE DEF polled, touched
    <3> QED
      BY <3>1, <3>2 DEF Guest
  <2> QED
    BY <1>1, <2>1 DEF VBL
<1>2. ASSUME NEW d \in Drives, ReadStatus(d) PROVE TypeOK'
  <2>1. drive' \in [Drives -> Drive]
    BY <1>2, UpdateFacts DEF ReadStatus
  <2>2. drive[d].sFileName \in Names /\ None \in Names
    BY DEF Drive, Names
  <2>3. guest' \in Guest
    <3>1. PICK seen \in Names : guest' = [guest EXCEPT !.saw[d] = seen, !.polled[d] = 0]
      BY <1>2, <2>2 DEF ReadStatus
    <3>2. 0 \in 0..Long
      BY DelayAssumption DEF Long
    <3>3. guest' = [guest EXCEPT !.saw = [guest.saw EXCEPT ![d] = seen],
                                 !.polled = [guest.polled EXCEPT ![d] = 0]]
      BY <3>1 DEF Guest
    <3>4. /\ [guest.saw EXCEPT ![d] = seen] \in [Drives -> Names]
          /\ [guest.polled EXCEPT ![d] = 0] \in [Drives -> 0..Long]
      BY <3>2 DEF Guest
    <3> QED
      BY <3>3, <3>4 DEF Guest
  <2> QED
    BY <1>2, <2>1, <2>3 DEF ReadStatus
<1>3. ASSUME NEW d \in Drives, NEW s \in Sectors, NEW v \in Values, Floppy_WriteSectors(d, s, v)
      PROVE  TypeOK'
  <2>1. drive[d] \in Drive /\ drive[d].pBuffer \in Contents /\ drive[d].sFileName \in Images
    BY <1>3 DEF Floppy_WriteSectors, Drive, Names
  <2>2. [drive[d].pBuffer EXCEPT ![s] = v] \in Contents
    BY <2>1 DEF Contents
  <2>3. drive' \in [Drives -> Drive]
    BY <1>3, <2>1, <2>2 DEF Floppy_WriteSectors, Drive
  <2>4. guest' \in Guest
    <3>1. PICK content \in Contents : guest' = [guest EXCEPT !.written[drive[d].sFileName] = content]
      BY <1>3, <2>2 DEF Floppy_WriteSectors
    <3> QED
      BY <2>1, <3>1 DEF Guest
  <2> QED
    BY <1>3, <2>3, <2>4 DEF Floppy_WriteSectors
<1>4. Unseen \in Guest
  BY DelayAssumption DEF Unseen, Guest, Names, Long
<1>5. CASE Reset_ST
  <2>1. \A r \in Drive : Floppy_Reset(r) \in Drive
    BY DEF Floppy_Reset, Drive, NoPhase, Phases
  <2>2. drive' \in [Drives -> Drive]
    BY <1>5, <2>1 DEF Reset_ST
  <2> QED
    BY <1>4, <1>5, <2>2 DEF Reset_ST
<1>6. CASE Floppy_UnInit
  BY <1>6, EndedFacts DEF Floppy_UnInit
<1>7. CASE Floppy_Init
  BY <1>4, <1>7, StartedFacts DEF Floppy_Init
<1> QED
  BY <1>1, <1>2, <1>3, <1>5, <1>6, <1>7 DEF Machine

-----------------------------------------------------------------------------
(* The invariant that the theorems share. *)

IInv == TypeOK /\ DialogPaused /\ PolledOften /\ AllEarly

LEMMA InitInv == Init => IInv
<1> SUFFICES ASSUME Init PROVE IInv
  OBVIOUS
<1>1. TypeOK
  BY InitType
<1>2. DialogPaused /\ PolledOften
  BY DelayAssumption DEF Init, DialogPaused, PolledOften
<1>3. AllEarly
  BY DEF Init, AllEarly, Early, NewDrive, NoPhase
<1> QED
  BY <1>1, <1>2, <1>3 DEF IInv

(* Each exchange is one of these.                                          *)
LEMMA UserExchanges ==
  ASSUME TypeOK, DialogPaused, User
  PROVE  \/ \E D \in SUBSET Drives : ExchangedBy(D)
         \/ /\ UNCHANGED <<drive, file, guest, nVBLs, on>>
            /\ \/ on /\ Patient
               \/ opened' = opened \/ opened' = Closed
<1>1. {0} \in SUBSET Drives /\ Changed \in SUBSET Drives
  BY DEF Drives, Changed
<1>2. ASSUME NEW d \in Drives, NEW img \in Names, ShortCut_InsertDisk(d, img)
      PROVE  \E D \in SUBSET Drives : ExchangedBy(D)
  BY <1>2, ShortCutExchanges
<1>3. ASSUME NEW img \in Names, retro_load_game(img)
      PROVE  \E D \in SUBSET Drives : ExchangedBy(D)
  BY <1>1, <1>3, LoadExchanges
<1>4. CASE Dialog_OK
  BY <1>1, <1>4, DialogExchanges
<1>5. CASE retro_unload_game
  BY <1>1, <1>5, UnloadExchanges
<1>6. CASE Dialog_Open \/ Dialog_Cancel \/ \E d \in Drives, img \in Names : DlgFloppy_Set(d, img)
  BY <1>6 DEF Dialog_Open, Running, Dialog_Cancel, DlgFloppy_Set, MachineUnchanged
<1> QED
  BY <1>2, <1>3, <1>4, <1>5, <1>6 DEF User

LEMMA PausedStep == ASSUME TypeOK, DialogPaused, Next PROVE DialogPaused'
<1>1. CASE User
  <2>1. CASE \E D \in SUBSET Drives : ExchangedBy(D)
    BY <2>1 DEF ExchangedBy, DialogPaused
  <2>2. CASE UNCHANGED <<drive, file, guest, nVBLs, on>>
    BY <1>1, <2>2, UserExchanges, <2>1 DEF DialogPaused, Patient
  <2> QED
    BY <1>1, <2>1, <2>2, UserExchanges
<1>2. CASE Machine
  <2>1. opened = Closed /\ opened' = opened
    BY <1>2 DEF Machine, VBL, ReadStatus, Floppy_WriteSectors, Reset_ST, Floppy_UnInit, Floppy_Init,
       Running, DialogPaused
  <2> QED
    BY <2>1 DEF DialogPaused
<1> QED
  BY <1>1, <1>2 DEF Next

LEMMA PolledStep == ASSUME TypeOK, DialogPaused, PolledOften, Next PROVE PolledOften'
<1>1. CASE User
  <2>1. guest'.polled = guest.polled
    <3>1. CASE \E D \in SUBSET Drives : ExchangedBy(D)
      BY <3>1 DEF ExchangedBy, TypeOK, Guest
    <3>2. CASE UNCHANGED <<drive, file, guest, nVBLs, on>>
      BY <3>2
    <3> QED
      BY <1>1, <3>1, <3>2, UserExchanges
  <2> QED
    BY <2>1 DEF PolledOften
<1>2. CASE VBL
  BY <1>2, DelayAssumption DEF VBL, PolledOften, TypeOK, Guest, Long
<1>3. ASSUME NEW d \in Drives, ReadStatus(d) PROVE PolledOften'
  <2>1. guest'.polled = [guest.polled EXCEPT ![d] = 0]
    BY <1>3 DEF ReadStatus, TypeOK, Guest
  <2>2. guest.polled \in [Drives -> 0..Long]
    BY DEF TypeOK, Guest
  <2> QED
    BY <2>1, <2>2, DelayAssumption DEF PolledOften
<1>4. ASSUME NEW d \in Drives, NEW s \in Sectors, NEW v \in Values, Floppy_WriteSectors(d, s, v)
      PROVE  PolledOften'
  <2>1. guest'.polled = guest.polled
    BY <1>4 DEF Floppy_WriteSectors, TypeOK, Guest
  <2> QED
    BY <2>1 DEF PolledOften
<1>5. CASE Floppy_UnInit
  BY <1>5 DEF Floppy_UnInit, PolledOften
<1>6. CASE Reset_ST \/ Floppy_Init
  BY <1>6, DelayAssumption DEF Reset_ST, Floppy_Init, Unseen, PolledOften
<1> QED
  BY <1>1, <1>2, <1>3, <1>4, <1>5, <1>6 DEF Next, Machine

LEMMA EarlyStep == ASSUME TypeOK, DialogPaused, AllEarly, Next PROVE AllEarly'
<1>1. /\ nVBLs \in Nat /\ drive \in [Drives -> Drive]
      /\ guest \in Guest /\ guest.touched \in [Drives -> 0..Long] /\ Long \in Nat
  BY DelayAssumption DEF TypeOK, Guest, Long
<1>2. CASE User
  <2>1. ASSUME NEW D \in SUBSET Drives, ExchangedBy(D) PROVE AllEarly'
    <3> SUFFICES ASSUME NEW d \in Drives PROVE Early(d)'
      BY DEF AllEarly
    <3>1. Early(d)
      BY <2>1 DEF ExchangedBy, AllEarly
    <3>2. guest'.touched = [c \in Drives |-> IF c \in D THEN 0 ELSE guest.touched[c]]
      BY <1>1, <2>1 DEF ExchangedBy, Guest
    <3>3. CASE d \notin D
      BY <2>1, <3>1, <3>2, <3>3 DEF ExchangedBy, Early
    <3>4. CASE d \in D
      <4>1. Timed(drive[d])
        BY <1>1, <3>1, DelayAssumption DEF Early, Timed, Drive, Phases
      <4>2. Timed(drive'[d]) /\ nVBLs' = nVBLs /\ drive' \in [Drives -> Drive]
        BY <2>1, <3>4, <4>1 DEF ExchangedBy
      <4>3. guest'.touched[d] = 0
        BY <3>2, <3>4
      <4> QED
        BY <4>2, <4>3 DEF Early, Timed, Drive, Phases
    <3> QED
      BY <3>3, <3>4
  <2>2. CASE UNCHANGED <<drive, file, guest, nVBLs, on>>
    BY <2>2 DEF AllEarly, Early
  <2> QED
    BY <1>2, <2>1, <2>2, UserExchanges
<1>3. CASE VBL
  <2>1. /\ guest'.touched = [d \in Drives |-> IF guest.touched[d] < Long
                                                 THEN guest.touched[d] + 1 ELSE guest.touched[d]]
        /\ nVBLs' = nVBLs + 1 /\ drive' = drive /\ on
    BY <1>1, <1>3 DEF VBL, Running, Guest
  <2> SUFFICES ASSUME NEW d \in Drives PROVE Early(d)'
    BY DEF AllEarly
  <2>2. Early(d)
    BY <2>1 DEF AllEarly
  <2>3. drive[d].State1.vbl \in Nat /\ drive[d].State2.vbl \in Nat
    BY <1>1 DEF Drive, Phases
  <2>4. guest'.touched[d] <= guest.touched[d] + 1 /\ guest'.touched[d] \in Nat /\ guest.touched[d] \in Nat
    BY <1>1, <2>1
  <2> QED
    BY <1>1, <2>1, <2>2, <2>3, <2>4, DelayAssumption DEF Early
<1>4. ASSUME NEW c \in Drives, ReadStatus(c) PROVE AllEarly'
  <2>1. guest'.touched = guest.touched /\ nVBLs' = nVBLs /\ on
    BY <1>1, <1>4 DEF ReadStatus, Running, Guest
  <2>2. drive' = [drive EXCEPT ![c] = UpdateState(@)]
    BY <1>4 DEF ReadStatus
  <2> SUFFICES ASSUME NEW d \in Drives PROVE Early(d)'
    BY DEF AllEarly
  <2>3. Early(d)
    BY <2>1 DEF AllEarly
  <2>4. /\ drive'[d].State1 \in {drive[d].State1, NoPhase}
        /\ drive'[d].State2 \in {drive[d].State2, NoPhase}
    BY <1>1, <2>2 DEF UpdateState, Drive
  <2> QED
    BY <2>1, <2>3, <2>4 DEF Early, NoPhase
<1>5. ASSUME NEW c \in Drives, NEW s \in Sectors, NEW v \in Values, Floppy_WriteSectors(c, s, v)
      PROVE  AllEarly'
  <2>1. guest'.touched = guest.touched /\ nVBLs' = nVBLs /\ on' = on
    BY <1>1, <1>5 DEF Floppy_WriteSectors, Guest
  <2>2. \A d \in Drives : drive'[d].State1 = drive[d].State1 /\ drive'[d].State2 = drive[d].State2
    BY <1>1, <1>5 DEF Floppy_WriteSectors, Drive
  <2> QED
    BY <2>1, <2>2 DEF AllEarly, Early
<1>6. CASE Reset_ST
  BY <1>1, <1>6 DEF Reset_ST, Floppy_Reset, AllEarly, Early, Drive, NoPhase
<1>7. CASE Floppy_UnInit
  BY <1>7 DEF Floppy_UnInit, AllEarly
<1>8. CASE Floppy_Init
  BY <1>8, StartedFacts DEF Floppy_Init, AllEarly, Early, NoPhase
<1> QED
  BY <1>2, <1>3, <1>4, <1>5, <1>6, <1>7, <1>8 DEF Next, Machine

LEMMA InvStep == IInv /\ [Next]_vars => IInv'
<1> SUFFICES ASSUME IInv, [Next]_vars PROVE IInv'
  OBVIOUS
<1>1. CASE Next
  BY <1>1, UserType, MachineType, PausedStep, PolledStep, EarlyStep DEF IInv, Next
<1>2. CASE UNCHANGED vars
  BY <1>2 DEF vars, IInv, TypeOK, DialogPaused, Patient, PolledOften, AllEarly, Early
<1> QED
  BY <1>1, <1>2

LEMMA InvAlways == Spec => []IInv
BY InitInv, InvStep, PTL DEF Spec

(* The drives, the files, the names and the history are of their types in  *)
(* every session.                                                          *)
THEOREM FloppyTypeCorrect == Spec => []TypeOK
<1>1. IInv => TypeOK
  BY DEF IInv
<1> QED
  BY <1>1, InvAlways, PTL

(* The forced write protect signal ends two phases after the last exchange *)
(* of a drive, however the disks were changed before.                      *)
THEOREM TransitionsEnd == Spec => []TransitionEnds
<1>1. IInv => TransitionEnds
  <2> SUFFICES ASSUME IInv, NEW d \in Drives, on, guest.touched[d] = Long
               PROVE  ~ForcedWPRT(drive[d])
    BY DEF TransitionEnds
  <2>1. Early(d) /\ nVBLs \in Nat /\ drive[d] \in Drive
    BY DEF IInv, AllEarly, TypeOK
  <2>2. drive[d].State1.vbl \in Nat /\ drive[d].State2.vbl \in Nat
    BY <2>1 DEF Drive, Phases
  <2>3. /\ drive[d].State1.is # "none" => Elapsed(drive[d].State1)
        /\ drive[d].State2.is # "none" => Elapsed(drive[d].State2)
    BY <2>1, <2>2, DelayAssumption DEF Early, Elapsed, Long
  <2>4. LET u == UpdateState(drive[d]) IN u.State1.is = "none" /\ u.State2.is = "none"
    BY <2>1, <2>3 DEF UpdateState, NoPhase, Drive
  <2> QED
    BY <2>4 DEF ForcedWPRT
<1> QED
  BY <1>1, InvAlways, PTL

-----------------------------------------------------------------------------
(* A guest that polls sees every exchange. *)

(* A user who waits for a phase to end finds every drive at rest.          *)
LEMMA WaitedForRest ==
  ASSUME UserDelay >= DELAY, IInv, on, Patient, NEW d \in Drives
  PROVE  AtRest(drive[d]) /\ ~TakenOut(d)
<1>1. /\ nVBLs \in Nat /\ drive[d] \in Drive
      /\ guest.touched[d] \in Nat /\ guest.polled[d] \in Nat
      /\ guest.touched[d] >= DELAY /\ guest.polled[d] < DELAY
  BY DelayAssumption DEF IInv, TypeOK, Guest, Long, Patient, PolledOften
<1>2. drive[d].State1.is # "none" => Elapsed(drive[d].State1)
  <2>1. Early(d)
    BY DEF IInv, AllEarly
  <2>2. drive[d].State1.vbl \in Nat
    BY <1>1 DEF Drive, Phases
  <2> QED
    BY <1>1, <2>1, <2>2, DelayAssumption DEF Early, Elapsed
<1>3. AtRest(drive[d])
  BY <1>1, <1>2 DEF AtRest, UpdateState, NoPhase, Drive
<1>4. ~TakenOut(d)
  BY <1>1, DelayAssumption DEF TakenOut
<1> QED
  BY <1>3, <1>4

LEMMA SeenStep ==
  ASSUME UserDelay >= DELAY, IInv, SeenOrTakenOut, Next
  PROVE  SeenOrTakenOut'
<1>1. /\ TypeOK /\ DialogPaused
      /\ nVBLs \in Nat /\ drive \in [Drives -> Drive] /\ guest \in Guest
      /\ guest.touched \in [Drives -> 0..Long] /\ guest.polled \in [Drives -> 0..Long]
      /\ Long \in Nat
  BY DelayAssumption DEF IInv, TypeOK, Guest, Long
<1>2. CASE User
  <2>1. ASSUME NEW D \in SUBSET Drives, ExchangedBy(D) PROVE SeenOrTakenOut'
    <3> SUFFICES ASSUME NEW d \in Drives, guest'.saw[d] # None
                 PROVE  (drive[d].sFileName = guest.saw[d] \/ TakenOut(d))'
      BY DEF SeenOrTakenOut
    <3>1. /\ guest'.saw = guest.saw /\ guest'.polled = guest.polled /\ nVBLs' = nVBLs
          /\ guest'.touched = [c \in Drives |-> IF c \in D THEN 0 ELSE guest.touched[c]]
      BY <1>1, <2>1 DEF ExchangedBy, Guest
    <3>2. drive[d].sFileName = guest.saw[d] \/ TakenOut(d)
      BY <2>1, <3>1 DEF ExchangedBy, SeenOrTakenOut
    <3>3. CASE d \notin D
      <4>1. drive'[d] = drive[d] /\ guest'.touched[d] = guest.touched[d]
        BY <2>1, <3>1, <3>3 DEF ExchangedBy
      <4> QED
        BY <3>1, <3>2, <4>1 DEF TakenOut
    <3>4. CASE d \in D
      <4>1. AtRest(drive[d]) /\ ~TakenOut(d)
        BY <2>1, WaitedForRest DEF ExchangedBy
      <4>2. BeginsNow(drive'[d])
        BY <2>1, <3>1, <3>2, <3>4, <4>1 DEF ExchangedBy
      <4>3. guest'.touched[d] = 0 /\ guest'.polled[d] \in 0..Long
        BY <1>1, <3>1, <3>4
      <4>4. TakenOut(d)'
        BY <1>1, <3>1, <4>2, <4>3 DEF TakenOut, BeginsNow
      <4> QED
        BY <4>4
    <3> QED
      BY <3>3, <3>4
  <2>2. CASE UNCHANGED <<drive, file, guest, nVBLs, on>>
    BY <2>2 DEF SeenOrTakenOut, TakenOut
  <2> QED
    BY <1>1, <1>2, <2>1, <2>2, UserExchanges
<1>3. CASE VBL
  <2>1. /\ guest'.touched = [d \in Drives |-> IF guest.touched[d] < Long
                                                 THEN guest.touched[d] + 1 ELSE guest.touched[d]]
        /\ guest'.polled = [d \in Drives |-> guest.polled[d] + 1]
        /\ guest'.saw = guest.saw
        /\ nVBLs' = nVBLs + 1 /\ drive' = drive /\ on
    BY <1>1, <1>3 DEF VBL, Running, Guest
  <2> SUFFICES ASSUME NEW d \in Drives, guest.saw[d] # None, TakenOut(d) PROVE TakenOut(d)'
    BY <2>1 DEF SeenOrTakenOut
  <2>2. guest.touched[d] < Long
    BY <1>1, <1>3, DelayAssumption DEF VBL, TakenOut, Long
  <2>3. guest'.touched[d] = guest.touched[d] + 1 /\ guest'.polled[d] = guest.polled[d] + 1
    BY <2>1, <2>2
  <2> QED
    BY <1>1, <2>1, <2>3 DEF TakenOut
<1>4. ASSUME NEW c \in Drives, ReadStatus(c) PROVE SeenOrTakenOut'
  <2>1. /\ guest'.touched = guest.touched /\ nVBLs' = nVBLs /\ on
        /\ guest'.polled = [guest.polled EXCEPT ![c] = 0]
        /\ guest'.saw = [guest.saw EXCEPT ![c] = IF WPRT(c) THEN None ELSE drive[c].sFileName]
    BY <1>1, <1>4 DEF ReadStatus, Running, Guest
  <2>2. drive' = [drive EXCEPT ![c] = UpdateState(@)]
    BY <1>4 DEF ReadStatus
  <2>3. guest.saw \in [Drives -> Names]
    BY <1>1 DEF Guest
  <2> SUFFICES ASSUME NEW d \in Drives, guest'.saw[d] # None
               PROVE  (drive[d].sFileName = guest.saw[d] \/ TakenOut(d))'
    BY DEF SeenOrTakenOut
  <2>4. CASE d = c
    <3>1. guest'.saw[d] = drive[d].sFileName
      BY <2>1, <2>3, <2>4
    <3>2. drive'[d].sFileName = drive[d].sFileName
      BY <1>1, <2>2, <2>4 DEF UpdateState, Drive
    <3> QED
      BY <3>1, <3>2
  <2>5. CASE d # c
    <3>1. drive'[d] = drive[d] /\ guest'.saw[d] = guest.saw[d] /\ guest'.polled[d] = guest.polled[d]
      BY <1>1, <2>1, <2>2, <2>3, <2>5
    <3> QED
      BY <2>1, <3>1 DEF SeenOrTakenOut, TakenOut
  <2> QED
    BY <2>4, <2>5
<1>5. ASSUME NEW c \in Drives, NEW s \in Sectors, NEW v \in Values, Floppy_WriteSectors(c, s, v)
      PROVE  SeenOrTakenOut'
  <2>1. /\ guest'.touched = guest.touched /\ guest'.polled = guest.polled
        /\ guest'.saw = guest.saw /\ nVBLs' = nVBLs /\ on' = on
    BY <1>1, <1>5 DEF Floppy_WriteSectors, Guest
  <2>2. \A d \in Drives : /\ drive'[d].State1 = drive[d].State1 /\ drive'[d].State2 = drive[d].State2
                          /\ drive'[d].sFileName = drive[d].sFileName
    BY <1>1, <1>5 DEF Floppy_WriteSectors, Drive
  <2> QED
    BY <2>1, <2>2 DEF SeenOrTakenOut, TakenOut
<1>6. CASE Reset_ST \/ Floppy_Init
  <2>1. guest' = Unseen
    BY <1>6 DEF Reset_ST, Floppy_Init
  <2>2. guest'.saw = [d \in Drives |-> None]
    BY <2>1 DEF Unseen
  <2>3. \A d \in Drives : guest'.saw[d] = None
    BY <2>2
  <2> QED
    BY <2>3 DEF SeenOrTakenOut
<1>7. CASE Floppy_UnInit
  BY <1>7 DEF Floppy_UnInit, SeenOrTakenOut
<1> QED
  BY <1>2, <1>3, <1>4, <1>5, <1>6, <1>7 DEF Next, Machine

(* While a disk was taken out since the last look, the signal is forced.   *)
LEMMA TakenOutIsForced ==
  ASSUME IInv, NEW d \in Drives, TakenOut(d)
  PROVE  ForcedWPRT(drive[d])
<1> DEFINE r == drive[d]
           u == UpdateState(r)
<1>1. /\ nVBLs \in Nat /\ r \in Drive /\ guest.touched[d] \in Nat /\ guest.touched[d] < DELAY
  BY DelayAssumption DEF IInv, TypeOK, Guest, Long, PolledOften, TakenOut
<1>2. r.State1.is = "eject" /\ ~Elapsed(r.State1)
  BY <1>1, DelayAssumption DEF TakenOut, Elapsed
<1>3. r.State2.is # "none" => ~Elapsed(r.State2) /\ nVBLs < r.State2.vbl
  BY <1>1, DelayAssumption DEF TakenOut, Elapsed
<1>4. u.State1.is = "eject" /\ (u.State2.is = "none" \/ nVBLs < u.State2.vbl)
  BY <1>1, <1>2, <1>3 DEF UpdateState, NoPhase, Drive
<1>5. ~(nVBLs >= u.State2.vbl) \/ u.State2.is = "none"
  <2>1. u.State2.vbl \in Nat
    BY <1>1, UpdateFacts DEF Drive, Phases
  <2> QED
    BY <1>1, <1>4, <2>1
<1> QED
  BY <1>4, <1>5 DEF ForcedWPRT

(* Between two looks at a drive that is not protected the disk was not     *)
(* exchanged, if the user leaves a drive alone for at least one phase and  *)
(* the guest looks more often than a phase is long.                        *)
THEOREM ExchangeSeen ==
  ASSUME UserDelay >= DELAY
  PROVE  Spec => ChangeSeen
<1>1. Init => SeenOrTakenOut
  BY DEF Init, SeenOrTakenOut
<1>2. IInv /\ SeenOrTakenOut /\ [Next]_vars => SeenOrTakenOut'
  <2>1. ASSUME SeenOrTakenOut, UNCHANGED vars PROVE SeenOrTakenOut'
    BY <2>1 DEF vars, SeenOrTakenOut, TakenOut
  <2> QED
    BY <2>1, SeenStep
<1>3. IInv /\ SeenOrTakenOut /\ [Next]_vars =>
        [\A d \in Drives :
           ReadStatus(d) /\ guest.saw[d] # None /\ guest'.saw[d] # None
             => guest'.saw[d] = guest.saw[d]]_vars
  <2> SUFFICES ASSUME IInv, SeenOrTakenOut, NEW d \in Drives,
                      ReadStatus(d), guest.saw[d] # None, guest'.saw[d] # None
               PROVE  guest'.saw[d] = guest.saw[d]
    OBVIOUS
  <2>1. guest'.saw = [guest.saw EXCEPT ![d] = IF WPRT(d) THEN None ELSE drive[d].sFileName]
    BY DEF IInv, TypeOK, Guest, ReadStatus
  <2>2. guest.saw \in [Drives -> Names]
    BY DEF IInv, TypeOK, Guest
  <2>3. ~WPRT(d) /\ guest'.saw[d] = drive[d].sFileName
    BY <2>1, <2>2
  <2>4. ~TakenOut(d)
    BY <2>3, TakenOutIsForced DEF WPRT
  <2> QED
    BY <2>3, <2>4 DEF SeenOrTakenOut, ReadStatus, Running
<1> QED
  BY <1>1, <1>2, <1>3, InvAlways, PTL DEF Spec, ChangeSeen

-----------------------------------------------------------------------------
(* The drives hold what the user interface shows. *)

LEMMA NamesAreNotClosed == \A names \in [Drives -> Names] : names # Closed
<1>1. SUFFICES ASSUME NEW names \in [Drives -> Names], names = Closed PROVE FALSE
  OBVIOUS
<1>2. DOMAIN names = {0, 1}
  BY DEF Drives
<1>3. DOMAIN Closed = 1..0
  BY DEF Closed
<1> QED
  BY <1>1, <1>2, <1>3

LEMMA ShownStep ==
  ASSUME "retro" \notin Frontends, TypeOK, DialogPaused, HoldShown, Next
  PROVE  HoldShown'
<1>1. name \in [Drives -> Names] /\ name # Closed
  BY NamesAreNotClosed DEF TypeOK
<1>2. ASSUME NEW d \in Drives, NEW img \in Names, ShortCut_InsertDisk(d, img)
      PROVE  HoldShown'
  <2> DEFINE D == InsertedByShortcut(d, name, name')
  <2>1. /\ name' \in [Drives -> Names] /\ D \in SUBSET Drives /\ ExchangedBy(D)
        /\ \A c \in D : drive'[c].sFileName = DiskOf(name'[c])
    BY <1>2, ShortCutExchanges
  <2>2. on /\ opened = Closed /\ opened' = Closed
    BY <1>2 DEF ShortCut_InsertDisk, Running
  <2> SUFFICES ASSUME NEW c \in Drives PROVE drive'[c].sFileName = DiskOf(name'[c])
    BY <2>2 DEF HoldShown, Shown, DiskOf
  <2>3. CASE c \in D
    BY <2>1, <2>3
  <2>4. CASE c \notin D
    <3>1. name'[c] = name[c]
      BY <2>4 DEF InsertedByShortcut, Drives
    <3>2. drive'[c] = drive[c]
      BY <2>1, <2>4 DEF ExchangedBy
    <3> QED
      BY <2>2, <3>1, <3>2 DEF HoldShown, Shown
  <2> QED
    BY <2>3, <2>4
<1>3. CASE Dialog_Open
  BY <1>1, <1>3 DEF Dialog_Open, Running, MachineUnchanged, HoldShown, Shown, DiskOf
<1>4. ASSUME NEW d \in Drives, NEW img \in Names, DlgFloppy_Set(d, img)
      PROVE  HoldShown'
  BY <1>4 DEF DlgFloppy_Set, MachineUnchanged, HoldShown, Shown, DiskOf
<1>5. CASE Dialog_Cancel
  BY <1>5 DEF Dialog_Cancel, MachineUnchanged, HoldShown, Shown, DiskOf
<1>6. CASE Dialog_OK
  <2>1. ExchangedBy(Changed) /\ \A c \in Changed : drive'[c].sFileName = DiskOf(name[c])
    BY <1>6, DialogExchanges
  <2>2. on /\ opened # Closed /\ opened' = Closed /\ name' = name
    BY <1>6 DEF Dialog_OK, DialogPaused
  <2> SUFFICES ASSUME NEW c \in Drives PROVE drive'[c].sFileName = DiskOf(name[c])
    BY <2>2 DEF HoldShown, Shown, DiskOf
  <2>3. CASE c \in Changed
    BY <2>1, <2>3
  <2>4. CASE c \notin Changed
    BY <2>1, <2>2, <2>4 DEF ExchangedBy, Changed, HoldShown, Shown
  <2> QED
    BY <2>3, <2>4
<1>7. CASE Machine
  <2>1. opened = Closed /\ opened' = Closed /\ name' = name /\ drive \in [Drives -> Drive]
    BY <1>7 DEF Machine, VBL, ReadStatus, Floppy_WriteSectors, Reset_ST, Floppy_UnInit, Floppy_Init,
       Running, DialogPaused, TypeOK
  <2>2. CASE on /\ on' /\ \A d \in Drives : drive'[d].sFileName = drive[d].sFileName
    BY <2>1, <2>2 DEF HoldShown, Shown, DiskOf
  <2>3. CASE VBL
    BY <2>2, <2>3 DEF VBL, Running
  <2>4. ASSUME NEW c \in Drives, ReadStatus(c) PROVE HoldShown'
    BY <2>1, <2>2, <2>4 DEF ReadStatus, Running, UpdateState, Drive
  <2>5. ASSUME NEW c \in Drives, NEW s \in Sectors, NEW v \in Values, Floppy_WriteSectors(c, s, v)
        PROVE  HoldShown'
    BY <2>1, <2>2, <2>5 DEF Floppy_WriteSectors, Running, Drive
  <2>6. CASE Reset_ST
    BY <2>1, <2>2, <2>6 DEF Reset_ST, Running, Floppy_Reset, Drive
  <2>7. CASE Floppy_UnInit
    BY <2>7 DEF Floppy_UnInit, HoldShown
  <2>8. CASE Floppy_Init
    BY <2>1, <2>8, StartedFacts DEF Floppy_Init, HoldShown, Shown, DiskOf
  <2> QED
    BY <1>7, <2>3, <2>4, <2>5, <2>6, <2>7, <2>8 DEF Machine
<1>8. ~retro_unload_game /\ \A img \in Names : ~retro_load_game(img)
  BY DEF retro_unload_game, retro_load_game
<1> QED
  BY <1>2, <1>3, <1>4, <1>5, <1>6, <1>7, <1>8 DEF Next, User

(* With the shortcuts and the dialog each drive holds the disk shown for   *)
(* it whenever the machine runs.                                           *)
THEOREM NamesShown ==
  ASSUME "retro" \notin Frontends
  PROVE  Spec => []NamesMatch
<1>1. Init => HoldShown
  BY NoneIsNoImage, ImagesAssumption DEF Init, HoldShown, Shown, DiskOf, NewDrive
<1>2. IInv /\ HoldShown /\ [Next]_vars => HoldShown'
  <2>1. ASSUME HoldShown, UNCHANGED vars PROVE HoldShown'
    BY <2>1 DEF vars, HoldShown, Shown, DiskOf
  <2> QED
    BY <2>1, ShownStep DEF IInv
<1>3. HoldShown => NamesMatch
  BY DEF HoldShown, Shown, DiskOf, NamesMatch, Running
<1> QED
  BY <1>1, <1>2, <1>3, InvAlways, PTL DEF Spec

-----------------------------------------------------------------------------
(* What the guest wrote is kept. *)

(* Disks are changed one at a time: no dialog, no disk B that comes with A. *)
OneAtATime == "dialog" \notin Frontends /\ \A img \in Images : PartnerB[img] = None

KInv == TypeOK /\ opened = Closed /\ NamedOnce /\ HoldNamed /\ EmptyWhenOff /\ Kept

(* Filling an empty drive writes no file.                                  *)
LEMMA FillingWritesNothing ==
  ASSUME NEW s \in DisksAndFiles, nVBLs \in Nat, NEW names \in [Drives -> Names],
         \A d \in Drives : s.drive[d].sFileName = None
  PROVE  InsertAll(s, Drives, names).file = s.file
<1>1. ASSUME NEW t \in DisksAndFiles, NEW d \in Drives, t.drive[d].sFileName = None
      PROVE  InsertDiskIntoDrive(t, d, names).file = t.file
  BY <1>1 DEF InsertDiskIntoDrive, EjectDiskFromDrive, DisksAndFiles
<1> DEFINE a == InsertDiskIntoDrive(s, 0, names)
<1>2. 0 \in Drives /\ 1 \in Drives /\ Other(0) = 1
  BY DEF Drives, Other
<1>3. a \in DisksAndFiles /\ a.drive[1].sFileName = None /\ a.file = s.file
  BY <1>1, <1>2, InsertFacts
<1>4. InsertAll(s, Drives, names) = InsertDiskIntoDrive(a, 1, names)
  BY <1>2 DEF InsertAll
<1> HIDE DEF a
<1> QED
  BY <1>1, <1>2, <1>3, <1>4

(* Only the disks, their contents, and whether they are saved, matter.     *)
LEMMA SameDisksKeep ==
  ASSUME NEW s, NEW t, NEW written, AllKeptIn(s, written), t.file = s.file,
         \A d \in Drives :
           /\ t.drive[d].sFileName = s.drive[d].sFileName
           /\ t.drive[d].pBuffer = s.drive[d].pBuffer
           /\ t.drive[d].bContentsChanged = s.drive[d].bContentsChanged
           /\ t.drive[d].bOKToSave = s.drive[d].bOKToSave
  PROVE  AllKeptIn(t, written)
<1> SUFFICES ASSUME NEW img \in Images PROVE SaveAllowed(t, img) /\ KeptIn(t, written, img)
  BY DEF AllKeptIn
<1>1. SaveAllowed(s, img) /\ KeptIn(s, written, img)
  BY DEF AllKeptIn
<1>2. SaveAllowed(t, img)
  BY <1>1 DEF SaveAllowed
<1>3. KeptIn(t, written, img)
  BY <1>1 DEF KeptIn
<1> QED
  BY <1>2, <1>3

(* A disk named by the user for a drive is not the one of the other drive. *)
LEMMA NamesStayApart ==
  ASSUME OneAtATime, TypeOK, NamedOnce, HoldNamed, NEW d \in Drives, NEW img \in Names,
         name' = SetDiskFileName(name, d, img), NEW D \in SUBSET Drives,
         d = 1 /\ 1 \notin D => name'[1] = name[1]
  PROVE  /\ NamedOnce'
         /\ Apart(Now, name', 0)
         /\ 1 \notin D => name'[1] = name[1]
<1>1. name' = IF img # None /\ name[Other(d)] = img THEN name ELSE [name EXCEPT ![d] = img]
  BY DEF OneAtATime, SetDiskFileName, SetOneName
<1>2. name \in [Drives -> Names] /\ Drives = {0, 1} /\ Other(0) = 1 /\ Other(1) = 0
  BY DEF TypeOK, Drives, Other
<1>3. NamedOnce'
  BY <1>1, <1>2 DEF NamedOnce
<1>4. d = 0 => name'[1] = name[1]
  BY <1>1, <1>2
<1>5. d = 1 => name'[0] = name[0]
  BY <1>1, <1>2
<1>6. Apart(Now, name', 0)
  <2> SUFFICES ASSUME drive[1].sFileName # None
               PROVE  drive[1].sFileName # drive[0].sFileName /\ drive[1].sFileName # name'[0]
    BY <1>2 DEF Apart, Now
  <2>1. drive[1].sFileName = name[1] /\ drive[0].sFileName \in {None, name[0]} /\ name[1] # None
    BY <1>2 DEF HoldNamed
  <2>2. name[0] # name[1]
    BY <2>1 DEF NamedOnce
  <2>3. name'[0] # name[1]
    BY <1>2, <1>3, <1>4, <1>5, <2>1, <2>2 DEF NamedOnce
  <2> QED
    BY <2>1, <2>2, <2>3
<1> QED
  BY <1>2, <1>3, <1>4, <1>6

(* Inserting disks one at a time keeps what was written.                   *)
LEMMA InsertKeepsAll ==
  ASSUME OneAtATime, KInv, NEW d \in Drives, NEW img \in Names,
         name' = SetDiskFileName(name, d, img), NEW D \in SUBSET Drives, 0 \in D,
         d = 1 /\ 1 \notin D => name'[1] = name[1],
         Exchange(InsertAll(Now, D, name'), D), on, opened' = Closed, MachineUnchanged
  PROVE  KInv'
<1> DEFINE i == InsertAll(Now, D, name')
<1>1. /\ TypeOK /\ nVBLs \in Nat /\ Now \in DisksAndFiles /\ Now.drive = drive
      /\ name' \in [Drives -> Names] /\ Drives = {0, 1}
      /\ AllKeptIn(Now, guest.written)
  BY NowType, SetDiskFileNameType DEF KInv, TypeOK, Kept, Drives
<1>2. NamedOnce' /\ Apart(Now, name', 0) /\ (1 \notin D => name'[1] = name[1])
  BY NamesStayApart DEF KInv
<1>3. name'[0] = name'[1] => name'[0] = None
  BY <1>2 DEF NamedOnce
<1>4. AllKeptIn(i, guest.written)
  BY <1>1, <1>2, <1>3, InsertAllKeeps
<1>5. /\ i \in DisksAndFiles
      /\ \A c \in Drives \ D : i.drive[c] = Now.drive[c]
      /\ \A c \in D : i.drive[c].sFileName = DiskOf(name'[c])
  <2>1. ASSUME NEW names \in [Drives -> Names]
        PROVE  LET j == InsertAll(Now, D, names) IN
               /\ j \in DisksAndFiles
               /\ \A c \in Drives \ D : j.drive[c] = Now.drive[c]
               /\ \A c \in D : j.drive[c].sFileName = DiskOf(names[c])
    <3>1. Now \in DisksAndFiles /\ nVBLs \in Nat
      BY <1>1
    <3> HIDE DEF i
    <3> QED
      BY <3>1, InsertAllFacts
  <2> QED
    BY <1>1, <2>1
<1>6. Now' = i /\ drive' = i.drive
  BY <1>5 DEF Exchange, Now, DisksAndFiles
<1> HIDE DEF i
<1>7. guest'.written = guest.written
  BY DEF Exchange, KInv, TypeOK, Guest
<1>8. Kept'
  BY <1>4, <1>6, <1>7 DEF Kept
<1>9. HoldNamed'
  <2> SUFFICES ASSUME NEW c \in Drives PROVE drive'[c].sFileName \in {None, name'[c]}
    BY DEF HoldNamed
  <2>1. CASE c \in D
    BY <1>5, <1>6, <2>1 DEF DiskOf
  <2>2. CASE c \notin D
    BY <1>1, <1>2, <1>5, <1>6, <2>2 DEF HoldNamed, KInv
  <2> QED
    BY <2>1, <2>2
<1>10. TypeOK'
  <2>1. drive' \in [Drives -> Drive] /\ file' \in [Images -> Contents]
    BY <1>5, <1>6 DEF DisksAndFiles, Exchange, i
  <2>2. guest' \in Guest
    BY <1>1, DelayAssumption DEF TypeOK, Exchange, Guest, Long
  <2> QED
    BY <1>1, <2>1, <2>2 DEF TypeOK, MachineUnchanged
<1>11. EmptyWhenOff'
  BY DEF EmptyWhenOff, MachineUnchanged
<1> QED
  BY <1>2, <1>8, <1>9, <1>10, <1>11 DEF KInv

LEMMA UserKeeps == ASSUME OneAtATime, KInv, User PROVE KInv'
<1>1. ASSUME NEW d \in Drives, NEW img \in Names, ShortCut_InsertDisk(d, img) PROVE KInv'
  <2> DEFINE D == InsertedByShortcut(d, name, name')
  <2>1. D \in SUBSET Drives /\ 0 \in D /\ (1 \notin D => name'[1] = name[1])
    BY DEF InsertedByShortcut, Drives
  <2>2. /\ name' = SetDiskFileName(name, d, img) /\ on /\ opened' = Closed /\ MachineUnchanged
        /\ Exchange(InsertAll(Now, D, name'), D)
    BY <1>1 DEF ShortCut_InsertDisk, Running, Now
  <2> HIDE DEF D
  <2> QED
    BY <2>1, <2>2, InsertKeepsAll
<1>2. ASSUME NEW img \in Names, retro_load_game(img) PROVE KInv'
  <2>1. 0 \in Drives /\ {0} \in SUBSET Drives /\ 0 \in {0} /\ 0 # 1
    BY DEF Drives
  <2>2. /\ name' = SetDiskFileName(name, 0, img) /\ on /\ opened' = Closed /\ MachineUnchanged
        /\ Exchange(InsertAll(Now, {0}, name'), {0})
    BY <1>2 DEF retro_load_game, Running, Now
  <2> QED
    BY <2>1, <2>2, InsertKeepsAll
<1>3. CASE retro_unload_game
  <2> DEFINE e == EjectDiskFromDrive(Now, 0)
  <2>1. /\ TypeOK /\ nVBLs \in Nat /\ Now \in DisksAndFiles /\ Now.drive = drive
        /\ AllKeptIn(Now, guest.written)
        /\ Drives = {0, 1} /\ Other(0) = 1
    BY NowType DEF KInv, TypeOK, Kept, Drives, Other
  <2>2. drive[0].sFileName # None => drive[1].sFileName # drive[0].sFileName
    BY <2>1 DEF KInv, NamedOnce, HoldNamed
  <2>3. AllKeptIn(e, guest.written)
    BY <2>1, <2>2, EjectKeeps
  <2>4. e \in DisksAndFiles /\ e.drive[1] = drive[1] /\ e.drive[0].sFileName = None
    BY <2>1, EjectFacts
  <2>5. drive' = e.drive /\ file' = e.file
    BY <1>3 DEF retro_unload_game, Exchange, Now
  <2> HIDE DEF e
  <2>6. Now' = e
    BY <2>4, <2>5 DEF Now, DisksAndFiles
  <2>7. guest'.written = guest.written
    BY <1>3 DEF retro_unload_game, Exchange, KInv, TypeOK, Guest
  <2>8. Kept'
    BY <2>3, <2>6, <2>7 DEF Kept
  <2>9. name' = name /\ opened' = opened /\ on' = on /\ on
    BY <1>3 DEF retro_unload_game, MachineUnchanged, Running
  <2>10. HoldNamed' /\ NamedOnce'
    BY <2>1, <2>4, <2>5, <2>9 DEF KInv, HoldNamed, NamedOnce
  <2>11. DialogPaused
    BY DEF KInv, DialogPaused
  <2>12. TypeOK'
    BY <1>3, <2>1, <2>11, UserType DEF User
  <2> QED
    BY <2>8, <2>9, <2>10, <2>12 DEF KInv, EmptyWhenOff
<1>4. /\ ~Dialog_Open /\ ~Dialog_Cancel /\ ~Dialog_OK
      /\ \A d \in Drives, img \in Names : ~DlgFloppy_Set(d, img)
  BY DEF OneAtATime, KInv, Dialog_Open, Dialog_Cancel, Dialog_OK, DlgFloppy_Set
<1> QED
  BY <1>1, <1>2, <1>3, <1>4 DEF User

(* One disk is written: what is in its drive is what was written to it.    *)
LEMMA WrittenKept ==
  ASSUME NEW s, NEW t, NEW written, NEW now, NEW c \in Drives, NEW img,
         KeptIn(s, written, img), t.file = s.file,
         t.drive[c].sFileName = s.drive[c].sFileName, s.drive[c].bOKToSave => t.drive[c].bOKToSave,
         t.drive[c].pBuffer = now[img], t.drive[c].bContentsChanged,
         s.drive[c].sFileName = img,
         \A d \in Drives : d # c => t.drive[d].sFileName # img
  PROVE  KeptIn(t, now, img)
<1> SUFFICES ASSUME img \in Savable, BootSectorOK(s.file[img])
             PROVE  /\ \A d \in Drives : t.drive[d].sFileName = img =>
                         /\ t.drive[d].pBuffer = now[img]
                         /\ t.drive[d].bOKToSave
                         /\ ~t.drive[d].bContentsChanged => t.file[img] = now[img]
                    /\ (\A d \in Drives : t.drive[d].sFileName # img) => t.file[img] = now[img]
  BY DEF KeptIn
<1>1. t.drive[c].bOKToSave
  BY DEF KeptIn
<1> QED
  BY <1>1

(* The other disks are as they were.                                       *)
LEMMA UnwrittenKept ==
  ASSUME NEW s, NEW t, NEW written, NEW now, NEW img,
         KeptIn(s, written, img), t.file = s.file, now[img] = written[img],
         \A d \in Drives : t.drive[d].sFileName = s.drive[d].sFileName,
         \A d \in Drives : t.drive[d].sFileName = img => t.drive[d] = s.drive[d]
  PROVE  KeptIn(t, now, img)
<1> SUFFICES ASSUME img \in Savable, BootSectorOK(s.file[img])
             PROVE  /\ \A d \in Drives : t.drive[d].sFileName = img =>
                         /\ t.drive[d].pBuffer = now[img]
                         /\ t.drive[d].bOKToSave
                         /\ ~t.drive[d].bContentsChanged => t.file[img] = now[img]
                    /\ (\A d \in Drives : t.drive[d].sFileName # img) => t.file[img] = now[img]
  BY DEF KeptIn
<1> QED
  BY DEF KeptIn

(* A write goes to the disk of one drive, which is then to be saved.       *)
LEMMA WriteKeeps ==
  ASSUME KInv, NEW c \in Drives, NEW s \in Sectors, NEW v \in Values, Floppy_WriteSectors(c, s, v)
  PROVE  Kept'
<1> DEFINE disk == drive[c].sFileName
           content == [drive[c].pBuffer EXCEPT ![s] = v]
<1>1. /\ drive \in [Drives -> Drive] /\ guest \in Guest /\ disk \in Images /\ disk # None
  BY DEF Floppy_WriteSectors, KInv, TypeOK, Drive, Names
<1>2. \A d \in Drives : d # c => drive[d].sFileName # disk
  BY <1>1 DEF KInv, NamedOnce, HoldNamed, Drives
<1>3. /\ drive' = [drive EXCEPT ![c].pBuffer = content, ![c].bContentsChanged = TRUE]
      /\ guest'.written = [guest.written EXCEPT ![disk] = content]
      /\ file' = file
  BY <1>1 DEF Floppy_WriteSectors, Guest
<1> HIDE DEF content
<1>4. /\ drive'[c].sFileName = disk /\ drive'[c].bOKToSave = drive[c].bOKToSave
      /\ drive'[c].pBuffer = content /\ drive'[c].bContentsChanged = TRUE
      /\ \A d \in Drives : d # c => drive'[d] = drive[d]
  BY <1>1, <1>3 DEF Drive
<1> SUFFICES ASSUME NEW img \in Images
             PROVE  SaveAllowed(Now', img) /\ KeptIn(Now', guest'.written, img)
  BY DEF Kept, AllKeptIn
<1>5. /\ SaveAllowed(Now, img) /\ KeptIn(Now, guest.written, img)
      /\ Now.drive = drive /\ Now.file = file /\ Now'.drive = drive' /\ Now'.file = file'
  BY DEF KInv, Kept, AllKeptIn, Now
<1>6. SaveAllowed(Now', img)
  <2> SUFFICES ASSUME NEW d \in Drives, drive'[d].sFileName = img, drive'[d].bOKToSave
               PROVE  img \in Savable /\ BootSectorOK(file[img])
    BY <1>3, <1>5 DEF SaveAllowed
  <2>1. drive[d].sFileName = img /\ drive[d].bOKToSave
    BY <1>4
  <2> QED
    BY <1>5, <2>1 DEF SaveAllowed
<1>7. KeptIn(Now', guest'.written, img)
  <2>1. CASE img = disk
    <3>1. guest'.written[img] = content
      BY <1>1, <1>3, <2>1 DEF Guest
    <3>2. \A d \in Drives : drive'[d].sFileName = img => d = c
      BY <1>2, <1>4, <2>1
    <3>3. Now'.drive[c].pBuffer = guest'.written[img] /\ Now'.drive[c].bContentsChanged
      BY <1>4, <1>5, <3>1
    <3>4. /\ Now'.drive[c].sFileName = Now.drive[c].sFileName
          /\ Now.drive[c].bOKToSave => Now'.drive[c].bOKToSave
          /\ Now.drive[c].sFileName = img /\ Now'.file = Now.file
      BY <1>3, <1>4, <1>5, <2>1
    <3>5. \A d \in Drives : d # c => Now'.drive[d].sFileName # img
      BY <1>5, <3>2
    <3> QED
      BY <1>5, <3>3, <3>4, <3>5, WrittenKept
  <2>2. CASE img # disk
    <3>1. guest'.written[img] = guest.written[img]
      BY <1>1, <1>3, <2>2 DEF Guest
    <3>2. \A d \in Drives : drive'[d].sFileName = drive[d].sFileName
      BY <1>4
    <3>3. \A d \in Drives : drive'[d].sFileName = img => drive'[d] = drive[d]
      BY <1>4, <2>2
    <3>4. \A d \in Drives : Now'.drive[d].sFileName = Now.drive[d].sFileName
      BY <1>5, <3>2
    <3>5. \A d \in Drives : Now'.drive[d].sFileName = img => Now'.drive[d] = Now.drive[d]
      BY <1>5, <3>3
    <3>6. Now'.file = Now.file
      BY <1>3, <1>5
    <3> QED
      BY <1>5, <3>1, <3>4, <3>5, <3>6, UnwrittenKept
  <2> QED
    BY <2>1, <2>2
<1> QED
  BY <1>6, <1>7

LEMMA MachineKeeps == ASSUME KInv, Machine PROVE KInv'
<1>1. TypeOK' /\ TypeOK /\ drive \in [Drives -> Drive] /\ guest \in Guest /\ nVBLs \in Nat
  BY MachineType DEF KInv, TypeOK
<1>2. name' = name /\ opened' = Closed /\ NamedOnce'
  BY DEF Machine, VBL, ReadStatus, Floppy_WriteSectors, Reset_ST, Floppy_UnInit, Floppy_Init, KInv, NamedOnce
<1>3. ASSUME /\ \A d \in Drives :
                  /\ drive'[d].sFileName = drive[d].sFileName
                  /\ drive'[d].pBuffer = drive[d].pBuffer
                  /\ drive'[d].bContentsChanged = drive[d].bContentsChanged
                  /\ drive'[d].bOKToSave = drive[d].bOKToSave,
             file' = file, guest'.written = guest.written, on' = on
      PROVE  KInv'
  <2>1. Kept'
    <3>1. /\ Now.drive = drive /\ Now.file = file /\ Now'.drive = drive' /\ Now'.file = file'
          /\ AllKeptIn(Now, guest.written)
      BY DEF Now, KInv, Kept
    <3>2. AllKeptIn(Now', guest.written)
      BY <1>3, <3>1, SameDisksKeep
    <3> QED
      BY <1>3, <3>2 DEF Kept
  <2>2. HoldNamed' /\ EmptyWhenOff'
    BY <1>2, <1>3 DEF KInv, HoldNamed, EmptyWhenOff
  <2> QED
    BY <1>1, <1>2, <2>1, <2>2 DEF KInv
<1>4. CASE VBL
  BY <1>1, <1>3, <1>4 DEF VBL, Guest
<1>5. ASSUME NEW c \in Drives, ReadStatus(c) PROVE KInv'
  <2>1. guest'.written = guest.written /\ file' = file /\ on' = on
    BY <1>1, <1>5 DEF ReadStatus, Guest
  <2>2. drive' = [drive EXCEPT ![c] = UpdateState(@)]
    BY <1>5 DEF ReadStatus
  <2> QED
    BY <1>1, <1>3, <2>1, <2>2 DEF UpdateState, Drive
<1>6. ASSUME NEW c \in Drives, NEW s \in Sectors, NEW v \in Values, Floppy_WriteSectors(c, s, v)
      PROVE  KInv'
  <2>1. Kept'
    BY <1>6, WriteKeeps
  <2>2. on' = on /\ \A d \in Drives : drive'[d].sFileName = drive[d].sFileName
    BY <1>1, <1>6 DEF Floppy_WriteSectors, Drive
  <2> QED
    BY <1>1, <1>2, <2>1, <2>2 DEF KInv, HoldNamed, EmptyWhenOff
<1>7. CASE Reset_ST
  <2>1. guest'.written = guest.written /\ file' = file /\ on' = on
    BY <1>7 DEF Reset_ST, Unseen
  <2>2. drive' = [d \in Drives |-> Floppy_Reset(drive[d])]
    BY <1>7 DEF Reset_ST
  <2> QED
    BY <1>1, <1>3, <2>1, <2>2 DEF Floppy_Reset, Drive
<1>8. CASE Floppy_UnInit
  <2> DEFINE a == EjectDiskFromDrive(Now, 0)
             e == EjectDiskFromDrive(a, 1)
  <2>1. /\ Now \in DisksAndFiles /\ Now.drive = drive /\ AllKeptIn(Now, guest.written)
        /\ 0 \in Drives /\ 1 \in Drives /\ Other(0) = 1 /\ Other(1) = 0
    BY <1>1, NowType DEF KInv, Kept, Drives, Other
  <2>2. drive[0].sFileName # None => drive[1].sFileName # drive[0].sFileName
    BY <2>1 DEF KInv, NamedOnce, HoldNamed
  <2>3. a \in DisksAndFiles /\ a.drive[0].sFileName = None /\ AllKeptIn(a, guest.written)
    BY <1>1, <2>1, <2>2, EjectFacts, EjectKeeps
  <2> HIDE DEF a
  <2>4. e \in DisksAndFiles /\ AllKeptIn(e, guest.written)
    <3>1. a.drive[1].sFileName # None => a.drive[Other(1)].sFileName # a.drive[1].sFileName
      BY <2>1, <2>3
    <3> QED
      BY <1>1, <2>1, <2>3, <3>1, EjectFacts, EjectKeeps
  <2>5. drive' = e.drive /\ file' = e.file /\ guest' = guest /\ ~on'
    BY <1>8 DEF Floppy_UnInit, Now, a
  <2> HIDE DEF e
  <2>6. Now' = e
    BY <2>4, <2>5 DEF Now, DisksAndFiles
  <2>7. Kept'
    BY <2>4, <2>5, <2>6 DEF Kept
  <2>8. \A d \in Drives : drive'[d].sFileName = None
    BY <1>1, <1>8, EndedFacts
  <2> QED
    BY <1>1, <1>2, <2>7, <2>8 DEF KInv, HoldNamed, EmptyWhenOff
<1>9. CASE Floppy_Init
  <2> DEFINE s == [drive |-> [d \in Drives |-> NewDrive], file |-> file]
             i == InsertAll(s, Drives, name)
  <2>1. /\ s \in DisksAndFiles /\ s.file = file
        /\ \A d \in Drives : s.drive[d].sFileName = None
    BY <1>1, NewDisks DEF DisksAndFiles, TypeOK
  <2>2. AllKeptIn(s, guest.written)
    <3> HIDE DEF s
    <3> SUFFICES ASSUME NEW img \in Images
                 PROVE  SaveAllowed(s, img) /\ KeptIn(s, guest.written, img)
      BY DEF AllKeptIn
    <3>1. img # None
      BY NoneIsNoImage
    <3>2. KeptIn(Now, guest.written, img) /\ Now.file = file /\ Now.drive = drive
      BY DEF KInv, Kept, AllKeptIn, Now
    <3>3. \A d \in Drives : drive[d].sFileName # img
      BY <1>9, <3>1 DEF KInv, EmptyWhenOff, Floppy_Init
    <3>4. BootSectorOK(file[img]) /\ img \in Savable => file[img] = guest.written[img]
      BY <3>2, <3>3 DEF KeptIn
    <3> QED
      BY <2>1, <3>1, <3>4 DEF SaveAllowed, KeptIn
  <2> HIDE DEF s
  <2>3. /\ name \in [Drives -> Names] /\ Drives \in SUBSET Drives /\ 0 \in Drives
        /\ (name[0] = name[1] => name[0] = None) /\ Other(0) = 1 /\ 1 \in Drives
    BY <1>1 DEF TypeOK, KInv, NamedOnce, Drives, Other
  <2>4. Apart(s, name, 0)
    BY <2>1, <2>3 DEF Apart
  <2>5. AllKeptIn(i, guest.written)
    BY <1>1, <2>1, <2>2, <2>3, <2>4, InsertAllKeeps
  <2>6. i \in DisksAndFiles /\ i.file = file
    BY <1>1, <2>1, <2>3, InsertAllFacts, FillingWritesNothing
  <2>7. /\ drive' = [d \in Drives |-> Floppy_Reset(i.drive[d])]
        /\ file' = file /\ guest'.written = guest.written /\ on'
    BY <1>9 DEF Floppy_Init, Started, Unseen, s
  <2> HIDE DEF i
  <2>8. i.drive \in [Drives -> Drive]
    BY <2>6 DEF DisksAndFiles
  <2>9. \A d \in Drives :
          /\ drive'[d].sFileName = i.drive[d].sFileName
          /\ drive'[d].pBuffer = i.drive[d].pBuffer
          /\ drive'[d].bContentsChanged = i.drive[d].bContentsChanged
          /\ drive'[d].bOKToSave = i.drive[d].bOKToSave
    BY <2>7, <2>8 DEF Floppy_Reset, Drive
  <2>10. Now'.drive = drive' /\ Now'.file = file'
    BY DEF Now
  <2>11. AllKeptIn(Now', guest.written)
    BY <2>5, <2>6, <2>7, <2>9, <2>10, SameDisksKeep
  <2>12. HoldNamed'
    BY <1>1, <1>2, <1>9, StartedFacts DEF Floppy_Init, HoldNamed, DiskOf
  <2> QED
    BY <1>1, <1>2, <2>7, <2>11, <2>12 DEF KInv, Kept, EmptyWhenOff
<1> QED
  BY <1>4, <1>5, <1>6, <1>7, <1>8, <1>9 DEF Machine

(* When disks are changed one at a time, what the guest wrote to a disk is *)
(* in the drive that holds it or in its file, through every exchange, end  *)
(* and restart.                                                            *)
THEOREM ContentsKept ==
  ASSUME OneAtATime
  PROVE  Spec => []NothingLost
<1>1. Init => KInv
  <2> SUFFICES ASSUME Init PROVE KInv
    OBVIOUS
  <2>1. TypeOK /\ opened = Closed /\ NamedOnce /\ HoldNamed /\ EmptyWhenOff
    BY InitType DEF Init, NamedOnce, HoldNamed, EmptyWhenOff, NewDrive, Drives
  <2>2. \A d \in Drives : drive[d].sFileName = None
    BY DEF Init, NewDrive
  <2>3. Kept
    BY <2>2, NoneIsNoImage DEF Init, Kept, AllKeptIn, SaveAllowed, KeptIn, Now
  <2> QED
    BY <2>1, <2>3 DEF KInv
<1>2. KInv /\ [Next]_vars => KInv'
  <2>1. ASSUME KInv, UNCHANGED vars PROVE KInv'
    BY <2>1 DEF vars, KInv, TypeOK, NamedOnce, HoldNamed, EmptyWhenOff, Kept, Now
  <2> QED
    BY <2>1, UserKeeps, MachineKeeps DEF Next
<1>3. KInv => NothingLost
  <2> SUFFICES ASSUME KInv, NEW img \in Savable, BootSectorOK(file[img])
               PROVE  LET holders == {d \in Drives : drive[d].sFileName = img} IN
                      /\ \A d \in holders : drive[d].pBuffer = guest.written[img]
                      /\ holders = {} => file[img] = guest.written[img]
    BY DEF NothingLost
  <2>1. img \in Images
    BY ImagesAssumption
  <2>2. KeptIn(Now, guest.written, img) /\ Now.drive = drive /\ Now.file = file
    BY <2>1 DEF KInv, Kept, AllKeptIn, Now
  <2> QED
    BY <2>2 DEF KeptIn
<1> QED
  BY <1>1, <1>2, <1>3, PTL DEF Spec
=============================================================================
