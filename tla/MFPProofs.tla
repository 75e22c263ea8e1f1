----------------------------- MODULE MFPProofs -----------------------------
(***************************************************************************)
(* Proofs about MFP, for every set of channels, one MFP or two, and any    *)
(* values of the delays.                                                   *)
(***************************************************************************)
EXTENDS MFP, TLAPS

(* What the updates establish and the inputs keep, for one MFP. *)
Justified(r) ==
  /\ r.IPR \subseteq r.IER
  /\ r.IRQ => r.Current_Interrupt \in Allowed(r)

(* Pending_Time_Min stays above the inputs that were seen. *)
Fresh(r) == r.Pending_Time_Min = Never

(* Until the acknowledge, a level 6 that is pending is somebody's. *)
SomeoneRequests ==
  pc = "iack" =>
    /\ level6 = \E m \in MFPs : mfp[m].IRQ_CPU
    /\ \A m \in MFPs : mfp[m].IRQ_CPU => mfp[m].IRQ

(* With a single MFP no update is for the wrong one. *)
UpdateSeen == ~IsTT => UpdateNotForgotten

IInv ==
  /\ TypeOK
  /\ \A m \in MFPs : Justified(mfp[m])
  /\ LineNotForgotten
  /\ SomeoneRequests
  /\ UpdateSeen
  /\ PinFollows

-----------------------------------------------------------------------------
(* The highest of some channels is one of them.  If no channel were the    *)
(* highest, then bounds would descend from 15 below 0.                     *)
LEMMA HighestIsIn ==
  ASSUME NEW S, S \subseteq Channels, S # {}
  PROVE  Highest(S) \in S
<1>1. S \subseteq 0..15
  BY RegisterAssumption
<1>2. \E k \in S : \A m \in S : m <= k
  <2> SUFFICES ASSUME \A k \in S : ~(\A m \in S : m <= k) PROVE FALSE
    OBVIOUS
  <2> DEFINE Bounded == [k \in -1..15 |-> \A m \in S : m <= k]
  <2>1. \A k \in 0..15 : Bounded[k] => Bounded[k - 1]
    <3> SUFFICES ASSUME NEW k \in 0..15, \A m \in S : m <= k
                 PROVE  \A m \in S : m <= k - 1
      OBVIOUS
    <3>1. k \notin S
      OBVIOUS
    <3> QED
      BY <3>1, <1>1
  <2>2. Bounded[15]
    BY <1>1
  <2>3. ~Bounded[-1]
    <3>1. PICK m \in S : m \in 0..15
      BY <1>1
    <3> QED
      BY <3>1
  <2> HIDE DEF Bounded
  <2>4. Bounded[11]
    BY <2>1, <2>2
  <2>5. Bounded[7]
    BY <2>1, <2>4
  <2>6. Bounded[3]
    BY <2>1, <2>5
  <2> QED
    BY <2>1, <2>3, <2>6
<1> QED
  BY <1>2 DEF Highest

LEMMA CheckFinds ==
  ASSUME NEW r, CheckPendingInterrupts(r) # NoInterrupt
  PROVE  /\ CheckPendingInterrupts(r) \in Channels
         /\ CheckPendingInterrupts(r) \in Allowed(r)
<1> DEFINE requests == {ch \in Channels : InterruptRequest(r, ch)}
<1>1. requests # {} /\ CheckPendingInterrupts(r) = Highest(requests)
  BY DEF CheckPendingInterrupts
<1>2. CheckPendingInterrupts(r) \in requests
  BY <1>1, HighestIsIn
<1> QED
  BY <1>2 DEF InterruptRequest, Allowed

(* MFP_UpdateIRQ leaves the registers alone, and IRQ only over a request   *)
(* that is allowed; if it finds none, Current_Interrupt is what it was.    *)
LEMMA UpdateIRQGood ==
  ASSUME NEW r \in Registers, NEW t \in Int
  PROVE  LET u == UpdateIRQ(r, t) IN
         /\ u \in Registers
         /\ u.IER = r.IER /\ u.IPR = r.IPR /\ u.ISR = r.ISR /\ u.SEI = r.SEI
         /\ Allowed(u) = Allowed(r)
         /\ u.IRQ_CPU = r.IRQ_CPU
         /\ u.IRQ => u.Current_Interrupt \in Allowed(u)
         /\ \/ u.Current_Interrupt \in Allowed(r)
            \/ u.Current_Interrupt = r.Current_Interrupt
         /\ Fresh(u)
<1> DEFINE new == CheckPendingInterrupts(r)
           u == UpdateIRQ(r, t)
<1>1. CASE new = NoInterrupt
  <2>1. u = [r EXCEPT !.IRQ = FALSE, !.Pending_Time_Min = Never]
    BY <1>1 DEF UpdateIRQ
  <2>2. /\ u \in Registers
        /\ u.IER = r.IER /\ u.IPR = r.IPR /\ u.ISR = r.ISR /\ u.IMR = r.IMR
        /\ u.SEI = r.SEI /\ u.IRQ_CPU = r.IRQ_CPU /\ ~u.IRQ
        /\ u.Current_Interrupt = r.Current_Interrupt
        /\ u.Pending_Time_Min = Never
    <3>1. u \in Registers
      <4>1. Never \in Int
        BY TimeAssumption
      <4> QED
        BY <2>1, <4>1, ZenonT(60) DEF Registers
    <3>2. /\ u.IER = r.IER /\ u.IPR = r.IPR /\ u.ISR = r.ISR /\ u.IMR = r.IMR
          /\ u.Current_Interrupt = r.Current_Interrupt
          /\ u.Pending_Time_Min = Never
      BY <2>1 DEF Registers
    <3>3. u.SEI = r.SEI /\ u.IRQ_CPU = r.IRQ_CPU /\ u.IRQ = FALSE
      BY <2>1 DEF Registers
    <3> QED
      BY <3>1, <3>2, <3>3
  <2>3. Allowed(u) = Allowed(r)
    BY <2>2 DEF Allowed, Unmasked, NotBlocked
  <2> QED
    BY <2>2, <2>3 DEF Fresh
<1>2. CASE new # NoInterrupt
  <2> DEFINE time == IF t # 0 THEN t ELSE r.Pending_Time[new]
  <2>1. new \in Channels /\ new \in Allowed(r)
    BY <1>2, CheckFinds
  <2>2. time \in Int
    BY <2>1 DEF Registers
  <2>3. u = [r EXCEPT !.IRQ = TRUE, !.Current_Interrupt = new,
                      !.IRQ_Time = IF r.IRQ THEN @ ELSE time,
                      !.Pending_Time_Min = Never]
    BY <1>2 DEF UpdateIRQ
  <2>4. /\ u \in Registers
        /\ u.IER = r.IER /\ u.IPR = r.IPR /\ u.ISR = r.ISR /\ u.IMR = r.IMR
        /\ u.SEI = r.SEI /\ u.IRQ_CPU = r.IRQ_CPU
        /\ u.Current_Interrupt = new
        /\ u.Pending_Time_Min = Never
    <3>1. u \in Registers
      <4> DEFINE at == IF r.IRQ THEN r.IRQ_Time ELSE time
      <4>1. Never \in Int /\ at \in Int
        BY <2>2, TimeAssumption DEF Registers
      <4>2. u = [r EXCEPT !.IRQ = TRUE, !.Current_Interrupt = new,
                          !.IRQ_Time = at, !.Pending_Time_Min = Never]
        BY <2>3
      <4> HIDE DEF at, new
      <4> QED
        BY <2>1, <4>1, <4>2, ZenonT(60) DEF Registers
    <3>2. /\ u.IER = r.IER /\ u.IPR = r.IPR /\ u.ISR = r.ISR /\ u.IMR = r.IMR
          /\ u.Current_Interrupt = new
          /\ u.Pending_Time_Min = Never
      BY <2>3 DEF Registers
    <3>3. u.SEI = r.SEI /\ u.IRQ_CPU = r.IRQ_CPU
      BY <2>3 DEF Registers
    <3> QED
      BY <3>1, <3>2, <3>3
  <2>5. Allowed(u) = Allowed(r)
    BY <2>4 DEF Allowed, Unmasked, NotBlocked
  <2> QED
    BY <2>1, <2>4, <2>5 DEF Fresh
<1> QED
  BY <1>1, <1>2

(* After a register has changed, the update makes IRQ agree with it again. *)
LEMMA UpdateJustifies ==
  ASSUME NEW r \in Registers, r.IPR \subseteq r.IER, NEW t \in Int
  PROVE  Justified(UpdateIRQ(r, t))
BY UpdateIRQGood DEF Justified

(* An input adds a request and touches neither IRQ nor IRQ_CPU.            *)
LEMMA InputGood ==
  ASSUME NEW r \in Registers, Justified(r), NEW ch \in Channels, NEW t \in Int
  PROVE  LET u == InputOnChannel(r, ch, t) IN
         /\ u \in Registers
         /\ Justified(u)
         /\ u.IRQ = r.IRQ /\ u.IRQ_CPU = r.IRQ_CPU
<1> DEFINE u == InputOnChannel(r, ch, t)
<1>1. CASE ch \in r.IER
  <2> DEFINE min == IF ch \in r.IMR /\ t < r.Pending_Time_Min
                      THEN t ELSE r.Pending_Time_Min
  <2>1. u = [r EXCEPT !.IPR = @ \union {ch}, !.Pending_Time[ch] = t,
                      !.Pending_Time_Min = min]
    BY <1>1 DEF InputOnChannel
  <2>2. min \in Int
    BY DEF Registers
  <2> HIDE DEF min, u
  <2>3. /\ u.IER = r.IER /\ u.IPR = r.IPR \union {ch} /\ u.ISR = r.ISR
        /\ u.IMR = r.IMR /\ u.Current_Interrupt = r.Current_Interrupt
        /\ r.IPR \subseteq r.IER
    BY <2>1 DEF Registers, Justified
  <2>4. u.IRQ = r.IRQ /\ u.IRQ_CPU = r.IRQ_CPU
    BY <2>1 DEF Registers
  <2>5. u \in Registers
    <3>1. /\ r.IPR \union {ch} \in SUBSET Channels
          /\ [r.Pending_Time EXCEPT ![ch] = t] \in [Channels -> Int]
      BY DEF Registers
    <3> QED
      BY <2>1, <2>2, <3>1, ZenonT(60) DEF Registers
  <2>6. Allowed(r) \subseteq Allowed(u)
    BY <2>3 DEF Allowed, Unmasked, NotBlocked
  <2>7. Justified(u)
    BY <1>1, <2>3, <2>4, <2>6 DEF Justified
  <2> QED
    BY <2>4, <2>5, <2>7 DEF u
<1>2. CASE ch \notin r.IER
  <2>1. u = [r EXCEPT !.IPR = @ \ {ch}] /\ r.IPR \ {ch} = r.IPR
    BY <1>2 DEF InputOnChannel, Justified
  <2>2. u = r
    BY <2>1 DEF Registers
  <2> QED
    BY <2>2
<1> QED
  BY <1>1, <1>2

(* An acknowledge takes the bit of Current_Interrupt, which the first      *)
(* update has found or left as it was.                                     *)
Takes(r, t, acked, bit) ==
  /\ ProcessIACK(r, t) = UpdateIRQ(acked, t)
  /\ acked.IER = r.IER
  /\ acked.IPR = r.IPR \ bit
  /\ acked.ISR = IF r.SEI THEN r.ISR \union bit ELSE r.ISR \ bit
  /\ acked.IRQ = UpdateIRQ(r, t).IRQ
  /\ acked.IRQ_Time = UpdateIRQ(r, t).IRQ_Time
  /\ acked.Pending_Time = UpdateIRQ(r, t).Pending_Time
  /\ acked.Pending_Time_Min = Never
  /\ Justified(r) /\ r.IRQ => \E ch \in Allowed(r) : bit = {ch}

LEMMA IACKTakes ==
  ASSUME NEW r \in Registers, NEW t \in Int
  PROVE  \E acked \in Registers, bit \in SUBSET Channels : Takes(r, t, acked, bit)
<1> DEFINE now == UpdateIRQ(r, t)
           bit == {now.Current_Interrupt} \ {NoInterrupt}
           inService == IF r.SEI THEN now.ISR \union bit ELSE now.ISR \ bit
           acked == [now EXCEPT !.IPR = @ \ bit, !.ISR = inService]
<1>1. ProcessIACK(r, t) = UpdateIRQ(acked, t)
  BY DEF ProcessIACK
<1>2. /\ now \in Registers /\ Fresh(now)
      /\ now.IER = r.IER /\ now.IPR = r.IPR /\ now.ISR = r.ISR /\ now.SEI = r.SEI
      /\ \/ now.Current_Interrupt \in Allowed(r)
         \/ now.Current_Interrupt = r.Current_Interrupt
  BY UpdateIRQGood
<1>3. bit \in SUBSET Channels
  BY <1>2 DEF Registers
<1>4. ASSUME Justified(r), r.IRQ
      PROVE  \E ch \in Allowed(r) : bit = {ch}
  <2>1. now.Current_Interrupt \in Allowed(r)
    BY <1>2, <1>4 DEF Justified
  <2>2. now.Current_Interrupt \in Channels
    BY <2>1 DEF Allowed, Unmasked, Registers
  <2>3. bit = {now.Current_Interrupt}
    BY <2>2, RegisterAssumption DEF NoInterrupt
  <2> QED
    BY <2>1, <2>3
<1> HIDE DEF now, bit
<1>5. now.IPR \ bit \in SUBSET Channels /\ inService \in SUBSET Channels
  BY <1>2, <1>3 DEF Registers
<1>6. /\ acked.IPR = r.IPR \ bit
      /\ acked.ISR = IF r.SEI THEN r.ISR \union bit ELSE r.ISR \ bit
      /\ acked.IER = r.IER /\ acked.Pending_Time = now.Pending_Time
      /\ acked.Pending_Time_Min = Never
      /\ acked.IRQ_Time = now.IRQ_Time
  BY <1>2 DEF Registers, Fresh
<1>7. acked.IRQ = now.IRQ
  BY <1>2 DEF Registers
<1>8. acked \in Registers
  <2> HIDE DEF inService
  <2> QED
    BY <1>2, <1>5, ZenonT(60) DEF Registers
<1> HIDE DEF acked
<1> QED
  BY <1>1, <1>3, <1>4, <1>6, <1>7, <1>8 DEF now, Takes

(* The acknowledge of an MFP that asserts IRQ takes a request that is      *)
(* allowed: the one the first update finds, or the one that                *)
(* Current_Interrupt held already.  Any other leaves the MFP in order.     *)
LEMMA IACKGood ==
  ASSUME NEW r \in Registers, Justified(r), NEW t \in Int
  PROVE  LET p == ProcessIACK(r, t) IN
         /\ p \in Registers
         /\ Justified(p)
         /\ Fresh(p)
         /\ r.IRQ => \E ch \in Allowed(r) :
                       /\ p.IPR = r.IPR \ {ch}
                       /\ p.ISR = IF r.SEI THEN r.ISR \union {ch} ELSE r.ISR \ {ch}
<1> DEFINE p == ProcessIACK(r, t)
<1>1. PICK acked \in Registers, bit \in SUBSET Channels : Takes(r, t, acked, bit)
  BY IACKTakes
<1>2. /\ p = UpdateIRQ(acked, t)
      /\ acked.IER = r.IER
      /\ acked.IPR = r.IPR \ bit
      /\ acked.ISR = IF r.SEI THEN r.ISR \union bit ELSE r.ISR \ bit
      /\ r.IRQ => \E ch \in Allowed(r) : bit = {ch}
  BY <1>1 DEF Takes
<1> HIDE DEF p
<1>3. acked.IPR \subseteq acked.IER
  BY <1>2 DEF Justified
<1>4. /\ p \in Registers /\ p.IPR = acked.IPR /\ p.ISR = acked.ISR /\ Fresh(p)
  BY <1>2, UpdateIRQGood
<1>5. Justified(p)
  BY <1>2, <1>3, UpdateJustifies
<1>6. r.IRQ => \E ch \in Allowed(r) :
                /\ p.IPR = r.IPR \ {ch}
                /\ p.ISR = IF r.SEI THEN r.ISR \union {ch} ELSE r.ISR \ {ch}
  BY <1>2, <1>4
<1> QED
  BY <1>4, <1>5, <1>6 DEF p

(* The delay touches IRQ_CPU only. *)
LEMMA DelayGood ==
  ASSUME NEW r \in Registers, Justified(r), NEW t \in Int
  PROVE  LET d == DelayIRQ(r, t) IN
         /\ d \in Registers
         /\ Justified(d)
         /\ d.IRQ = r.IRQ
         /\ d.Pending_Time_Min = r.Pending_Time_Min
         /\ d.IRQ_CPU => d.IRQ \/ Delayed(r, t)
         /\ ~Delayed(r, t) => d.IRQ_CPU = d.IRQ
<1> DEFINE d == DelayIRQ(r, t)
<1>1. CASE Delayed(r, t)
  <2>1. d = r
    BY <1>1 DEF DelayIRQ
  <2> QED
    BY <1>1, <2>1
<1>2. CASE ~Delayed(r, t)
  <2>1. d = [r EXCEPT !.IRQ_CPU = r.IRQ]
    BY <1>2 DEF DelayIRQ
  <2> HIDE DEF d
  <2>2. d \in Registers
    BY <2>1, ZenonT(60) DEF Registers
  <2>3. d.IRQ = r.IRQ /\ d.IRQ_CPU = r.IRQ
    BY <2>1 DEF Registers
  <2>4. /\ d.IER = r.IER /\ d.IPR = r.IPR /\ d.ISR = r.ISR /\ d.IMR = r.IMR
        /\ d.Current_Interrupt = r.Current_Interrupt
        /\ d.Pending_Time_Min = r.Pending_Time_Min
    BY <2>1 DEF Registers
  <2>5. Justified(d)
    BY <2>3, <2>4 DEF Justified, Allowed, Unmasked, NotBlocked
  <2> QED
    BY <1>2, <2>2, <2>3, <2>4, <2>5 DEF d
<1> QED
  BY <1>1, <1>2

-----------------------------------------------------------------------------
(* One MFP changes, the others do not. *)
LEMMA OneMFP ==
  ASSUME NEW f \in [MFPs -> Registers], \A n \in MFPs : Justified(f[n]),
         NEW m \in MFPs, NEW u \in Registers, Justified(u)
  PROVE  /\ [f EXCEPT ![m] = u] \in [MFPs -> Registers]
         /\ \A n \in MFPs : Justified([f EXCEPT ![m] = u][n])
OBVIOUS

(* What every MFP_UpdateIRQ_All establishes. *)
LEMMA UpdateIfNeededGood ==
  ASSUME IInv, UpdateIfNeeded, level6' = level6
  PROVE  /\ mfp' \in [MFPs -> Registers]
         /\ \A m \in MFPs : Justified(mfp'[m])
         /\ updateNeeded' \in BOOLEAN
         /\ spcMFP' \in BOOLEAN
         /\ LineNotForgotten'
         /\ UpdateSeen'
<1>1. /\ mfp \in [MFPs -> Registers] /\ \A m \in MFPs : Justified(mfp[m])
      /\ updateNeeded \in BOOLEAN /\ spcMFP \in BOOLEAN
      /\ LineNotForgotten /\ UpdateSeen
  BY DEF IInv, TypeOK
<1>2. CASE updateNeeded
  <2>1. /\ mfp' = [m \in MFPs |-> UpdateIRQ(mfp[m], 0)]
        /\ spcMFP' = TRUE /\ updateNeeded' = FALSE
    BY <1>2 DEF UpdateIfNeeded, Updated
  <2>2. ASSUME NEW m \in MFPs
        PROVE  mfp'[m] \in Registers /\ Justified(mfp'[m]) /\ Fresh(mfp'[m])
    <3>1. mfp'[m] = UpdateIRQ(mfp[m], 0) /\ mfp[m] \in Registers /\ 0 \in Int
      BY <1>1, <2>1
    <3>2. mfp[m].IPR \subseteq mfp[m].IER
      BY <1>1 DEF Justified
    <3> QED
      BY <3>1, <3>2, UpdateIRQGood, UpdateJustifies
  <2>3. LineNotForgotten' /\ UpdateSeen'
    BY <2>1, <2>2 DEF LineNotForgotten, UpdateSeen, UpdateNotForgotten, Fresh
  <2> QED
    BY <2>1, <2>2, <2>3
<1>3. CASE ~updateNeeded
  <2>1. UNCHANGED <<mfp, updateNeeded, spcMFP>>
    BY <1>3 DEF UpdateIfNeeded
  <2> QED
    BY <1>1, <2>1 DEF LineNotForgotten, UpdateSeen, UpdateNotForgotten
<1> QED
  BY <1>2, <1>3

(* After the propagation, level 6 is pending only if somebody asserts IRQ. *)
LEMMA PropagateGood ==
  ASSUME IInv, PropagateIRQ, updateNeeded' = updateNeeded
  PROVE  /\ mfp' \in [MFPs -> Registers]
         /\ \A m \in MFPs : Justified(mfp'[m])
         /\ spcMFP' \in BOOLEAN
         /\ level6' \in BOOLEAN /\ video' \in BOOLEAN /\ ipl_pin' \in BOOLEAN
         /\ LineNotForgotten'
         /\ SomeoneRequests'
         /\ UpdateSeen'
         /\ PinFollows'
<1>1. /\ mfp \in [MFPs -> Registers] /\ \A m \in MFPs : Justified(mfp[m])
      /\ spcMFP \in BOOLEAN /\ level6 \in BOOLEAN /\ video \in BOOLEAN
      /\ ipl_pin \in BOOLEAN /\ clock \in Int
      /\ LineNotForgotten /\ UpdateSeen /\ PinFollows /\ video' = video
  BY DEF IInv, TypeOK, PropagateIRQ
<1>2. CASE spcMFP
  <2>1. /\ mfp' = [m \in MFPs |-> DelayIRQ(mfp[m], clock)]
        /\ spcMFP' = \E m \in MFPs : Delayed(mfp[m], clock)
        /\ level6' = \E m \in MFPs : mfp'[m].IRQ_CPU
        /\ ipl_pin' = IF level6' \/ video' THEN level6' ELSE ipl_pin
    BY <1>2 DEF PropagateIRQ, Update_intlev
  <2>2. ASSUME NEW m \in MFPs
        PROVE  /\ mfp'[m] \in Registers /\ Justified(mfp'[m])
               /\ mfp'[m].Pending_Time_Min = mfp[m].Pending_Time_Min
               /\ mfp'[m].IRQ = mfp[m].IRQ
               /\ mfp'[m].IRQ_CPU => mfp'[m].IRQ \/ Delayed(mfp[m], clock)
               /\ ~Delayed(mfp[m], clock) => mfp'[m].IRQ_CPU = mfp'[m].IRQ
    <3>1. mfp'[m] = DelayIRQ(mfp[m], clock) /\ mfp[m] \in Registers /\ Justified(mfp[m])
      BY <1>1, <2>1
    <3> QED
      BY <3>1, <1>1, DelayGood
  <2>3. \A m \in MFPs : mfp'[m].IRQ_CPU => mfp'[m].IRQ
    BY <2>2 DEF Delayed
  <2>4. LineNotForgotten'
    BY <2>1, <2>2 DEF LineNotForgotten
  <2>5. mfp' \in [MFPs -> Registers]
    BY <2>1, <2>2
  <2>6. spcMFP' \in BOOLEAN /\ level6' \in BOOLEAN
    BY <2>1
  <2>7. SomeoneRequests'
    BY <2>1, <2>3 DEF SomeoneRequests
  <2>9. ipl_pin' \in BOOLEAN /\ PinFollows'
    BY <1>1, <2>1, <2>6 DEF PinFollows
  <2>8. UpdateSeen'
    BY <1>1, <2>2 DEF UpdateSeen, UpdateNotForgotten
  <2> QED
    BY <1>1, <2>2, <2>4, <2>5, <2>6, <2>7, <2>8, <2>9
<1>3. CASE ~spcMFP
  <2>1. UNCHANGED <<mfp, spcMFP, level6, ipl_pin>>
    BY <1>3 DEF PropagateIRQ
  <2>2. /\ level6 = \E m \in MFPs : mfp[m].IRQ_CPU
        /\ \A m \in MFPs : mfp[m].IRQ_CPU => mfp[m].IRQ
    BY <1>1, <1>3 DEF LineNotForgotten
  <2>3. SomeoneRequests'
    BY <2>1, <2>2 DEF SomeoneRequests
  <2> QED
    BY <1>1, <2>1, <2>3 DEF LineNotForgotten, UpdateSeen, UpdateNotForgotten, PinFollows
<1> QED
  BY <1>2, <1>3

LEMMA IACKFromIs ==
  ASSUME IInv, pc = "iack"
  PROVE  IACKFrom \in MFPs /\ (level6 => mfp[IACKFrom].IRQ)
BY DEF IInv, SomeoneRequests, IACKFrom, MFPs

LEMMA InitInv == Init => IInv
<1> SUFFICES ASSUME Init PROVE IInv
  OBVIOUS
<1>1. ASSUME NEW m \in MFPs
      PROVE  /\ mfp[m] \in Registers /\ Justified(mfp[m])
             /\ mfp[m].IRQ = FALSE /\ mfp[m].IRQ_CPU = FALSE
             /\ Fresh(mfp[m])
  <2>1. PICK ier \in Enables, imr \in Masks, sei \in BOOLEAN :
          mfp[m] = [IER |-> ier, IPR |-> {}, ISR |-> {}, IMR |-> imr, SEI |-> sei,
                    IRQ |-> FALSE, IRQ_CPU |-> FALSE, IRQ_Time |-> 0,
                    Current_Interrupt |-> NoInterrupt,
                    Pending_Time |-> [ch \in Channels |-> Never],
                    Pending_Time_Min |-> Never]
    BY <1>1 DEF Init
  <2>2. ier \in SUBSET Channels /\ imr \in SUBSET Channels /\ Never \in Int
    BY RegisterAssumption, TimeAssumption
  <2>3. mfp[m] \in Registers
    BY <2>1, <2>2 DEF Registers
  <2> QED
    BY <2>1, <2>3 DEF Justified, Fresh
<1>2. mfp \in [MFPs -> Registers]
  <2>1. mfp = [m \in MFPs |-> mfp[m]]
    BY DEF Init
  <2> QED
    BY <1>1, <2>1
<1>3. TypeOK
  BY <1>2, TimeAssumption DEF Init, TypeOK, Places, MFPs
<1>4. LineNotForgotten
  BY <1>1 DEF Init, LineNotForgotten
<1>5. SomeoneRequests
  BY DEF Init, SomeoneRequests
<1>6. UpdateSeen
  BY <1>1 DEF UpdateSeen, UpdateNotForgotten, Fresh
<1>7. PinFollows
  BY DEF Init, PinFollows
<1> QED
  BY <1>1, <1>3, <1>4, <1>5, <1>6, <1>7 DEF IInv

(* The conjuncts of TypeOK other than the one on the MFPs.                 *)
PlacesOK ==
  /\ updateNeeded \in BOOLEAN /\ spcMFP \in BOOLEAN
  /\ level6 \in BOOLEAN /\ video \in BOOLEAN /\ ipl_pin \in BOOLEAN
  /\ masked \in BOOLEAN
  /\ clock \in Nat /\ currcycle \in Nat /\ horizon \in Nat
  /\ served \subseteq MFPs \X Channels
  /\ pc \in Places /\ accessed \in MFPs

(* The inductive invariant, in the form in which the actions keep it.      *)
LEMMA IInvIs ==
  IInv <=> /\ mfp \in [MFPs -> Registers]
           /\ \A m \in MFPs : Justified(mfp[m])
           /\ PlacesOK /\ LineNotForgotten /\ SomeoneRequests /\ UpdateSeen /\ PinFollows
BY DEF IInv, TypeOK, PlacesOK, levels

(* An input, from a handler or from an instruction. *)
LEMMA InputInv ==
  ASSUME IInv, NEW m \in MFPs, NEW ch \in Channels, NEW t \in Int,
         mfp' = [mfp EXCEPT ![m] = InputOnChannel(@, ch, t)],
         updateNeeded' = TRUE, UNCHANGED <<spcMFP, levels, pc>>, PlacesOK'
  PROVE  IInv'
<1> DEFINE u == InputOnChannel(mfp[m], ch, t)
<1>1. /\ mfp \in [MFPs -> Registers] /\ \A n \in MFPs : Justified(mfp[n])
      /\ LineNotForgotten /\ SomeoneRequests /\ UpdateSeen /\ PinFollows
      /\ UNCHANGED <<level6, video, ipl_pin>>
  BY IInvIs DEF levels
<1>2. /\ u \in Registers /\ Justified(u)
      /\ u.IRQ = mfp[m].IRQ /\ u.IRQ_CPU = mfp[m].IRQ_CPU
  BY <1>1, InputGood
<1> HIDE DEF u
<1>3. mfp' = [mfp EXCEPT ![m] = u]
  BY <1>1 DEF u
<1>4. mfp' \in [MFPs -> Registers] /\ \A n \in MFPs : Justified(mfp'[n])
  BY <1>1, <1>2, <1>3, OneMFP
<1>5. \A n \in MFPs : mfp'[n].IRQ = mfp[n].IRQ /\ mfp'[n].IRQ_CPU = mfp[n].IRQ_CPU
  BY <1>1, <1>2, <1>3
<1>6. LineNotForgotten'
  BY <1>1, <1>5 DEF LineNotForgotten
<1>7. SomeoneRequests'
  BY <1>1, <1>5 DEF SomeoneRequests
<1>8. UpdateSeen' /\ PinFollows'
  BY <1>1 DEF UpdateSeen, UpdateNotForgotten, PinFollows
<1> QED
  BY <1>4, <1>6, <1>7, <1>8 DEF IInv, TypeOK, PlacesOK, levels

(* The update of one MFP: the processor will look at the lines again.      *)
LEMMA UpdateInv ==
  ASSUME IInv, NEW m \in MFPs, NEW u \in Registers, Justified(u), Fresh(u),
         mfp' = [mfp EXCEPT ![m] = u], spcMFP' = TRUE, pc' # "iack", PlacesOK', PinFollows'
  PROVE  IInv'
<1>1. /\ mfp \in [MFPs -> Registers] /\ \A n \in MFPs : Justified(mfp[n])
  BY IInvIs
<1>2. mfp' \in [MFPs -> Registers] /\ \A n \in MFPs : Justified(mfp'[n])
  BY <1>1, OneMFP
<1>3. LineNotForgotten' /\ SomeoneRequests'
  BY DEF LineNotForgotten, SomeoneRequests
<1>4. UpdateSeen'
  BY <1>1 DEF UpdateSeen, UpdateNotForgotten, Fresh, MFPs
<1> QED
  BY <1>2, <1>3, <1>4 DEF IInv, TypeOK, PlacesOK, levels

(* A write that ends with MFP_UpdateIRQ: the pending bits must stay        *)
(* enabled.                                                                *)
LEMMA WriteInv ==
  ASSUME IInv, NEW r \in Registers, r.IPR \subseteq r.IER, WriteRegister(r)
  PROVE  IInv'
<1>1. /\ accessed \in MFPs /\ PlacesOK
      /\ clock \in Nat /\ currcycle \in Nat
  BY IInvIs DEF PlacesOK
<1> DEFINE t == clock + currcycle + WRITE_CYCLES
<1>2. t \in Int /\ currcycle + WRITE_CYCLES \in Nat
  BY <1>1, TimeAssumption
<1>3. /\ UpdateIRQ(r, t) \in Registers /\ Justified(UpdateIRQ(r, t))
      /\ Fresh(UpdateIRQ(r, t))
  BY <1>2, UpdateIRQGood, UpdateJustifies
<1>4. /\ mfp' = [mfp EXCEPT ![accessed] = UpdateIRQ(r, t)]
      /\ spcMFP' = TRUE /\ pc' = "opcode"
  BY DEF WriteRegister, Updated
<1>5. PlacesOK'
  BY <1>1, <1>2 DEF PlacesOK, WriteRegister, Updated, Places, levels
<1>6. PinFollows'
  BY IInvIs DEF WriteRegister, PinFollows, levels
<1> HIDE DEF t
<1> QED
  BY <1>1, <1>3, <1>4, <1>5, <1>6, UpdateInv

LEMMA NextInv == IInv /\ [Next]_vars => IInv'
<1> SUFFICES ASSUME IInv, [Next]_vars PROVE IInv'
  OBVIOUS
<1>1. /\ mfp \in [MFPs -> Registers] /\ \A n \in MFPs : Justified(mfp[n])
      /\ PlacesOK /\ LineNotForgotten /\ SomeoneRequests /\ UpdateSeen /\ PinFollows
  BY IInvIs
<1>2. /\ accessed \in MFPs
      /\ mfp[accessed] \in Registers /\ Justified(mfp[accessed])
      /\ mfp[accessed].IPR \subseteq mfp[accessed].IER
  BY <1>1 DEF PlacesOK, Justified
<1>3. ASSUME NEW m \in MFPs, NEW ch \in Channels, InterruptHandler_Timer(m, ch)
      PROVE  IInv'
  <2>1. PICK due \in horizon..CyclesImmediate :
          /\ mfp' = [mfp EXCEPT ![m] = InputOnChannel(@, ch, EventTime(due))]
          /\ horizon' = due
    BY <1>3 DEF InterruptHandler_Timer
  <2>2. EventTime(due) \in Int /\ due \in Nat
    BY <1>1 DEF EventTime, CyclesImmediate, PlacesOK
  <2>3. PlacesOK'
    BY <1>1, <1>3, <2>1, <2>2 DEF InterruptHandler_Timer, Served, PlacesOK, levels
  <2> QED
    BY <1>3, <2>1, <2>2, <2>3, InputInv DEF InterruptHandler_Timer
<1>4. ASSUME NEW m \in MFPs, NEW ch \in Channels, GPIP_Set_Line_Input(m, ch)
      PROVE  IInv'
  <2>1. clock \in Int
    BY <1>1 DEF PlacesOK
  <2>2. PlacesOK'
    BY <1>1, <1>4 DEF GPIP_Set_Line_Input, Served, PlacesOK, levels
  <2> QED
    BY <1>4, <2>1, <2>2, InputInv DEF GPIP_Set_Line_Input
<1>5. ASSUME NEW m \in MFPs, AccessRegister(m)
      PROVE  IInv'
  <2>1. PlacesOK'
    BY <1>1, <1>5, TimeAssumption DEF AccessRegister, PlacesOK, Places, levels
  <2>2. LineNotForgotten' /\ SomeoneRequests' /\ UpdateSeen' /\ PinFollows'
    BY <1>1, <1>5 DEF AccessRegister, LineNotForgotten, SomeoneRequests, UpdateSeen, UpdateNotForgotten, PinFollows, levels
  <2> QED
    BY <1>1, <1>5, <2>1, <2>2 DEF AccessRegister, IInv, TypeOK, PlacesOK, levels
<1>6. CASE UpdateTimers
  <2>1. PlacesOK'
    <3>1. CyclesImmediate \in Nat
      BY <1>1 DEF CyclesImmediate, PlacesOK
    <3>2. updateNeeded' \in BOOLEAN /\ spcMFP' \in BOOLEAN
      BY <1>1, <1>6 DEF UpdateTimers, Updated, PlacesOK
    <3>3. /\ horizon' = CyclesImmediate /\ served' = {} /\ pc' = "access"
          /\ UNCHANGED <<levels, masked, clock, currcycle, accessed>>
      BY <1>6 DEF UpdateTimers
    <3> QED
      BY <1>1, <3>1, <3>2, <3>3 DEF PlacesOK, Places, levels
  <2>2. CASE updateNeeded
    <3>1. CyclesImmediate \in Int
      BY <1>1 DEF CyclesImmediate, PlacesOK
    <3>2. /\ UpdateIRQ(mfp[accessed], CyclesImmediate) \in Registers
          /\ Justified(UpdateIRQ(mfp[accessed], CyclesImmediate))
          /\ Fresh(UpdateIRQ(mfp[accessed], CyclesImmediate))
      BY <1>2, <3>1, UpdateIRQGood, UpdateJustifies
    <3>3. /\ mfp' = [mfp EXCEPT ![accessed] = UpdateIRQ(mfp[accessed], CyclesImmediate)]
          /\ spcMFP' = TRUE /\ pc' = "access"
      BY <1>6, <2>2 DEF UpdateTimers, Updated
    <3>4. PinFollows'
      BY <1>1, <1>6 DEF UpdateTimers, PinFollows, levels
    <3> QED
      BY <1>2, <2>1, <3>2, <3>3, <3>4, UpdateInv
  <2>3. CASE ~updateNeeded
    <3>1. UNCHANGED <<mfp, updateNeeded, spcMFP, levels>> /\ pc' = "access"
      BY <1>6, <2>3 DEF UpdateTimers
    <3>2. LineNotForgotten' /\ SomeoneRequests' /\ UpdateSeen' /\ PinFollows'
      BY <1>1, <3>1 DEF LineNotForgotten, SomeoneRequests, UpdateSeen, UpdateNotForgotten, PinFollows, levels
    <3> QED
      BY <1>1, <2>1, <3>1, <3>2 DEF IInv, TypeOK, PlacesOK, levels
  <2> QED
    BY <2>2, <2>3
<1>7. ASSUME NEW v \in Enables, Enable_WriteByte(v)
      PROVE  IInv'
  <2> DEFINE r == [mfp[accessed] EXCEPT !.IER = v, !.IPR = @ \intersect v]
  <2>1. v \in SUBSET Channels /\ mfp[accessed].IPR \intersect v \in SUBSET Channels
    BY RegisterAssumption
  <2>2. r \in Registers
    BY <1>2, <2>1, ZenonT(60) DEF Registers
  <2>3. r.IPR \subseteq r.IER
    BY <1>2 DEF Registers
  <2> QED
    BY <1>7, <2>2, <2>3, WriteInv DEF Enable_WriteByte
<1>8. ASSUME NEW v \in Keeps, Pending_WriteByte(v)
      PROVE  IInv'
  <2> DEFINE r == [mfp[accessed] EXCEPT !.IPR = @ \intersect v]
  <2>1. mfp[accessed].IPR \intersect v \in SUBSET Channels
    BY <1>2 DEF Registers
  <2>2. r \in Registers
    BY <1>2, <2>1, ZenonT(60) DEF Registers
  <2>3. r.IPR \subseteq r.IER
    BY <1>2 DEF Registers
  <2> QED
    BY <1>8, <2>2, <2>3, WriteInv DEF Pending_WriteByte
<1>9. ASSUME NEW v \in Keeps, InService_WriteByte(v)
      PROVE  IInv'
  <2> DEFINE r == [mfp[accessed] EXCEPT !.ISR = @ \intersect v]
  <2>1. mfp[accessed].ISR \intersect v \in SUBSET Channels
    BY <1>2 DEF Registers
  <2>2. r \in Registers
    BY <1>2, <2>1, ZenonT(60) DEF Registers
  <2>3. r.IPR \subseteq r.IER
    BY <1>2 DEF Registers
  <2> QED
    BY <1>9, <2>2, <2>3, WriteInv DEF InService_WriteByte
<1>10. ASSUME NEW v \in Masks, Mask_WriteByte(v)
      PROVE  IInv'
  <2> DEFINE r == [mfp[accessed] EXCEPT !.IMR = v]
  <2>1. v \in SUBSET Channels
    BY RegisterAssumption
  <2>2. r \in Registers
    BY <1>2, <2>1, ZenonT(60) DEF Registers
  <2>3. r.IPR \subseteq r.IER
    BY <1>2 DEF Registers
  <2> QED
    BY <1>10, <2>2, <2>3, WriteInv DEF Mask_WriteByte
<1>11. CASE VectorReg_LeaveSEI
  <2> DEFINE r == [mfp[accessed] EXCEPT !.SEI = FALSE, !.ISR = {}]
  <2>1. r \in Registers
    BY <1>2, ZenonT(60) DEF Registers
  <2>2. r.IPR \subseteq r.IER
    BY <1>2 DEF Registers
  <2> QED
    BY <1>11, <2>1, <2>2, WriteInv DEF VectorReg_LeaveSEI
<1>12. CASE VectorReg_EnterSEI
  <2> DEFINE u == [mfp[accessed] EXCEPT !.SEI = TRUE]
  <2>1. u \in Registers
    BY <1>2, ZenonT(60) DEF Registers
  <2>2. /\ u.IER = mfp[accessed].IER /\ u.IPR = mfp[accessed].IPR
        /\ u.ISR = mfp[accessed].ISR /\ u.IMR = mfp[accessed].IMR
        /\ u.Current_Interrupt = mfp[accessed].Current_Interrupt
        /\ u.Pending_Time_Min = mfp[accessed].Pending_Time_Min
    BY <1>2 DEF Registers
  <2>3. u.IRQ = mfp[accessed].IRQ /\ u.IRQ_CPU = mfp[accessed].IRQ_CPU
    BY <1>2 DEF Registers
  <2>4. Justified(u)
    BY <1>2, <2>2, <2>3 DEF Justified, Allowed, Unmasked, NotBlocked
  <2>5. mfp' = [mfp EXCEPT ![accessed] = u]
    BY <1>12 DEF VectorReg_EnterSEI
  <2> HIDE DEF u
  <2>6. mfp' \in [MFPs -> Registers] /\ \A n \in MFPs : Justified(mfp'[n])
    BY <1>1, <1>2, <2>1, <2>4, <2>5, OneMFP
  <2>7. \A n \in MFPs :
          /\ mfp'[n].IRQ = mfp[n].IRQ /\ mfp'[n].IRQ_CPU = mfp[n].IRQ_CPU
          /\ mfp'[n].Pending_Time_Min = mfp[n].Pending_Time_Min
    BY <1>1, <1>2, <2>2, <2>3, <2>5
  <2>8. LineNotForgotten' /\ SomeoneRequests' /\ UpdateSeen' /\ PinFollows'
    BY <1>1, <1>12, <2>7 DEF VectorReg_EnterSEI, LineNotForgotten, SomeoneRequests, UpdateSeen, UpdateNotForgotten, PinFollows, levels
  <2>9. PlacesOK'
    BY <1>1, <1>12, TimeAssumption DEF VectorReg_EnterSEI, PlacesOK, Places, levels
  <2> QED
    BY <2>6, <2>8, <2>9 DEF IInv, TypeOK, PlacesOK, levels
<1>13. CASE ReadByte
  <2>1. LineNotForgotten' /\ SomeoneRequests' /\ UpdateSeen' /\ PinFollows' /\ PlacesOK'
    BY <1>1, <1>13 DEF ReadByte, LineNotForgotten, SomeoneRequests, UpdateSeen, UpdateNotForgotten, PinFollows, levels, PlacesOK, Places
  <2> QED
    BY <1>1, <1>13, <2>1 DEF ReadByte, IInv, TypeOK, PlacesOK, levels
<1>14. CASE customreset
  <2>1. ASSUME NEW m \in MFPs
        PROVE  /\ mfp'[m] \in Registers /\ Justified(mfp'[m])
               /\ mfp'[m].IRQ = FALSE /\ mfp'[m].IRQ_CPU = FALSE
               /\ mfp'[m].Pending_Time_Min = Never
    <3>1. mfp'[m] = ResetRegisters(mfp[m])
      BY <1>14 DEF customreset
    <3>2. Never \in Int
      BY TimeAssumption
    <3>3. mfp'[m] \in Registers
      BY <3>1, <3>2 DEF ResetRegisters, Registers
    <3> QED
      BY <3>1, <3>3 DEF ResetRegisters, Justified
  <2>2. mfp' \in [MFPs -> Registers]
    <3>1. mfp' = [m \in MFPs |-> mfp'[m]]
      BY <1>14 DEF customreset
    <3> QED
      BY <2>1, <3>1
  <2>3. LineNotForgotten' /\ SomeoneRequests' /\ UpdateSeen' /\ PinFollows' /\ PlacesOK'
    BY <1>1, <1>14, <2>1
    DEF customreset, LineNotForgotten, SomeoneRequests, UpdateSeen, UpdateNotForgotten, PinFollows, levels, PlacesOK
  <2> QED
    BY <2>1, <2>2, <2>3 DEF IInv, TypeOK, PlacesOK, levels
<1>15. CASE ChangeIntmask
  <2>1. LineNotForgotten' /\ SomeoneRequests' /\ UpdateSeen' /\ PinFollows' /\ PlacesOK'
    BY <1>1, <1>15 DEF ChangeIntmask, LineNotForgotten, SomeoneRequests, UpdateSeen, UpdateNotForgotten, PinFollows, levels, PlacesOK
  <2> QED
    BY <1>1, <1>15, <2>1 DEF ChangeIntmask, IInv, TypeOK, PlacesOK, levels
<1>16. CASE EndOfInstruction
  <2>1. LineNotForgotten' /\ SomeoneRequests' /\ UpdateSeen' /\ PinFollows'
    BY <1>1, <1>16 DEF EndOfInstruction, LineNotForgotten, SomeoneRequests, UpdateSeen, UpdateNotForgotten, PinFollows, levels
  <2>2. PlacesOK'
    <3>1. PICK c \in 1..MaxInstr : clock' = clock + c
      BY <1>16 DEF EndOfInstruction
    <3>2. clock' \in Nat
      BY <1>1, <3>1, TimeAssumption DEF PlacesOK
    <3> QED
      BY <1>1, <1>16, <3>2 DEF EndOfInstruction, PlacesOK, Places, levels
  <2> QED
    BY <1>1, <1>16, <2>1, <2>2 DEF EndOfInstruction, IInv, TypeOK, PlacesOK, levels
<1>17. CASE CycInt_Process
  <2>1. UpdateIfNeeded /\ level6' = level6 /\ pc' = "special"
    BY <1>17 DEF CycInt_Process, levels
  <2>2. SomeoneRequests' /\ PinFollows'
    BY <1>1, <1>17, <2>1 DEF CycInt_Process, SomeoneRequests, PinFollows, levels
  <2>3. PlacesOK'
    BY <1>1, <1>17, <2>1, UpdateIfNeededGood DEF CycInt_Process, PlacesOK, Places, levels
  <2> QED
    BY <2>1, <2>2, <2>3, UpdateIfNeededGood DEF IInv, TypeOK, PlacesOK, levels
<1>18. CASE do_specialties_Level6
  <2>1. PropagateIRQ /\ updateNeeded' = updateNeeded /\ pc' = "iack"
    BY <1>18 DEF do_specialties_Level6
  <2>2. SomeoneRequests'
    BY <2>1, PropagateGood
  <2>3. PlacesOK'
    BY <1>1, <1>18, <2>1, PropagateGood, TimeAssumption
    DEF do_specialties_Level6, PlacesOK, Places, levels
  <2> QED
    BY <2>1, <2>2, <2>3, PropagateGood DEF IInv, TypeOK, PlacesOK, levels
<1>19. CASE do_specialties_Video
  <2>1. PropagateIRQ /\ updateNeeded' = updateNeeded /\ pc' = "videoiack"
    BY <1>19 DEF do_specialties_Video
  <2>2. SomeoneRequests'
    BY <2>1 DEF SomeoneRequests
  <2>3. PlacesOK'
    BY <1>1, <1>19, <2>1, PropagateGood, TimeAssumption
    DEF do_specialties_Video, PlacesOK, Places, levels
  <2> QED
    BY <2>1, <2>2, <2>3, PropagateGood DEF IInv, TypeOK, PlacesOK, levels
<1>20. CASE do_specialties_None
  <2>1. PropagateIRQ /\ updateNeeded' = updateNeeded /\ pc' = "opcode"
    BY <1>20 DEF do_specialties_None
  <2>2. SomeoneRequests'
    BY <2>1 DEF SomeoneRequests
  <2>3. PlacesOK'
    BY <1>1, <1>20, <2>1, PropagateGood DEF do_specialties_None, PlacesOK, Places, levels
  <2> QED
    BY <2>1, <2>2, <2>3, PropagateGood DEF IInv, TypeOK, PlacesOK, levels
<1>21. CASE iack_cycle_Level6
  <2>1. pc = "iack" /\ clock \in Int
    BY <1>1, <1>21 DEF iack_cycle_Level6, PlacesOK
  <2>2. IACKFrom \in MFPs
    BY <2>1, IACKFromIs
  <2>3. mfp[IACKFrom] \in Registers /\ Justified(mfp[IACKFrom])
    BY <1>1, <2>2
  <2>4. /\ ProcessIACK(mfp[IACKFrom], clock) \in Registers
        /\ Justified(ProcessIACK(mfp[IACKFrom], clock))
        /\ Fresh(ProcessIACK(mfp[IACKFrom], clock))
    BY <2>1, <2>2, <2>3, IACKGood
  <2>5. /\ mfp' = [mfp EXCEPT ![IACKFrom] = ProcessIACK(mfp[IACKFrom], clock)]
        /\ spcMFP' = TRUE /\ pc' = "opcode"
    BY <1>21 DEF iack_cycle_Level6, Updated
  <2>6. PlacesOK'
    BY <1>1, <1>21 DEF iack_cycle_Level6, Updated, PlacesOK, Places, levels
  <2>7. PinFollows'
    BY <1>21 DEF iack_cycle_Level6, PinFollows
  <2> QED
    BY <2>2, <2>4, <2>5, <2>6, <2>7, UpdateInv
<1>22. CASE iack_cycle_Video
  <2>1. UpdateIfNeeded /\ level6' = level6 /\ pc' = "opcode"
    BY <1>22 DEF iack_cycle_Video
  <2>2. SomeoneRequests' /\ PinFollows'
    BY <1>22, <2>1 DEF iack_cycle_Video, SomeoneRequests, PinFollows
  <2>3. PlacesOK'
    BY <1>1, <1>22, <2>1, UpdateIfNeededGood DEF iack_cycle_Video, PlacesOK, Places, levels
  <2> QED
    BY <2>1, <2>2, <2>3, UpdateIfNeededGood DEF IInv, TypeOK, PlacesOK, levels
<1>23. CASE InterruptHandler_Video
  <2>1. /\ UNCHANGED <<mfp, updateNeeded, spcMFP, masked, clock, currcycle, served,
                       horizon, pc, accessed>>
        /\ level6' = \E m \in MFPs : mfp[m].IRQ_CPU
        /\ video' = TRUE /\ ipl_pin' = level6'
    BY <1>23 DEF InterruptHandler_Video, Update_intlev
  <2>2. level6' \in BOOLEAN
    BY <2>1
  <2>3. PlacesOK' /\ PinFollows' /\ UpdateSeen'
    BY <1>1, <2>1, <2>2 DEF PlacesOK, PinFollows, UpdateSeen, UpdateNotForgotten
  <2>4. LineNotForgotten'
    BY <1>1, <2>1 DEF LineNotForgotten
  <2>5. SomeoneRequests'
    BY <1>1, <2>1 DEF SomeoneRequests
  <2> QED
    BY <1>1, <2>1, <2>3, <2>4, <2>5 DEF IInv, TypeOK, PlacesOK
<1>24. CASE UNCHANGED vars
  <2>1. LineNotForgotten' /\ SomeoneRequests' /\ UpdateSeen' /\ PinFollows' /\ PlacesOK'
    BY <1>1, <1>24 DEF vars, LineNotForgotten, SomeoneRequests, UpdateSeen, UpdateNotForgotten, PinFollows, levels, PlacesOK
  <2> QED
    BY <1>1, <1>24, <2>1 DEF vars, IInv, TypeOK, PlacesOK, levels
<1> QED
  BY <1>3, <1>4, <1>5, <1>6, <1>7, <1>8, <1>9, <1>10, <1>11, <1>12, <1>13, <1>14,
     <1>15, <1>16, <1>17, <1>18, <1>19, <1>20, <1>21, <1>22, <1>24, <1>23
  DEF Next, Inputs, Accesses, Processor

-----------------------------------------------------------------------------
(* Type correctness: the priorities, the vector and the times stay in      *)
(* range through every write, input, acknowledge and reset.                *)
THEOREM TypeCorrect == Spec => []TypeOK
<1>1. IInv => TypeOK
  BY DEF IInv
<1> QED
  BY <1>1, InitInv, NextInv, PTL DEF Spec

(* An MFP that asserts IRQ has an interrupt to give that is enabled,       *)
(* pending, not masked and not blocked.                                    *)
THEOREM JustifiedCorrect == Spec => []IRQJustified
<1>1. IInv => IRQJustified
  <2> SUFFICES ASSUME IInv, NEW m \in MFPs, mfp[m].IRQ
               PROVE  mfp[m].Current_Interrupt \in Allowed(mfp[m]) \intersect mfp[m].IER
    BY DEF IRQJustified
  <2>1. /\ mfp[m].Current_Interrupt \in Allowed(mfp[m])
        /\ mfp[m].IPR \subseteq mfp[m].IER
    BY DEF IInv, Justified
  <2> QED
    BY <2>1 DEF Allowed, Unmasked
<1> QED
  BY <1>1, InitInv, NextInv, PTL DEF Spec

(* SPCFLAG_MFP is unset only when the processor has seen every IRQ line.   *)
THEOREM LinesCorrect == Spec => []LineNotForgotten
<1>1. IInv => LineNotForgotten
  BY DEF IInv
<1> QED
  BY <1>1, InitInv, NextInv, PTL DEF Spec

(* The pin is never behind a level 6 that is pending, and ahead of one     *)
(* that is gone only when pendingInterrupts is 0.                          *)
THEOREM PinCorrect == Spec => []PinFollows
<1>1. IInv => PinFollows
  BY DEF IInv
<1> QED
  BY <1>1, InitInv, NextInv, PTL DEF Spec

(* On a machine with one MFP, MFP_UpdateNeeded stays set until its inputs  *)
(* have been evaluated.                                                    *)
THEOREM UpdateCorrect ==
  ASSUME ~IsTT
  PROVE  Spec => []UpdateNotForgotten
<1>1. IInv => UpdateNotForgotten
  BY DEF IInv, UpdateSeen
<1> QED
  BY <1>1, InitInv, NextInv, PTL DEF Spec

(* The acknowledge cycle of level 6 is the only step from "iack" on, and   *)
(* as long as level 6 is pending it is for an MFP that asserts IRQ.        *)
THEOREM AcknowledgeCorrect == Spec => AcknowledgesAllowed
<1> DEFINE Acknowledges ==
      pc = "iack" /\ pc' = "opcode" /\ level6 =>
        \E m \in MFPs : \E ch \in Allowed(mfp[m]) :
          /\ mfp'[m].IPR = mfp[m].IPR \ {ch}
          /\ mfp'[m].ISR = IF mfp[m].SEI THEN mfp[m].ISR \union {ch}
                                         ELSE mfp[m].ISR \ {ch}
<1>1. ASSUME IInv, [Next]_vars, pc = "iack", pc' = "opcode"
      PROVE  iack_cycle_Level6
  <2>1. ~UNCHANGED vars
    BY <1>1 DEF vars
  <2>2. ~Inputs
    BY <1>1 DEF Inputs, InterruptHandler_Timer, GPIP_Set_Line_Input, InterruptHandler_Video
  <2>3. ~Accesses
    BY <1>1 DEF Accesses, AccessRegister, UpdateTimers, WriteRegister,
                Enable_WriteByte, Mask_WriteByte, Pending_WriteByte,
                InService_WriteByte, VectorReg_LeaveSEI, VectorReg_EnterSEI, ReadByte
  <2>4. Processor
    BY <1>1, <2>1, <2>2, <2>3 DEF Next
  <2> QED
    BY <1>1, <2>4
    DEF Processor, customreset, ChangeIntmask, EndOfInstruction, CycInt_Process,
        do_specialties_Level6, do_specialties_Video, do_specialties_None, iack_cycle_Video
<1>2. IInv /\ [Next]_vars => [Acknowledges]_vars
  <2> SUFFICES ASSUME IInv, [Next]_vars, pc = "iack", pc' = "opcode", level6
               PROVE  \E m \in MFPs : \E ch \in Allowed(mfp[m]) :
                        /\ mfp'[m].IPR = mfp[m].IPR \ {ch}
                        /\ mfp'[m].ISR = IF mfp[m].SEI THEN mfp[m].ISR \union {ch}
                                                       ELSE mfp[m].ISR \ {ch}
    OBVIOUS
  <2>1. iack_cycle_Level6
    BY <1>1
  <2>2. IACKFrom \in MFPs /\ mfp[IACKFrom].IRQ
    BY IACKFromIs
  <2>3. /\ mfp \in [MFPs -> Registers] /\ clock \in Int
        /\ Justified(mfp[IACKFrom])
    BY <2>2, IInvIs DEF PlacesOK
  <2> DEFINE p == ProcessIACK(mfp[IACKFrom], clock)
  <2>4. \E ch \in Allowed(mfp[IACKFrom]) :
          /\ p.IPR = mfp[IACKFrom].IPR \ {ch}
          /\ p.ISR = IF mfp[IACKFrom].SEI THEN mfp[IACKFrom].ISR \union {ch}
                                          ELSE mfp[IACKFrom].ISR \ {ch}
    BY <2>2, <2>3, IACKGood
  <2>5. mfp'[IACKFrom] = p
    BY <2>1, <2>2, <2>3 DEF iack_cycle_Level6
  <2> HIDE DEF p
  <2> QED
    BY <2>2, <2>4, <2>5
<1> QED
  BY <1>2, InitInv, NextInv, PTL DEF Spec, AcknowledgesAllowed

-----------------------------------------------------------------------------
(* The delay of the line. *)

(* What an MFP knows of times is not later than B: the time of its IRQ and *)
(* those of the inputs that are pending.                                   *)
OnTime(r, B) ==
  /\ r.IRQ => r.IRQ_Time <= B
  /\ \A ch \in r.IPR : r.Pending_Time[ch] <= B

(* The instruction has begun at clock and come as far as currcycle; it is  *)
(* over when the processor looks at the lines.                             *)
TimesOK ==
  /\ \A m \in MFPs : OnTime(mfp[m], clock + currcycle)
  /\ pc \in {"process", "special", "iack", "videoiack"} => currcycle = 0

LEMMA UpdateOnTime ==
  ASSUME NEW r \in Registers, NEW B \in Int, OnTime(r, B), NEW t \in Int, t <= B
  PROVE  OnTime(UpdateIRQ(r, t), B)
<1> DEFINE new == CheckPendingInterrupts(r)
           time == IF t # 0 THEN t ELSE r.Pending_Time[new]
<1>1. CASE new = NoInterrupt
  <2>1. UpdateIRQ(r, t) = [r EXCEPT !.IRQ = FALSE, !.Pending_Time_Min = Never]
    BY <1>1 DEF UpdateIRQ
  <2> QED
    BY <2>1 DEF OnTime, Registers
<1>2. CASE new # NoInterrupt
  <2>1. new \in r.IPR
    BY <1>2, CheckFinds DEF Allowed, Unmasked
  <2>2. time <= B
    BY <2>1 DEF OnTime
  <2>3. UpdateIRQ(r, t) = [r EXCEPT !.IRQ = TRUE, !.Current_Interrupt = new,
                                    !.IRQ_Time = IF r.IRQ THEN @ ELSE time,
                                    !.Pending_Time_Min = Never]
    BY <1>2 DEF UpdateIRQ
  <2> HIDE DEF time, new
  <2> QED
    BY <2>2, <2>3 DEF OnTime, Registers
<1> QED
  BY <1>1, <1>2

LEMMA InputOnTime ==
  ASSUME NEW r \in Registers, NEW B \in Int, OnTime(r, B), NEW ch \in Channels, NEW t \in Int, t <= B
  PROVE  OnTime(InputOnChannel(r, ch, t), B)
BY DEF InputOnChannel, OnTime, Registers

LEMMA IACKOnTime ==
  ASSUME NEW r \in Registers, NEW B \in Int, OnTime(r, B), NEW t \in Int, t <= B
  PROVE  OnTime(ProcessIACK(r, t), B)
<1> DEFINE now == UpdateIRQ(r, t)
<1>1. OnTime(now, B) /\ now.IPR = r.IPR
  BY UpdateIRQGood, UpdateOnTime
<1> HIDE DEF now
<1>2. PICK acked \in Registers, bit \in SUBSET Channels : Takes(r, t, acked, bit)
  BY IACKTakes
<1>3. /\ ProcessIACK(r, t) = UpdateIRQ(acked, t)
      /\ acked.IPR \subseteq r.IPR /\ acked.IRQ = now.IRQ
      /\ acked.IRQ_Time = now.IRQ_Time /\ acked.Pending_Time = now.Pending_Time
  BY <1>2 DEF Takes, now
<1>4. OnTime(acked, B)
  BY <1>1, <1>3 DEF OnTime
<1> QED
  BY <1>3, <1>4, UpdateOnTime

(* As time goes on, nothing becomes late.                                  *)
LEMMA LaterOnTime ==
  ASSUME NEW r \in Registers, NEW B \in Int, OnTime(r, B), NEW C \in Int, B <= C
  PROVE  OnTime(r, C)
BY DEF OnTime, Registers

(* One MFP changes.                                                        *)
LEMMA OneOnTime ==
  ASSUME IInv, TimesOK, NEW m \in MFPs, NEW u, mfp' = [mfp EXCEPT ![m] = u],
         NEW B \in Int, clock + currcycle <= B, OnTime(u, B)
  PROVE  \A n \in MFPs : OnTime(mfp'[n], B)
<1> SUFFICES ASSUME NEW n \in MFPs PROVE OnTime(mfp'[n], B)
  OBVIOUS
<1>1. mfp \in [MFPs -> Registers] /\ clock + currcycle \in Int
  BY DEF IInv, TypeOK
<1>2. CASE n = m
  BY <1>1, <1>2
<1>3. CASE n # m
  BY <1>1, <1>3, LaterOnTime DEF TimesOK
<1> QED
  BY <1>2, <1>3

LEMMA AccessesOnTime == ASSUME IInv, TimesOK, Accesses PROVE TimesOK'
<1> DEFINE B == clock + currcycle
<1>1. /\ mfp \in [MFPs -> Registers] /\ accessed \in MFPs /\ clock \in Nat /\ currcycle \in Nat
      /\ B \in Int /\ CyclesImmediate \in Int /\ CyclesImmediate <= B
      /\ \A m \in MFPs : mfp[m] \in Registers /\ OnTime(mfp[m], B)
  BY DEF IInv, TypeOK, CyclesImmediate, TimesOK
<1>2. ASSUME NEW r \in Registers, OnTime(r, B), WriteRegister(r) PROVE TimesOK'
  <2> DEFINE C == B + WRITE_CYCLES
  <2>1. C \in Int /\ B <= C /\ clock + currcycle + WRITE_CYCLES = C /\ clock' + currcycle' = C
    BY <1>1, <1>2, TimeAssumption DEF WriteRegister
  <2>2. OnTime(r, C)
    BY <1>1, <1>2, <2>1, LaterOnTime
  <2>3. mfp' = [mfp EXCEPT ![accessed] = UpdateIRQ(r, C)] /\ pc' = "opcode"
    BY <1>2, <2>1 DEF WriteRegister
  <2> HIDE DEF C, B
  <2>4. OnTime(UpdateIRQ(r, C), C)
    BY <2>1, <2>2, UpdateOnTime
  <2>5. \A n \in MFPs : OnTime(mfp'[n], C)
    BY <1>1, <2>1, <2>3, <2>4, OneOnTime DEF B
  <2> QED
    BY <2>1, <2>3, <2>5 DEF TimesOK
<1>3. ASSUME NEW m \in MFPs, AccessRegister(m) PROVE TimesOK'
  <2>1. currcycle' \in Nat /\ currcycle' >= currcycle /\ clock' = clock /\ mfp' = mfp
        /\ pc' \in {"timers", "access"}
    BY <1>1, <1>3, TimeAssumption DEF AccessRegister
  <2> HIDE DEF B
  <2>2. \A n \in MFPs : OnTime(mfp[n], clock + currcycle')
    BY <1>1, <2>1, LaterOnTime DEF B
  <2> QED
    BY <2>1, <2>2 DEF TimesOK
<1>4. CASE UpdateTimers
  <2>1. clock' = clock /\ currcycle' = currcycle /\ pc' = "access"
    BY <1>4 DEF UpdateTimers
  <2>2. CASE updateNeeded
    <3>1. mfp' = [mfp EXCEPT ![accessed] = UpdateIRQ(mfp[accessed], CyclesImmediate)]
      BY <1>4, <2>2 DEF UpdateTimers
    <3>2. OnTime(UpdateIRQ(mfp[accessed], CyclesImmediate), B)
      BY <1>1, UpdateOnTime
    <3>3. \A n \in MFPs : OnTime(mfp'[n], B)
      BY <1>1, <3>1, <3>2, OneOnTime
    <3> QED
      BY <2>1, <3>3 DEF TimesOK
  <2>3. CASE ~updateNeeded
    BY <1>4, <2>1, <2>3 DEF UpdateTimers, TimesOK
  <2> QED
    BY <2>2, <2>3
<1>5. ASSUME NEW v \in Enables, Enable_WriteByte(v) PROVE TimesOK'
  <2> DEFINE r == mfp[accessed]
             u == [r EXCEPT !.IER = v, !.IPR = @ \intersect v]
  <2>1. v \subseteq Channels
    BY RegisterAssumption
  <2>2. u \in Registers /\ OnTime(u, B)
    BY <1>1, <2>1 DEF Registers, OnTime
  <2> QED
    BY <1>2, <1>5, <2>2 DEF Enable_WriteByte
<1>6. ASSUME NEW v \in Masks, Mask_WriteByte(v) PROVE TimesOK'
  <2> DEFINE u == [mfp[accessed] EXCEPT !.IMR = v]
  <2>1. v \subseteq Channels
    BY RegisterAssumption
  <2>2. u \in Registers /\ OnTime(u, B)
    BY <1>1, <2>1 DEF Registers, OnTime
  <2> QED
    BY <1>2, <1>6, <2>2 DEF Mask_WriteByte
<1>7. ASSUME NEW v \in Keeps, Pending_WriteByte(v) PROVE TimesOK'
  <2> DEFINE u == [mfp[accessed] EXCEPT !.IPR = @ \intersect v]
  <2>1. u \in Registers /\ OnTime(u, B)
    BY <1>1 DEF Registers, OnTime
  <2> QED
    BY <1>2, <1>7, <2>1 DEF Pending_WriteByte
<1>8. ASSUME NEW v \in Keeps, InService_WriteByte(v) PROVE TimesOK'
  <2> DEFINE u == [mfp[accessed] EXCEPT !.ISR = @ \intersect v]
  <2>1. u \in Registers /\ OnTime(u, B)
    BY <1>1 DEF Registers, OnTime
  <2> QED
    BY <1>2, <1>8, <2>1 DEF InService_WriteByte
<1>9. CASE VectorReg_LeaveSEI
  <2> DEFINE u == [mfp[accessed] EXCEPT !.SEI = FALSE, !.ISR = {}]
  <2>1. u \in Registers /\ OnTime(u, B)
    BY <1>1 DEF Registers, OnTime
  <2> QED
    BY <1>2, <1>9, <2>1 DEF VectorReg_LeaveSEI
<1>10. CASE VectorReg_EnterSEI
  <2> DEFINE u == [mfp[accessed] EXCEPT !.SEI = TRUE]
             C == clock + currcycle + WRITE_CYCLES
  <2>1. OnTime(u, B)
    BY <1>1 DEF Registers, OnTime
  <2>2. u \in Registers
    BY <1>1 DEF Registers
  <2>3. /\ mfp' = [mfp EXCEPT ![accessed] = u] /\ pc' = "opcode"
        /\ clock' + currcycle' = C /\ C \in Int /\ B <= C
    BY <1>1, <1>10, TimeAssumption DEF VectorReg_EnterSEI
  <2> HIDE DEF u, B, C
  <2>4. OnTime(u, C)
    BY <1>1, <2>1, <2>2, <2>3, LaterOnTime
  <2>5. \A n \in MFPs : OnTime(mfp'[n], C)
    BY <1>1, <2>3, <2>4, OneOnTime DEF B
  <2> QED
    BY <2>3, <2>5 DEF TimesOK
<1>11. CASE ReadByte
  BY <1>11 DEF ReadByte, TimesOK
<1> QED
  BY <1>3, <1>4, <1>5, <1>6, <1>7, <1>8, <1>9, <1>10, <1>11 DEF Accesses

LEMMA InputsOnTime == ASSUME IInv, TimesOK, Inputs PROVE TimesOK'
<1> DEFINE B == clock + currcycle
<1>1. /\ clock \in Nat /\ currcycle \in Nat /\ horizon \in Nat
      /\ B \in Int /\ CyclesImmediate \in Int /\ clock <= B
      /\ \A m \in MFPs : mfp[m] \in Registers /\ OnTime(mfp[m], B)
  BY DEF IInv, TypeOK, CyclesImmediate, TimesOK
<1>2. ASSUME NEW m \in MFPs, NEW ch \in Channels, NEW t \in Int, t <= clock,
             mfp' = [mfp EXCEPT ![m] = InputOnChannel(@, ch, t)],
             UNCHANGED <<clock, currcycle, pc>>
      PROVE  TimesOK'
  <2>1. OnTime(InputOnChannel(mfp[m], ch, t), B)
    BY <1>1, <1>2, InputOnTime
  <2>2. \A n \in MFPs : OnTime(mfp'[n], B)
    BY <1>1, <1>2, <2>1, OneOnTime
  <2> QED
    BY <1>2, <2>2 DEF TimesOK
<1>3. ASSUME NEW m \in MFPs, NEW ch \in Channels, InterruptHandler_Timer(m, ch) PROVE TimesOK'
  <2>1. PICK due \in horizon..CyclesImmediate :
          mfp' = [mfp EXCEPT ![m] = InputOnChannel(@, ch, EventTime(due))]
    BY <1>3 DEF InterruptHandler_Timer
  <2>2. EventTime(due) \in Int /\ EventTime(due) <= clock
    BY <1>1 DEF EventTime
  <2> QED
    BY <1>2, <1>3, <2>1, <2>2 DEF InterruptHandler_Timer
<1>4. ASSUME NEW m \in MFPs, NEW ch \in Channels, GPIP_Set_Line_Input(m, ch) PROVE TimesOK'
  <2>1. clock \in Int /\ clock <= clock
    BY <1>1
  <2> QED
    BY <1>2, <1>4, <2>1 DEF GPIP_Set_Line_Input
<1>5. CASE InterruptHandler_Video
  BY <1>5 DEF InterruptHandler_Video, TimesOK
<1> QED
  BY <1>3, <1>4, <1>5 DEF Inputs

(* The rest of the loop: an update takes the times of the inputs, an       *)
(* acknowledge that of the clock.                                          *)
LEMMA ProcessorOnTime == ASSUME IInv, TimesOK, Processor PROVE TimesOK'
<1> DEFINE B == clock + currcycle
<1>1. /\ mfp \in [MFPs -> Registers] /\ clock \in Nat /\ currcycle \in Nat
      /\ B \in Int /\ clock <= B
      /\ \A m \in MFPs : mfp[m] \in Registers /\ OnTime(mfp[m], B) /\ Justified(mfp[m])
  BY DEF IInv, TypeOK, TimesOK
<1>2. CASE customreset
  BY <1>2 DEF customreset, ResetRegisters, TimesOK, OnTime
<1>3. CASE ChangeIntmask
  BY <1>3 DEF ChangeIntmask, TimesOK
<1>4. CASE EndOfInstruction
  <2>1. clock' \in Nat /\ currcycle' = 0 /\ clock' >= B /\ mfp' = mfp
    BY <1>1, <1>4, TimeAssumption DEF EndOfInstruction
  <2> HIDE DEF B
  <2>2. \A n \in MFPs : OnTime(mfp[n], clock' + currcycle')
    BY <1>1, <2>1, LaterOnTime
  <2> QED
    BY <2>1, <2>2 DEF TimesOK
<1>5. ASSUME UpdateIfNeeded, clock' = clock, currcycle' = currcycle, currcycle = 0 PROVE TimesOK'
  <2>1. CASE updateNeeded
    <3>1. mfp' = [m \in MFPs |-> UpdateIRQ(mfp[m], 0)]
      BY <1>5, <2>1 DEF UpdateIfNeeded
    <3>2. 0 \in Int /\ 0 <= B
      BY <1>1
    <3> HIDE DEF B
    <3>3. \A m \in MFPs : OnTime(UpdateIRQ(mfp[m], 0), B)
      BY <1>1, <3>2, UpdateOnTime
    <3>4. \A m \in MFPs : OnTime(mfp'[m], B)
      BY <3>1, <3>3
    <3> QED
      BY <1>5, <3>4 DEF TimesOK, B
  <2>2. CASE ~updateNeeded
    BY <1>5, <2>2 DEF UpdateIfNeeded, TimesOK
  <2> QED
    BY <2>1, <2>2
<1>6. CASE CycInt_Process
  BY <1>5, <1>6 DEF CycInt_Process, TimesOK
<1>7. CASE iack_cycle_Video
  BY <1>5, <1>7 DEF iack_cycle_Video, TimesOK
<1>8. ASSUME PropagateIRQ, NEW C \in Int, B <= C, clock' + currcycle' = C, currcycle' = currcycle,
             currcycle = 0
      PROVE  TimesOK'
  <2>1. ASSUME NEW m \in MFPs PROVE OnTime(DelayIRQ(mfp[m], clock), B)
    BY <1>1, <2>1 DEF DelayIRQ, OnTime, Registers
  <2>2. ASSUME NEW m \in MFPs PROVE mfp'[m] \in Registers /\ OnTime(mfp'[m], B)
    <3>1. DelayIRQ(mfp[m], clock) \in Registers
      BY <1>1, <2>2, DelayGood
    <3>2. mfp'[m] \in {mfp[m], DelayIRQ(mfp[m], clock)}
      BY <1>8, <2>2 DEF PropagateIRQ
    <3> QED
      BY <1>1, <2>1, <2>2, <3>1, <3>2
  <2> HIDE DEF B
  <2>3. \A m \in MFPs : OnTime(mfp'[m], C)
    BY <1>1, <1>8, <2>2, LaterOnTime
  <2> QED
    BY <1>8, <2>3 DEF TimesOK
<1>9. CASE do_specialties_None
  <2>1. currcycle = 0 /\ currcycle' = currcycle /\ clock' + currcycle' = B /\ B <= B
    BY <1>1, <1>9 DEF do_specialties_None, TimesOK
  <2> QED
    BY <1>1, <1>8, <1>9, <2>1 DEF do_specialties_None
<1>10. CASE do_specialties_Level6
  <2>1. /\ currcycle = 0 /\ currcycle' = currcycle
        /\ clock' + currcycle' \in Int /\ B <= clock' + currcycle'
    BY <1>1, <1>10, TimeAssumption DEF do_specialties_Level6, TimesOK
  <2> QED
    BY <1>8, <1>10, <2>1 DEF do_specialties_Level6
<1>11. CASE do_specialties_Video
  <2>1. /\ currcycle = 0 /\ currcycle' = currcycle
        /\ clock' + currcycle' \in Int /\ B <= clock' + currcycle'
    BY <1>1, <1>11, TimeAssumption DEF do_specialties_Video, TimesOK
  <2> QED
    BY <1>8, <1>11, <2>1 DEF do_specialties_Video
<1>12. CASE iack_cycle_Level6
  <2>1. IACKFrom \in MFPs
    BY <1>12, IACKFromIs DEF iack_cycle_Level6
  <2>2. /\ mfp' = [mfp EXCEPT ![IACKFrom] = ProcessIACK(mfp[IACKFrom], clock)]
        /\ clock' = clock /\ currcycle' = currcycle /\ pc' = "opcode"
    BY <1>12 DEF iack_cycle_Level6
  <2>3. OnTime(ProcessIACK(mfp[IACKFrom], clock), B)
    BY <1>1, <2>1, IACKOnTime
  <2>4. \A n \in MFPs : OnTime(mfp'[n], B)
    BY <1>1, <2>1, <2>2, <2>3, OneOnTime
  <2> QED
    BY <2>2, <2>4 DEF TimesOK
<1> QED
  BY <1>2, <1>3, <1>4, <1>6, <1>7, <1>9, <1>10, <1>11, <1>12 DEF Processor

(* When MFP_DelayIRQ looks at an asserted line, the line was not asserted  *)
(* later than now, whatever wrote to the registers or came late before.    *)
THEOREM DelayCorrect == Spec => []DelayNotNegative
<1>1. Init => TimesOK
  BY DEF Init, TimesOK, OnTime
<1>2. IInv /\ TimesOK /\ [Next]_vars => TimesOK'
  <2>1. ASSUME TimesOK, UNCHANGED vars PROVE TimesOK'
    BY <2>1 DEF vars, levels, TimesOK, OnTime
  <2> QED
    BY <2>1, InputsOnTime, AccessesOnTime, ProcessorOnTime DEF Next
<1>3. IInv /\ TimesOK => DelayNotNegative
  <2> SUFFICES ASSUME IInv, TimesOK, pc = "special", NEW m \in MFPs, mfp[m].IRQ
               PROVE  mfp[m].IRQ_Time <= clock
    BY DEF DelayNotNegative
  <2>1. clock + currcycle = clock
    BY DEF IInv, TypeOK, TimesOK
  <2> QED
    BY <2>1 DEF TimesOK, OnTime
<1> QED
  BY <1>1, <1>2, <1>3, InitInv, NextInv, PTL DEF Spec
-----------------------------------------------------------------------------
(* No allowed request is lost.  An update that finds no request left aside *)
(* the inputs after Pending_Time_Min; the input that Pending_Time_Min came *)
(* from is known, and it is blocked.                                       *)

Explained(r) ==
  \A ch \in Allowed(r) : \E b \in Unmasked(r) :
    \/ b \in Repeats
    \/ b \notin Allowed(r) /\ r.Pending_Time[b] < r.Pending_Time[ch]

(* Pending_Time_Min is the time of a request that is still there, unless   *)
(* its channel had another input.                                          *)
MinKnown(r, S) ==
  r.Pending_Time_Min # Never =>
    \E b \in Unmasked(r) :
      b \in Repeats \/ (r.Pending_Time[b] = r.Pending_Time_Min /\ <<Main, b>> \in S)

Past(r, t) == \A ch \in r.IPR : r.Pending_Time[ch] <= t

RequestsOK ==
  /\ clock < Never
  /\ pc \in {"process", "special"} => clock <= MaxClock
  /\ Past(mfp[Main], clock)
  /\ pc \in {"opcode", "access", "special"} => clock <= mfp[Main].Pending_Time_Min
  /\ MinKnown(mfp[Main], served)
  /\ ~updateNeeded /\ ~mfp[Main].IRQ => Explained(mfp[Main])

(* A search that finds nothing has seen every allowed request.             *)
LEMMA SearchFails ==
  ASSUME NEW r \in Registers, CheckPendingInterrupts(r) = NoInterrupt, NEW ch \in Allowed(r)
  PROVE  r.Pending_Time_Min < r.Pending_Time[ch]
<1> DEFINE requests == {c \in Channels : InterruptRequest(r, c)}
<1>1. ch \in Channels
  BY DEF Registers, Allowed, Unmasked
<1>2. requests = {}
  <2> SUFFICES ASSUME requests # {} PROVE FALSE
    OBVIOUS
  <2>1. requests \subseteq Channels
    OBVIOUS
  <2>2. Highest(requests) \in Channels
    BY <2>1, HighestIsIn
  <2>3. CheckPendingInterrupts(r) = Highest(requests)
    BY DEF CheckPendingInterrupts
  <2> QED
    BY <2>2, <2>3, RegisterAssumption DEF NoInterrupt
<1>3. ~InterruptRequest(r, ch)
  BY <1>1, <1>2
<1>4. r.Pending_Time[ch] \in Int /\ r.Pending_Time_Min \in Int
  BY <1>1 DEF Registers
<1> QED
  BY <1>3, <1>4 DEF InterruptRequest, Allowed

(* What an update leaves alone, and when it leaves IRQ off.                *)
LEMMA UpdateKeeps ==
  ASSUME NEW r \in Registers, NEW t \in Int
  PROVE  LET u == UpdateIRQ(r, t) IN
         /\ u.IPR = r.IPR /\ u.IMR = r.IMR /\ u.ISR = r.ISR /\ u.SEI = r.SEI
         /\ u.Pending_Time = r.Pending_Time /\ u.Pending_Time_Min = Never
         /\ ~u.IRQ => CheckPendingInterrupts(r) = NoInterrupt
<1> DEFINE new == CheckPendingInterrupts(r)
           u == UpdateIRQ(r, t)
<1>1. CASE new = NoInterrupt
  <2>1. u = [r EXCEPT !.IRQ = FALSE, !.Pending_Time_Min = Never]
    BY <1>1 DEF UpdateIRQ
  <2> QED
    BY <1>1, <2>1 DEF Registers
<1>2. CASE new # NoInterrupt
  <2> DEFINE at == IF r.IRQ THEN r.IRQ_Time ELSE IF t # 0 THEN t ELSE r.Pending_Time[new]
  <2>1. u = [r EXCEPT !.IRQ = TRUE, !.Current_Interrupt = new, !.IRQ_Time = at,
                      !.Pending_Time_Min = Never]
    BY <1>2 DEF UpdateIRQ
  <2> HIDE DEF at, new, u
  <2>2. u.IRQ = TRUE
    BY <2>1 DEF Registers
  <2>3. /\ u.IPR = r.IPR /\ u.IMR = r.IMR /\ u.ISR = r.ISR
        /\ u.Pending_Time = r.Pending_Time /\ u.Pending_Time_Min = Never
    BY <2>1 DEF Registers
  <2>4. u.SEI = r.SEI
    BY <2>1 DEF Registers
  <2> QED
    BY <2>2, <2>3, <2>4 DEF u
<1> QED
  BY <1>1, <1>2

(* An update explains what it leaves aside, if no pending input is later   *)
(* than Pending_Time_Min, or if the input it came from is known.           *)
LEMMA UpdateExplains ==
  ASSUME NEW r \in Registers, NEW t \in Int, NEW now \in Int, NEW S, now < Never,
         Past(r, now), now <= r.Pending_Time_Min \/ MinKnown(r, S)
  PROVE  LET u == UpdateIRQ(r, t) IN
         Past(u, now) /\ Fresh(u) /\ (~u.IRQ => Explained(u))
<1> DEFINE u == UpdateIRQ(r, t)
<1>1. /\ u.IPR = r.IPR /\ u.IMR = r.IMR /\ u.ISR = r.ISR
      /\ u.Pending_Time = r.Pending_Time /\ u.Pending_Time_Min = Never
      /\ ~u.IRQ => CheckPendingInterrupts(r) = NoInterrupt
  BY UpdateKeeps
<1> HIDE DEF u
<1>2. Past(u, now) /\ Fresh(u)
  BY <1>1 DEF Past, Fresh
<1>3. Allowed(u) = Allowed(r) /\ Unmasked(u) = Unmasked(r)
  BY <1>1 DEF Allowed, Unmasked, NotBlocked
<1>4. ASSUME ~u.IRQ PROVE Explained(u)
  <2> SUFFICES ASSUME NEW ch \in Allowed(r)
               PROVE  \E b \in Unmasked(r) :
                        \/ b \in Repeats
                        \/ b \notin Allowed(r) /\ r.Pending_Time[b] < r.Pending_Time[ch]
    BY <1>1, <1>3 DEF Explained
  <2>1. CheckPendingInterrupts(r) = NoInterrupt
    BY <1>1, <1>4
  <2>2. r.Pending_Time_Min < r.Pending_Time[ch]
    BY <2>1, SearchFails
  <2>3. ch \in r.IPR /\ ch \in Channels
    BY DEF Allowed, Unmasked, Registers
  <2>4. r.Pending_Time[ch] \in Int /\ r.Pending_Time_Min \in Int /\ Never \in Int
    BY <2>3, TimeAssumption DEF Registers
  <2>5. r.Pending_Time[ch] <= now
    BY <2>3 DEF Past
  <2>6. ~(now <= r.Pending_Time_Min) /\ r.Pending_Time_Min # Never
    BY <2>2, <2>4, <2>5
  <2>7. PICK b \in Unmasked(r) :
          b \in Repeats \/ r.Pending_Time[b] = r.Pending_Time_Min
    BY <2>6 DEF MinKnown
  <2>8. CASE b \in Repeats
    BY <2>8
  <2>9. CASE r.Pending_Time[b] = r.Pending_Time_Min
    <3>1. b \notin Allowed(r)
      <4> SUFFICES ASSUME b \in Allowed(r) PROVE FALSE
        OBVIOUS
      <4>1. r.Pending_Time_Min < r.Pending_Time[b]
        BY <2>1, SearchFails
      <4> QED
        BY <2>4, <2>9, <4>1
    <3> QED
      BY <2>2, <2>9, <3>1
  <2> QED
    BY <2>7, <2>8, <2>9
<1> QED
  BY <1>2, <1>4 DEF u

(* So does an acknowledge: its second update looks at every time.          *)
LEMMA IACKExplains ==
  ASSUME NEW r \in Registers, NEW t \in Int, NEW now \in Int, now < Never, Past(r, now)
  PROVE  LET p == ProcessIACK(r, t) IN
         Past(p, now) /\ Fresh(p) /\ (~p.IRQ => Explained(p))
<1> DEFINE first == UpdateIRQ(r, t)
           p == ProcessIACK(r, t)
<1>1. first.Pending_Time = r.Pending_Time
  BY UpdateKeeps
<1> HIDE DEF first
<1>2. PICK acked \in Registers, bit \in SUBSET Channels : Takes(r, t, acked, bit)
  BY IACKTakes
<1>3. /\ p = UpdateIRQ(acked, t)
      /\ acked.IPR \subseteq r.IPR /\ acked.Pending_Time = first.Pending_Time
      /\ acked.Pending_Time_Min = Never
  BY <1>2 DEF Takes, first
<1> HIDE DEF p
<1>4. Past(acked, now) /\ now <= acked.Pending_Time_Min
  BY <1>1, <1>3, TimeAssumption DEF Past
<1>5. Past(p, now) /\ Fresh(p) /\ (~p.IRQ => Explained(p))
  BY <1>3, <1>4, UpdateExplains
<1> QED
  BY <1>5 DEF p

(* An input: either it is the new minimum, or the old one is still known,  *)
(* for its channel may not have a second input.                            *)
LEMMA InputKnown ==
  ASSUME NEW r \in Registers, Justified(r), NEW ch \in Channels, NEW t \in Int, NEW now \in Int,
         t <= now, now < Never, Past(r, now), NEW S, NEW T, T = S \union {<<Main, ch>>},
         <<Main, ch>> \in S => ch \in Repeats, MinKnown(r, S)
  PROVE  LET u == InputOnChannel(r, ch, t) IN
         /\ Past(u, now) /\ MinKnown(u, T)
         /\ t = now /\ now <= r.Pending_Time_Min => now <= u.Pending_Time_Min
<1> DEFINE u == InputOnChannel(r, ch, t)
<1>1. CASE ch \in r.IER
  <2> DEFINE min == IF ch \in r.IMR /\ t < r.Pending_Time_Min
                      THEN t ELSE r.Pending_Time_Min
  <2>1. u = [r EXCEPT !.IPR = @ \union {ch}, !.Pending_Time[ch] = t,
                      !.Pending_Time_Min = min]
    BY <1>1 DEF InputOnChannel
  <2>2. min \in Int /\ r.Pending_Time_Min \in Int
    BY DEF Registers
  <2> HIDE DEF min, u
  <2>3. /\ u.IPR = r.IPR \union {ch} /\ u.IMR = r.IMR /\ u.Pending_Time_Min = min
        /\ u.Pending_Time = [r.Pending_Time EXCEPT ![ch] = t]
    BY <2>1 DEF Registers
  <2>4. /\ u.Pending_Time[ch] = t
        /\ \A c \in Channels \ {ch} : u.Pending_Time[c] = r.Pending_Time[c]
    BY <2>3 DEF Registers
  <2>5. r.IPR \subseteq Channels /\ Unmasked(r) \subseteq Channels
    BY DEF Registers, Unmasked
  <2>6. Past(u, now)
    BY <2>3, <2>4, <2>5 DEF Past
  <2>7. t = now /\ now <= r.Pending_Time_Min => now <= u.Pending_Time_Min
    BY <2>2, <2>3 DEF min
  <2>8. Unmasked(r) \subseteq Unmasked(u) /\ (ch \in r.IMR => ch \in Unmasked(u))
    BY <2>3 DEF Unmasked
  <2>9. CASE ch \in r.IMR /\ t < r.Pending_Time_Min
    <3>1. u.Pending_Time[ch] = u.Pending_Time_Min
      BY <2>3, <2>4, <2>9 DEF min
    <3>2. MinKnown(u, T)
      BY <2>8, <2>9, <3>1 DEF MinKnown
    <3> QED
      BY <2>6, <2>7, <3>2 DEF u
  <2>10. CASE ~(ch \in r.IMR /\ t < r.Pending_Time_Min)
    <3>1. u.Pending_Time_Min = r.Pending_Time_Min
      BY <2>3, <2>10 DEF min
    <3>2. ASSUME r.Pending_Time_Min # Never PROVE MinKnown(u, T)
      <4>1. PICK b \in Unmasked(r) :
              b \in Repeats \/ (r.Pending_Time[b] = r.Pending_Time_Min /\ <<Main, b>> \in S)
        BY <3>2 DEF MinKnown
      <4>2. b \in Repeats \/ (u.Pending_Time[b] = u.Pending_Time_Min /\ <<Main, b>> \in T)
        BY <2>4, <2>5, <3>1, <4>1
      <4> QED
        BY <2>8, <4>2 DEF MinKnown
    <3>3. MinKnown(u, T)
      BY <3>1, <3>2 DEF MinKnown
    <3> QED
      BY <2>6, <2>7, <3>3 DEF u
  <2> QED
    BY <2>9, <2>10
<1>2. CASE ch \notin r.IER
  <2>1. u = [r EXCEPT !.IPR = @ \ {ch}] /\ r.IPR \ {ch} = r.IPR
    BY <1>2 DEF InputOnChannel, Justified
  <2>2. u = r
    BY <2>1 DEF Registers
  <2>3. MinKnown(r, T)
    BY DEF MinKnown
  <2> QED
    BY <2>2, <2>3
<1> QED
  BY <1>1, <1>2

(* What every update establishes.                                          *)
LEMMA Renewed ==
  ASSUME RequestsOK, clock \in Int, Past(mfp'[Main], clock), Fresh(mfp'[Main]),
         ~mfp'[Main].IRQ => Explained(mfp'[Main]), clock' = clock,
         pc' \in {"process", "special"} => pc \in {"process", "special"}
  PROVE  RequestsOK'
<1>1. Never \in Int
  BY TimeAssumption
<1>2. clock < Never /\ (pc' \in {"process", "special"} => clock <= MaxClock)
  BY DEF RequestsOK
<1> QED
  BY <1>1, <1>2 DEF RequestsOK, Fresh, MinKnown

(* A change that leaves the requests, the clock and the updates alone.     *)
LEMMA Untouched ==
  ASSUME RequestsOK, NEW r, NEW u, r = mfp[Main], u = mfp'[Main],
         u.IPR = r.IPR, u.IMR = r.IMR, u.ISR = r.ISR, u.IRQ = r.IRQ,
         u.Pending_Time = r.Pending_Time, u.Pending_Time_Min = r.Pending_Time_Min,
         UNCHANGED <<clock, served, updateNeeded>>,
         pc' \in {"process", "special"} => pc \in {"process", "special"},
         pc' \in {"opcode", "access", "special"} => pc \in {"opcode", "access", "special"}
  PROVE  RequestsOK'
<1>1. Allowed(u) = Allowed(r) /\ Unmasked(u) = Unmasked(r)
  BY DEF Allowed, Unmasked, NotBlocked
<1>2. Explained(u) <=> Explained(r)
  BY <1>1 DEF Explained
<1>3. MinKnown(u, served) <=> MinKnown(r, served)
  BY <1>1 DEF MinKnown
<1> QED
  BY <1>2, <1>3 DEF RequestsOK, Past

LEMMA AccessesKeepRequests == ASSUME IInv, ~IsTT, RequestsOK, Accesses PROVE RequestsOK'
<1> DEFINE r == mfp[Main]
<1>1. /\ accessed = Main /\ Main \in MFPs /\ mfp \in [MFPs -> Registers] /\ r \in Registers
      /\ clock \in Nat /\ currcycle \in Nat /\ CyclesImmediate \in Int
      /\ UpdateNotForgotten
  BY DEF IInv, TypeOK, MFPs, CyclesImmediate, UpdateSeen
<1>2. ASSUME NEW u \in Registers, u.IPR \subseteq r.IPR, u.Pending_Time = r.Pending_Time,
             u.Pending_Time_Min = r.Pending_Time_Min, WriteRegister(u)
      PROVE  RequestsOK'
  <2> DEFINE t == clock + currcycle + WRITE_CYCLES
  <2>1. t \in Int
    BY <1>1, TimeAssumption
  <2>2. mfp'[Main] = UpdateIRQ(u, t) /\ clock' = clock /\ pc = "access" /\ pc' = "opcode"
    BY <1>1, <1>2 DEF WriteRegister
  <2>3. Past(u, clock) /\ clock <= u.Pending_Time_Min /\ clock < Never
    BY <1>2, <2>2 DEF RequestsOK, Past
  <2> HIDE DEF t, r
  <2>4. /\ Past(mfp'[Main], clock) /\ Fresh(mfp'[Main])
        /\ ~mfp'[Main].IRQ => Explained(mfp'[Main])
    BY <1>1, <1>2, <2>1, <2>2, <2>3, UpdateExplains
  <2> QED
    BY <1>1, <2>2, <2>4, Renewed
<1>3. ASSUME NEW m \in MFPs, AccessRegister(m) PROVE RequestsOK'
  BY <1>3, Untouched DEF AccessRegister
<1>4. CASE UpdateTimers
  <2>1. clock' = clock /\ pc' = "access" /\ served' = {}
    BY <1>4 DEF UpdateTimers
  <2>2. CASE updateNeeded
    <3>1. mfp'[Main] = UpdateIRQ(r, CyclesImmediate)
      BY <1>1, <1>4, <2>2 DEF UpdateTimers
    <3>2. Past(r, clock) /\ MinKnown(r, served) /\ clock < Never
      BY DEF RequestsOK
    <3> HIDE DEF r
    <3>3. /\ Past(mfp'[Main], clock) /\ Fresh(mfp'[Main])
          /\ ~mfp'[Main].IRQ => Explained(mfp'[Main])
      BY <1>1, <3>1, <3>2, UpdateExplains
    <3> QED
      BY <1>1, <2>1, <3>3, Renewed
  <2>3. CASE ~updateNeeded
    <3>1. mfp' = mfp
      BY <1>4, <2>3 DEF UpdateTimers
    <3>2. /\ Past(r, clock) /\ Fresh(r) /\ (~r.IRQ => Explained(r))
      BY <1>1, <2>3 DEF RequestsOK, UpdateNotForgotten, Fresh
    <3> QED
      BY <1>1, <2>1, <3>1, <3>2, Renewed
  <2> QED
    BY <2>2, <2>3
<1>5. ASSUME NEW v \in Enables, Enable_WriteByte(v) PROVE RequestsOK'
  <2> DEFINE u == [r EXCEPT !.IER = v, !.IPR = @ \intersect v]
  <2>1. v \subseteq Channels
    BY RegisterAssumption
  <2>2. /\ u \in Registers /\ u.IPR \subseteq r.IPR /\ u.Pending_Time = r.Pending_Time
        /\ u.Pending_Time_Min = r.Pending_Time_Min
    BY <1>1, <2>1 DEF Registers
  <2> QED
    BY <1>1, <1>2, <1>5, <2>2 DEF Enable_WriteByte
<1>6. ASSUME NEW v \in Masks, Mask_WriteByte(v) PROVE RequestsOK'
  <2> DEFINE u == [r EXCEPT !.IMR = v]
  <2>1. v \subseteq Channels
    BY RegisterAssumption
  <2>2. /\ u \in Registers /\ u.IPR \subseteq r.IPR /\ u.Pending_Time = r.Pending_Time
        /\ u.Pending_Time_Min = r.Pending_Time_Min
    BY <1>1, <2>1 DEF Registers
  <2> QED
    BY <1>1, <1>2, <1>6, <2>2 DEF Mask_WriteByte
<1>7. ASSUME NEW v \in Keeps, Pending_WriteByte(v) PROVE RequestsOK'
  <2> DEFINE u == [r EXCEPT !.IPR = @ \intersect v]
  <2>1. /\ u \in Registers /\ u.IPR \subseteq r.IPR /\ u.Pending_Time = r.Pending_Time
        /\ u.Pending_Time_Min = r.Pending_Time_Min
    BY <1>1 DEF Registers
  <2> QED
    BY <1>1, <1>2, <1>7, <2>1 DEF Pending_WriteByte
<1>8. ASSUME NEW v \in Keeps, InService_WriteByte(v) PROVE RequestsOK'
  <2> DEFINE u == [r EXCEPT !.ISR = @ \intersect v]
  <2>1. /\ u \in Registers /\ u.IPR \subseteq r.IPR /\ u.Pending_Time = r.Pending_Time
        /\ u.Pending_Time_Min = r.Pending_Time_Min
    BY <1>1 DEF Registers
  <2> QED
    BY <1>1, <1>2, <1>8, <2>1 DEF InService_WriteByte
<1>9. CASE VectorReg_LeaveSEI
  <2> DEFINE u == [r EXCEPT !.SEI = FALSE, !.ISR = {}]
  <2>1. /\ u \in Registers /\ u.IPR \subseteq r.IPR /\ u.Pending_Time = r.Pending_Time
        /\ u.Pending_Time_Min = r.Pending_Time_Min
    BY <1>1 DEF Registers
  <2> QED
    BY <1>1, <1>2, <1>9, <2>1 DEF VectorReg_LeaveSEI
<1>10. CASE VectorReg_EnterSEI
  <2> DEFINE u == [r EXCEPT !.SEI = TRUE]
  <2>1. /\ mfp'[Main] = u /\ pc = "access" /\ pc' = "opcode"
        /\ UNCHANGED <<clock, served, updateNeeded>>
    BY <1>1, <1>10 DEF VectorReg_EnterSEI
  <2>2. /\ u.IPR = r.IPR /\ u.IMR = r.IMR /\ u.ISR = r.ISR
        /\ u.Pending_Time = r.Pending_Time /\ u.Pending_Time_Min = r.Pending_Time_Min
    BY <1>1 DEF Registers
  <2>3. u.IRQ = r.IRQ
    BY <1>1 DEF Registers
  <2> HIDE DEF u
  <2> QED
    BY <2>1, <2>2, <2>3, Untouched
<1>11. CASE ReadByte
  BY <1>11, Untouched DEF ReadByte
<1> QED
  BY <1>3, <1>4, <1>5, <1>6, <1>7, <1>8, <1>9, <1>10, <1>11 DEF Accesses

LEMMA InputsKeepRequests == ASSUME IInv, ~IsTT, RequestsOK, Inputs PROVE RequestsOK'
<1> DEFINE r == mfp[Main]
<1>1. /\ MFPs = {Main} /\ mfp \in [MFPs -> Registers] /\ r \in Registers /\ Justified(r)
      /\ clock \in Nat /\ CyclesImmediate \in Int /\ horizon \in Nat /\ Never \in Int
  BY TimeAssumption DEF IInv, TypeOK, MFPs, CyclesImmediate
<1>2. ASSUME NEW m \in MFPs, NEW ch \in Channels, NEW t \in Int, t <= clock, Served(m, ch),
             mfp' = [mfp EXCEPT ![m] = InputOnChannel(@, ch, t)], updateNeeded' = TRUE,
             UNCHANGED <<clock, pc>>,
             t = clock \/ pc \notin {"opcode", "access", "special"}
      PROVE  RequestsOK'
  <2> DEFINE u == InputOnChannel(r, ch, t)
  <2>1. mfp'[Main] = u /\ m = Main
    BY <1>1, <1>2
  <2>2. /\ Past(r, clock) /\ MinKnown(r, served) /\ clock < Never
        /\ pc \in {"opcode", "access", "special"} => clock <= r.Pending_Time_Min
        /\ pc \in {"process", "special"} => clock <= MaxClock
    BY DEF RequestsOK
  <2>3. served' = served \union {<<Main, ch>>} /\ (<<Main, ch>> \in served => ch \in Repeats)
    BY <1>2, <2>1 DEF Served
  <2> HIDE DEF r
  <2>4. /\ Past(u, clock) /\ MinKnown(u, served')
        /\ t = clock /\ clock <= r.Pending_Time_Min => clock <= u.Pending_Time_Min
    BY <1>1, <1>2, <2>2, <2>3, InputKnown
  <2> HIDE DEF u
  <2> QED
    BY <1>2, <2>1, <2>2, <2>4 DEF RequestsOK
<1>3. ASSUME NEW m \in MFPs, NEW ch \in Channels, InterruptHandler_Timer(m, ch) PROVE RequestsOK'
  <2>1. PICK due \in horizon..CyclesImmediate :
          mfp' = [mfp EXCEPT ![m] = InputOnChannel(@, ch, EventTime(due))]
    BY <1>3 DEF InterruptHandler_Timer
  <2>2. EventTime(due) \in Int /\ EventTime(due) <= clock
    BY <1>1 DEF EventTime
  <2> QED
    BY <1>2, <1>3, <2>1, <2>2 DEF InterruptHandler_Timer, Handlers
<1>4. ASSUME NEW m \in MFPs, NEW ch \in Channels, GPIP_Set_Line_Input(m, ch) PROVE RequestsOK'
  <2>1. clock \in Int /\ clock <= clock
    BY <1>1
  <2> QED
    BY <1>2, <1>4, <2>1 DEF GPIP_Set_Line_Input
<1>5. CASE InterruptHandler_Video
  BY <1>5, Untouched DEF InterruptHandler_Video
<1> QED
  BY <1>3, <1>4, <1>5 DEF Inputs

LEMMA ProcessorKeepsRequests == ASSUME IInv, ~IsTT, RequestsOK, Processor PROVE RequestsOK'
<1> DEFINE r == mfp[Main]
<1>1. /\ Main \in MFPs /\ MFPs = {Main} /\ mfp \in [MFPs -> Registers] /\ r \in Registers
      /\ Justified(r) /\ clock \in Nat /\ UpdateNotForgotten /\ Never \in Int
  BY TimeAssumption DEF IInv, TypeOK, MFPs, UpdateSeen
<1>2. CASE customreset
  <2>1. mfp'[Main] = ResetRegisters(mfp[Main]) /\ UNCHANGED <<clock, pc>>
    BY <1>1, <1>2 DEF customreset
  <2>2. /\ mfp'[Main].IPR = {} /\ mfp'[Main].Pending_Time_Min = Never
    BY <2>1 DEF ResetRegisters
  <2>3. /\ Past(mfp'[Main], clock) /\ Fresh(mfp'[Main]) /\ Explained(mfp'[Main])
    BY <2>2 DEF Past, Fresh, Explained, Allowed, Unmasked
  <2> QED
    BY <1>1, <2>1, <2>3, Renewed
<1>3. CASE ChangeIntmask
  BY <1>3, Untouched DEF ChangeIntmask
<1>4. CASE EndOfInstruction
  <2>1. clock <= clock' /\ clock' <= MaxClock /\ clock' \in Int /\ pc' = "process"
        /\ UNCHANGED <<mfp, served, updateNeeded>>
    BY <1>1, <1>4, TimeAssumption DEF EndOfInstruction
  <2>2. Past(r, clock')
    <3>1. \A ch \in r.IPR : r.Pending_Time[ch] \in Int /\ r.Pending_Time[ch] <= clock
      BY <1>1 DEF RequestsOK, Past, Registers
    <3> QED
      BY <1>1, <2>1, <3>1 DEF Past
  <2> QED
    BY <1>1, <2>1, <2>2, TimeAssumption DEF RequestsOK
<1>5. ASSUME UpdateIfNeeded, UNCHANGED clock,
             pc' \in {"process", "special"} => pc \in {"process", "special"}
      PROVE  RequestsOK'
  <2>1. CASE updateNeeded
    <3>1. mfp'[Main] = UpdateIRQ(r, 0)
      BY <1>1, <1>5, <2>1 DEF UpdateIfNeeded
    <3>2. Past(r, clock) /\ MinKnown(r, served) /\ clock < Never
      BY DEF RequestsOK
    <3> HIDE DEF r
    <3>3. /\ Past(mfp'[Main], clock) /\ Fresh(mfp'[Main])
          /\ ~mfp'[Main].IRQ => Explained(mfp'[Main])
      BY <1>1, <3>1, <3>2, UpdateExplains
    <3> QED
      BY <1>1, <1>5, <3>3, Renewed
  <2>2. CASE ~updateNeeded
    <3>1. mfp' = mfp
      BY <1>5, <2>2 DEF UpdateIfNeeded
    <3>2. /\ Past(r, clock) /\ Fresh(r) /\ (~r.IRQ => Explained(r))
      BY <1>1, <2>2 DEF RequestsOK, UpdateNotForgotten, Fresh
    <3> QED
      BY <1>1, <1>5, <3>1, <3>2, Renewed
  <2> QED
    BY <2>1, <2>2
<1>6. CASE CycInt_Process
  BY <1>5, <1>6 DEF CycInt_Process
<1>7. CASE iack_cycle_Video
  BY <1>5, <1>7 DEF iack_cycle_Video
<1>8. ASSUME PropagateIRQ
      PROVE  LET u == mfp'[Main] IN
             /\ u.IPR = r.IPR /\ u.IMR = r.IMR /\ u.ISR = r.ISR /\ u.IRQ = r.IRQ
             /\ u.Pending_Time = r.Pending_Time /\ u.Pending_Time_Min = r.Pending_Time_Min
  <2> DEFINE u == mfp'[Main]
  <2>1. u = r \/ u = [r EXCEPT !.IRQ_CPU = r.IRQ]
    BY <1>1, <1>8 DEF PropagateIRQ, DelayIRQ
  <2> HIDE DEF u
  <2>2. /\ u.IPR = r.IPR /\ u.IMR = r.IMR /\ u.ISR = r.ISR
        /\ u.Pending_Time = r.Pending_Time /\ u.Pending_Time_Min = r.Pending_Time_Min
    BY <1>1, <2>1 DEF Registers
  <2>3. u.IRQ = r.IRQ
    BY <1>1, <2>1 DEF Registers
  <2> QED
    BY <2>2, <2>3 DEF u
<1>9. CASE do_specialties_None
  BY <1>8, <1>9, Untouched DEF do_specialties_None
<1>10. ASSUME PropagateIRQ, pc = "special", pc' \in {"iack", "videoiack"},
              UNCHANGED <<served, updateNeeded>>, NEW e \in EClock \union {0},
              clock' = clock + IACK_START + e
       PROVE  RequestsOK'
  <2> DEFINE u == mfp'[Main]
  <2>1. /\ u.IPR = r.IPR /\ u.IMR = r.IMR /\ u.ISR = r.ISR /\ u.IRQ = r.IRQ
        /\ u.Pending_Time = r.Pending_Time /\ u.Pending_Time_Min = r.Pending_Time_Min
    BY <1>8, <1>10
  <2>2. clock <= clock' /\ clock' < Never /\ clock' \in Int
    <3>1. clock <= MaxClock /\ e \in Nat /\ IACK_START \in Nat /\ MaxClock \in Nat
          /\ MaxClock + IACK_START + e < Never
      BY <1>10, TimeAssumption, BoundAssumption DEF RequestsOK
    <3> QED
      BY <1>1, <1>10, <3>1
  <2>3. Past(u, clock')
    <3>1. \A ch \in r.IPR : r.Pending_Time[ch] \in Int /\ r.Pending_Time[ch] <= clock
      BY <1>1 DEF RequestsOK, Past, Registers
    <3> QED
      BY <1>1, <2>1, <2>2, <3>1 DEF Past
  <2> HIDE DEF u
  <2>4. Allowed(u) = Allowed(r) /\ Unmasked(u) = Unmasked(r)
    BY <2>1 DEF Allowed, Unmasked, NotBlocked
  <2>5. MinKnown(u, served)
    BY <2>1, <2>4 DEF RequestsOK, MinKnown
  <2>6. ~updateNeeded /\ ~u.IRQ => Explained(u)
    BY <2>1, <2>4 DEF RequestsOK, Explained
  <2> QED
    BY <1>10, <2>2, <2>3, <2>5, <2>6 DEF RequestsOK, u
<1>11. CASE do_specialties_Level6
  <2>1. clock' = clock + IACK_START + 0
    BY <1>1, <1>11, TimeAssumption DEF do_specialties_Level6
  <2> QED
    BY <1>10, <1>11, <2>1 DEF do_specialties_Level6
<1>12. CASE do_specialties_Video
  BY <1>10, <1>12 DEF do_specialties_Video
<1>13. CASE iack_cycle_Level6
  <2>1. IACKFrom \in MFPs
    BY <1>13, IACKFromIs DEF iack_cycle_Level6
  <2>2. IACKFrom = Main
    BY <1>1, <2>1
  <2>3. /\ mfp'[Main] = ProcessIACK(r, clock)
        /\ clock' = clock /\ pc' = "opcode"
    BY <1>1, <1>13, <2>1, <2>2 DEF iack_cycle_Level6
  <2>4. Past(r, clock) /\ clock < Never
    BY DEF RequestsOK
  <2> HIDE DEF r
  <2>5. /\ Past(mfp'[Main], clock) /\ Fresh(mfp'[Main])
        /\ ~mfp'[Main].IRQ => Explained(mfp'[Main])
    BY <1>1, <2>3, <2>4, IACKExplains
  <2> QED
    BY <1>1, <2>3, <2>5, Renewed
<1> QED
  BY <1>2, <1>3, <1>4, <1>6, <1>7, <1>9, <1>11, <1>12, <1>13 DEF Processor

(* In a machine with one MFP a request that is allowed raises IRQ, unless  *)
(* MFP_UpdateIRQ left it aside for an earlier input that is blocked or for *)
(* a channel that had several inputs at once.                              *)
THEOREM RequestsCorrect == ASSUME ~IsTT PROVE Spec => []NoLostRequest
<1>1. Init => RequestsOK
  <2> SUFFICES ASSUME Init PROVE RequestsOK
    OBVIOUS
  <2>1. /\ mfp[Main].IPR = {} /\ mfp[Main].Pending_Time_Min = Never
        /\ clock = MaxInstr /\ pc = "opcode"
    BY DEF Init, MFPs
  <2>2. MaxInstr < Never /\ MaxInstr <= Never
    BY TimeAssumption, BoundAssumption
  <2> QED
    BY <2>1, <2>2 DEF RequestsOK, Past, MinKnown, Explained, Allowed, Unmasked
<1>2. IInv /\ RequestsOK /\ [Next]_vars => RequestsOK'
  <2>1. ASSUME RequestsOK, UNCHANGED vars PROVE RequestsOK'
    BY <2>1, Untouched DEF vars
  <2> QED
    BY <2>1, InputsKeepRequests, AccessesKeepRequests, ProcessorKeepsRequests DEF Next
<1>3. RequestsOK => NoLostRequest
  BY DEF RequestsOK, NoLostRequest, Explained, MFPs
<1> QED
  BY <1>1, <1>2, <1>3, InitInv, NextInv, PTL DEF Spec
=============================================================================
