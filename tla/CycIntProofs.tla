---------------------------- MODULE CycIntProofs ----------------------------
(***************************************************************************)
(* Proofs about CycInt.  The list operations are shown to keep a list well *)
(* linked and reachable from its head, for lists of any length; the        *)
(* invariants of the scheduler and the refinement of EventQueue follow.    *)
(***************************************************************************)
EXTENDS CycIntHorizon, FiniteSets, FiniteSetTheorems, TLAPS

Good(l) == l \in Lists /\ WellLinked(l) /\ HeadReachesAll(l)

(* The fields of a well-formed list, one by one. *)
LEMMA GoodFields ==
  ASSUME NEW l, Good(l)
  PROVE  /\ l.Active \in [Ids -> BOOLEAN]
         /\ l.Cycles \in [Ids -> Nat]
         /\ l.Prev \in [Ids -> Ids \union {Nil}]
         /\ l.Next \in [Ids -> Ids \union {Nil}]
         /\ l.ActiveInt \in Linked(l)
         /\ l.ActiveInt_Cycles = l.Cycles[l.ActiveInt]
         /\ Linked(l) \subseteq Ids
         /\ INTERRUPT_NULL \in Linked(l)
         /\ \A i \in Linked(l) \ {INTERRUPT_NULL} :
              l.Next[i] \in Linked(l) /\ l.Cycles[i] <= l.Cycles[l.Next[i]]
BY IdsAssumption DEF Good, Lists, WellLinked, Linked

(* An induction along the list: what holds of the head and passes to the   *)
(* successor holds of every active interrupt.                              *)
LEMMA ListInduction ==
  ASSUME NEW l, Good(l), NEW S,
         l.ActiveInt \in S,
         \A i \in (S \intersect Linked(l)) \ {INTERRUPT_NULL} : l.Next[i] \in S
  PROVE  Linked(l) \subseteq S
<1> DEFINE T == S \intersect Linked(l)
<1>1. T \in SUBSET Linked(l) /\ l.ActiveInt \in T
  BY GoodFields
<1>2. \A i \in T \ {INTERRUPT_NULL} : l.Next[i] \in T
  BY GoodFields
<1>3. T = Linked(l)
  BY <1>1, <1>2 DEF Good, HeadReachesAll
<1> QED
  BY <1>3

-----------------------------------------------------------------------------
(* The empty list of CycInt_Reset is well formed. *)
LEMMA EmptyListGood == Good(EmptyList)
<1>1. EmptyList \in Lists
  BY IdsAssumption, TimeAssumption DEF EmptyList, Lists
<1>2. Linked(EmptyList) = {INTERRUPT_NULL}
  BY IdsAssumption DEF Linked, EmptyList
<1>3. WellLinked(EmptyList)
  BY <1>2, IdsAssumption DEF WellLinked, EmptyList
<1>4. HeadReachesAll(EmptyList)
  BY <1>2 DEF HeadReachesAll, EmptyList
<1> QED
  BY <1>1, <1>3, <1>4 DEF Good

(* The head of a well-formed list has the smallest due time: the set of    *)
(* interrupts that are not due before it holds the head and, the list      *)
(* being sorted, the successor of each of its members.                     *)
LEMMA HeadIsEarliest ==
  ASSUME NEW l, Good(l)
  PROVE  \A i \in Linked(l) : l.ActiveInt_Cycles <= l.Cycles[i]
<1> DEFINE S == {i \in Linked(l) : l.ActiveInt_Cycles <= l.Cycles[i]}
<1>1. l.ActiveInt \in S
  BY GoodFields
<1>2. ASSUME NEW i \in S, i # INTERRUPT_NULL
      PROVE  l.Next[i] \in S
  <2>1. /\ l.Next[i] \in Linked(l)
        /\ l.Cycles[i] <= l.Cycles[l.Next[i]]
        /\ l.ActiveInt_Cycles <= l.Cycles[i]
    BY <1>2, GoodFields
  <2>2. l.Cycles[i] \in Nat /\ l.Cycles[l.Next[i]] \in Nat /\ l.ActiveInt_Cycles \in Nat
    BY <1>2, <2>1, GoodFields
  <2> QED
    BY <2>1, <2>2
<1>3. Linked(l) \subseteq S
  BY <1>1, <1>2, ListInduction
<1> QED
  BY <1>3

(* Due times are below UINT64_MAX, so only INTERRUPT_NULL is never due. *)
LEMMA OnlyNullIsNeverDue ==
  ASSUME NEW l, Good(l), NEW i \in Linked(l)
  PROVE  l.Cycles[i] <= NullCycles /\ (l.Cycles[i] < NullCycles <=> i # INTERRUPT_NULL)
BY TimeAssumption DEF Good, Lists, WellLinked, Linked

-----------------------------------------------------------------------------
(* Acknowledging unlinks the head and nothing else. *)
LEMMA RemoveHeadGood ==
  ASSUME NEW l, Good(l), l.ActiveInt # INTERRUPT_NULL
  PROVE  /\ Good(RemoveHead(l))
         /\ Linked(RemoveHead(l)) = Linked(l) \ {l.ActiveInt}
         /\ RemoveHead(l).Cycles = l.Cycles
<1> DEFINE m == RemoveHead(l)
           a == l.ActiveInt
           new == l.Next[a]
<1>1. /\ l \in Lists /\ a \in Linked(l) /\ a \in Ids
      /\ new \in Linked(l) /\ new \in Ids /\ new # a
  BY DEF Good, Lists, WellLinked, Linked
<1>2. /\ m.Active = [l.Active EXCEPT ![a] = FALSE]
      /\ m.Cycles = l.Cycles
      /\ m.Next = l.Next
      /\ m.Prev = [l.Prev EXCEPT ![new] = Nil]
      /\ m.ActiveInt = new
      /\ m.ActiveInt_Cycles = l.Cycles[new]
  BY <1>1 DEF RemoveHead, Lists
<1>3. m \in Lists
  BY <1>1 DEF RemoveHead, Lists
<1>4. Linked(m) = Linked(l) \ {a}
  BY <1>1, <1>2 DEF Linked, Lists
<1>5. WellLinked(m)
  BY <1>1, <1>2, <1>4, IdsAssumption DEF Good, WellLinked, Lists, Linked
<1>6. HeadReachesAll(m)
  <2> SUFFICES ASSUME NEW S \in SUBSET Linked(m), new \in S,
                      \A i \in S \ {INTERRUPT_NULL} : l.Next[i] \in S
               PROVE  S = Linked(m)
    BY <1>2 DEF HeadReachesAll
  <2> DEFINE T == S \union {a}
  <2>1. l.ActiveInt \in T
    OBVIOUS
  <2>2. \A i \in (T \intersect Linked(l)) \ {INTERRUPT_NULL} : l.Next[i] \in T
    OBVIOUS
  <2> HIDE DEF T
  <2>3. Linked(l) \subseteq T
    BY <2>1, <2>2, ListInduction
  <2> QED
    BY <2>3, <1>4 DEF T
<1> HIDE DEF m
<1> QED
  BY <1>2, <1>3, <1>4, <1>5, <1>6 DEF Good, m

(* Removing any other active interrupt relinks its two neighbours. *)
LEMMA RemoveMiddleGood ==
  ASSUME NEW l, Good(l), NEW h \in Real, l.Active[h], h # l.ActiveInt
  PROVE  /\ Good(RemovePending(l, h))
         /\ Linked(RemovePending(l, h)) = Linked(l) \ {h}
         /\ RemovePending(l, h).Cycles = l.Cycles
         /\ RemovePending(l, h).ActiveInt = l.ActiveInt
<1> DEFINE m == RemovePending(l, h)
           p == l.Prev[h]
           n == l.Next[h]
<1>1. /\ l \in Lists /\ h \in Linked(l) /\ h \in Ids /\ h # INTERRUPT_NULL
      /\ p \in Linked(l) /\ p \in Ids /\ l.Next[p] = h /\ p # INTERRUPT_NULL
      /\ n \in Linked(l) /\ n \in Ids /\ l.Prev[n] = h /\ n # l.ActiveInt
  BY DEF Good, Lists, WellLinked, Linked, Real
<1>2. /\ m.Active = [l.Active EXCEPT ![h] = FALSE]
      /\ m.Cycles = l.Cycles
      /\ m.Next = [l.Next EXCEPT ![p] = n]
      /\ m.Prev = [l.Prev EXCEPT ![n] = p]
      /\ m.ActiveInt = l.ActiveInt
      /\ m.ActiveInt_Cycles = l.ActiveInt_Cycles
  BY <1>1 DEF RemovePending, Lists
<1>3. m \in Lists
  BY <1>1 DEF RemovePending, Lists
<1>4. Linked(m) = Linked(l) \ {h}
  BY <1>1, <1>2 DEF Linked, Lists
<1>5. p # h /\ n # h /\ p # n
  <2>1. l.ActiveInt # p \/ n # p
    BY <1>1
  <2>2. ASSUME p = h \/ n = h \/ p = n
        PROVE  FALSE
    <3> DEFINE T == Linked(l) \ {p, h}
    <3>1. n = h => p = h
      BY <1>1
    <3>2. p # l.ActiveInt
      BY <2>2, <1>1, <3>1
    <3>3. l.ActiveInt \in T
      BY <3>2, GoodFields
    <3>4. ASSUME NEW i \in (T \intersect Linked(l)) \ {INTERRUPT_NULL}
          PROVE  l.Next[i] \in T
      <4>1. l.Next[i] \in Linked(l) /\ l.Prev[l.Next[i]] = i /\ i # p /\ i # h
        BY DEF Good, WellLinked
      <4>2. l.Next[i] # h
        BY <4>1
      <4>3. p = h \/ l.Prev[p] = h
        BY <2>2, <1>1, <3>1
      <4> QED
        BY <4>1, <4>2, <4>3
    <3> HIDE DEF T
    <3>5. Linked(l) \subseteq T
      BY <3>3, <3>4, ListInduction
    <3> QED
      BY <3>5, <1>1 DEF T
  <2> QED
    BY <2>2
<1>6. WellLinked(m)
  <2>1. /\ m.Active[m.ActiveInt] /\ m.Prev[m.ActiveInt] = Nil
        /\ m.ActiveInt_Cycles = m.Cycles[m.ActiveInt]
        /\ m.Active[INTERRUPT_NULL] /\ m.Cycles[INTERRUPT_NULL] = NullCycles
    BY <1>1, <1>2, <1>4 DEF Good, WellLinked, Lists, Linked
  <2>2. ASSUME NEW i \in Linked(m) \ {INTERRUPT_NULL}
        PROVE  /\ m.Cycles[i] < NullCycles
               /\ m.Next[i] \in Linked(m)
               /\ m.Next[i] # m.ActiveInt
               /\ m.Prev[m.Next[i]] = i
               /\ m.Cycles[i] <= m.Cycles[m.Next[i]]
    <3>1. i \in Linked(l) \ {INTERRUPT_NULL} /\ i # h
      BY <1>4
    <3>2. /\ l.Cycles[i] < NullCycles /\ l.Next[i] \in Linked(l)
          /\ l.Next[i] # l.ActiveInt /\ l.Prev[l.Next[i]] = i
          /\ l.Cycles[i] <= l.Cycles[l.Next[i]]
      BY <3>1 DEF Good, WellLinked
    <3>3. CASE i = p
      <4>1. m.Next[i] = n /\ m.Prev[n] = p
        BY <1>1, <1>2, <3>3 DEF Lists
      <4>2. l.Cycles[p] <= l.Cycles[h] /\ l.Cycles[h] <= l.Cycles[n]
        BY <1>1 DEF Good, WellLinked
      <4>3. l.Cycles[p] \in Nat /\ l.Cycles[h] \in Nat /\ l.Cycles[n] \in Nat
        BY <1>1 DEF Lists
      <4> QED
        BY <4>1, <4>2, <4>3, <1>1, <1>2, <1>4, <1>5, <3>2, <3>3
    <3>4. CASE i # p
      <4>1. m.Next[i] = l.Next[i]
        BY <1>1, <1>2, <3>4, <3>1 DEF Lists, Linked
      <4>2. l.Next[i] # h /\ l.Next[i] # n
        BY <1>1, <3>1, <3>2, <3>4
      <4>3. m.Prev[l.Next[i]] = i
        BY <1>1, <1>2, <3>2, <4>2 DEF Lists, Linked
      <4> QED
        BY <4>1, <4>2, <4>3, <1>2, <1>4, <3>2
    <3> QED
      BY <3>3, <3>4
  <2>3. ASSUME NEW i \in Linked(m) \ {m.ActiveInt}
        PROVE  m.Prev[i] \in Linked(m) \ {INTERRUPT_NULL} /\ m.Next[m.Prev[i]] = i
    <3>1. i \in Linked(l) \ {l.ActiveInt} /\ i # h
      BY <1>2, <1>4
    <3>2. l.Prev[i] \in Linked(l) \ {INTERRUPT_NULL} /\ l.Next[l.Prev[i]] = i
      BY <3>1 DEF Good, WellLinked
    <3>3. CASE i = n
      BY <3>3, <1>1, <1>2, <1>4, <1>5 DEF Lists
    <3>4. CASE i # n
      <4>1. m.Prev[i] = l.Prev[i]
        BY <1>1, <1>2, <3>4, <3>1 DEF Lists, Linked
      <4>2. l.Prev[i] # h /\ l.Prev[i] # p
        BY <1>1, <3>1, <3>2, <3>4
      <4>3. m.Next[l.Prev[i]] = i
        BY <1>1, <1>2, <3>2, <4>2 DEF Lists, Linked
      <4> QED
        BY <4>1, <4>2, <4>3, <1>4, <3>2
    <3> QED
      BY <3>3, <3>4
  <2> HIDE DEF m
  <2> QED
    BY <2>1, <2>2, <2>3 DEF WellLinked
<1>7. HeadReachesAll(m)
  <2> SUFFICES ASSUME NEW S \in SUBSET Linked(m), l.ActiveInt \in S,
                      \A i \in S \ {INTERRUPT_NULL} : m.Next[i] \in S
               PROVE  S = Linked(m)
    BY <1>2 DEF HeadReachesAll
  <2> DEFINE T == S \union {i \in {h} : p \in S}
  <2>1. l.ActiveInt \in T
    OBVIOUS
  <2>2. ASSUME NEW i \in (T \intersect Linked(l)) \ {INTERRUPT_NULL}
        PROVE  l.Next[i] \in T
    <3>1. h \notin S
      BY <1>4
    <3>2. CASE i = h
      BY <3>1, <3>2, <1>1, <1>2 DEF Lists
    <3>3. CASE i = p
      BY <3>1, <3>3, <1>1, <1>5
    <3>4. CASE i # h /\ i # p
      <4>1. m.Next[i] = l.Next[i]
        BY <1>1, <1>2, <3>4 DEF Lists, Linked
      <4> QED
        BY <4>1, <3>4
    <3> QED
      BY <3>2, <3>3, <3>4
  <2> HIDE DEF T
  <2>3. Linked(l) \subseteq T
    BY <2>1, <2>2, ListInduction
  <2> QED
    BY <2>3, <1>4 DEF T
<1> HIDE DEF m
<1> QED
  BY <1>2, <1>3, <1>4, <1>6, <1>7 DEF Good, m

(* CycInt_RemovePendingInterrupt, whether or not it is pending. *)
LEMMA RemovePendingGood ==
  ASSUME NEW l, Good(l), NEW h \in Real
  PROVE  /\ Good(RemovePending(l, h))
         /\ Linked(RemovePending(l, h)) = Linked(l) \ {h}
         /\ RemovePending(l, h).Cycles = l.Cycles
<1>1. CASE ~l.Active[h]
  BY <1>1 DEF RemovePending, Linked
<1>2. CASE l.Active[h] /\ h = l.ActiveInt
  BY <1>2, RemoveHeadGood DEF RemovePending, Real
<1>3. CASE l.Active[h] /\ h # l.ActiveInt
  BY <1>3, RemoveMiddleGood
<1> QED
  BY <1>1, <1>2, <1>3

-----------------------------------------------------------------------------
(* The scan of CycInt_InsertInt finds a place before INTERRUPT_NULL: if no *)
(* interrupt stopped it, all would be due before c, the last one too.      *)
LEMMA ScanStops ==
  ASSUME NEW l, Good(l), NEW c \in Nat, c < NullCycles
  PROVE  \E n \in Linked(l) : StopsAt(l, c, n)
<1> SUFFICES ASSUME \A n \in Linked(l) : ~StopsAt(l, c, n)
             PROVE  FALSE
  OBVIOUS
<1> DEFINE S == {i \in Linked(l) : l.Cycles[i] < c}
<1>1. l.ActiveInt \in S
  BY GoodFields DEF StopsAt, Linked
<1>2. ASSUME NEW i \in (S \intersect Linked(l)) \ {INTERRUPT_NULL}
      PROVE  l.Next[i] \in S
  <2>1. l.Next[i] \in Linked(l) /\ l.Prev[l.Next[i]] = i /\ l.Cycles[i] < c
    BY DEF Good, WellLinked
  <2>2. ~(c <= l.Cycles[l.Next[i]])
    BY <2>1 DEF StopsAt, Linked
  <2>3. l.Cycles[l.Next[i]] \in Nat
    BY <2>1, GoodFields
  <2> QED
    BY <2>1, <2>2, <2>3
<1>3. INTERRUPT_NULL \in S
  BY <1>1, <1>2, ListInduction, GoodFields
<1> QED
  BY <1>3, TimeAssumption DEF Good, WellLinked

(* Inserting before the place the scan found keeps the list sorted. *)
LEMMA InsertGood ==
  ASSUME NEW l, Good(l), NEW h \in Real, ~l.Active[h],
         NEW c \in Nat, c < NullCycles,
         NEW n \in Linked(l), StopsAt(l, c, n)
  PROVE  /\ Good(InsertBefore(l, h, c, n))
         /\ Linked(InsertBefore(l, h, c, n)) = Linked(l) \union {h}
         /\ InsertBefore(l, h, c, n).Cycles = [l.Cycles EXCEPT ![h] = c]
<1> DEFINE m == InsertBefore(l, h, c, n)
           p == l.Prev[n]
<1>1. /\ l \in Lists /\ h \in Ids /\ h \notin Linked(l) /\ h # INTERRUPT_NULL
      /\ n \in Ids /\ n \in Linked(l) /\ n # h
      /\ n # l.ActiveInt => p \in Linked(l) /\ p \in Ids /\ l.Next[p] = n /\ p # h
                            /\ p # INTERRUPT_NULL
  BY DEF Good, Lists, WellLinked, Linked, Real
<1>2. /\ m.Active = [l.Active EXCEPT ![h] = TRUE]
      /\ m.Cycles = [l.Cycles EXCEPT ![h] = c]
  BY <1>1 DEF InsertBefore, Lists
<1>3. ASSUME n = l.ActiveInt
      PROVE  /\ m.ActiveInt = h /\ m.ActiveInt_Cycles = c
             /\ m.Next = [l.Next EXCEPT ![h] = n]
             /\ m.Prev = [[l.Prev EXCEPT ![n] = h] EXCEPT ![h] = Nil]
  BY <1>1, <1>3 DEF InsertBefore, Lists
<1>4. ASSUME n # l.ActiveInt
      PROVE  /\ m.ActiveInt = l.ActiveInt /\ m.ActiveInt_Cycles = l.ActiveInt_Cycles
             /\ m.Next = [[l.Next EXCEPT ![h] = n] EXCEPT ![p] = h]
             /\ m.Prev = [[l.Prev EXCEPT ![n] = h] EXCEPT ![h] = p]
  BY <1>1, <1>4 DEF InsertBefore, Lists
<1>5. m \in Lists
  BY <1>1 DEF InsertBefore, Lists
<1>6. Linked(m) = Linked(l) \union {h}
  BY <1>1, <1>2 DEF Linked, Lists
<1>7. WellLinked(m)
  <2>1. /\ m.Active[m.ActiveInt] /\ m.Prev[m.ActiveInt] = Nil
        /\ m.ActiveInt_Cycles = m.Cycles[m.ActiveInt]
        /\ m.Active[INTERRUPT_NULL] /\ m.Cycles[INTERRUPT_NULL] = NullCycles
    <3>1. m.Active[INTERRUPT_NULL] /\ m.Cycles[INTERRUPT_NULL] = NullCycles
      BY <1>1, <1>2, IdsAssumption DEF Good, WellLinked, Lists
    <3>2. CASE n = l.ActiveInt
      BY <3>1, <3>2, <1>1, <1>2, <1>3 DEF Lists
    <3>3. CASE n # l.ActiveInt
      <4>1. l.ActiveInt \in Linked(l) /\ l.ActiveInt # h /\ l.ActiveInt # n
        BY <3>3, <1>1, GoodFields
      <4>2. m.Prev[l.ActiveInt] = Nil
        BY <4>1, <3>3, <1>1, <1>4 DEF Good, WellLinked, Lists
      <4> QED
        BY <4>1, <4>2, <3>1, <3>3, <1>1, <1>2, <1>4 DEF Good, WellLinked, Lists, Linked
    <3> QED
      BY <3>2, <3>3
  <2>2. ASSUME NEW i \in Linked(m) \ {INTERRUPT_NULL}
        PROVE  /\ m.Cycles[i] < NullCycles
               /\ m.Next[i] \in Linked(m)
               /\ m.Next[i] # m.ActiveInt
               /\ m.Prev[m.Next[i]] = i
               /\ m.Cycles[i] <= m.Cycles[m.Next[i]]
    <3>1. CASE i = h
      <4>1. m.Cycles[h] = c /\ m.Cycles[n] = l.Cycles[n]
        BY <1>1, <1>2 DEF Lists
      <4>2. m.Next[h] = n /\ m.Prev[n] = h /\ n # m.ActiveInt
        BY <1>1, <1>3, <1>4 DEF Lists
      <4> QED
        BY <3>1, <4>1, <4>2, <1>6, <1>1 DEF StopsAt
    <3>2. CASE i # h
      <4>1. i \in Linked(l) \ {INTERRUPT_NULL} /\ i \in Ids
        BY <3>2, <1>6, GoodFields
      <4>2. /\ l.Cycles[i] < NullCycles /\ l.Next[i] \in Linked(l)
            /\ l.Next[i] # l.ActiveInt /\ l.Prev[l.Next[i]] = i
            /\ l.Cycles[i] <= l.Cycles[l.Next[i]]
        BY <4>1 DEF Good, WellLinked
      <4>3. m.Cycles[i] = l.Cycles[i] /\ m.Cycles[l.Next[i]] = l.Cycles[l.Next[i]]
        BY <4>1, <4>2, <1>1, <1>2, <3>2 DEF Lists
      <4>4. CASE n # l.ActiveInt /\ i = p
        <5>1. m.Next[i] = h /\ m.Prev[h] = p /\ m.ActiveInt # h /\ m.Cycles[h] = c
          BY <4>4, <1>1, <1>2, <1>4, GoodFields DEF Lists
        <5>2. l.Cycles[p] < c /\ l.Cycles[p] \in Nat
          BY <4>4, <1>1 DEF StopsAt, Lists
        <5> QED
          BY <5>1, <5>2, <4>2, <4>3, <4>4, <1>6
      <4>5. CASE n = l.ActiveInt \/ i # p
        <5>1. m.Next[i] = l.Next[i] /\ l.Next[i] # n /\ l.Next[i] # h
          BY <4>5, <4>1, <4>2, <3>2, <1>1, <1>3, <1>4 DEF Lists
        <5>2. m.Prev[l.Next[i]] = l.Prev[l.Next[i]]
          BY <5>1, <4>2, <1>1, <1>3, <1>4 DEF Lists, Linked
        <5>3. m.ActiveInt \in {h, l.ActiveInt}
          BY <1>3, <1>4
        <5> QED
          BY <5>1, <5>2, <5>3, <4>2, <4>3, <1>6
      <4> QED
        BY <4>4, <4>5
    <3> QED
      BY <3>1, <3>2
  <2>3. ASSUME NEW i \in Linked(m) \ {m.ActiveInt}
        PROVE  m.Prev[i] \in Linked(m) \ {INTERRUPT_NULL} /\ m.Next[m.Prev[i]] = i
    <3>1. CASE i = h
      BY <3>1, <1>1, <1>3, <1>4, <1>6 DEF Lists
    <3>2. CASE i = n
      BY <3>2, <1>1, <1>3, <1>4, <1>6 DEF Lists
    <3>3. CASE i # h /\ i # n
      <4>1. i \in Linked(l) \ {l.ActiveInt}
        BY <3>3, <1>3, <1>4, <1>6
      <4>2. l.Prev[i] \in Linked(l) \ {INTERRUPT_NULL} /\ l.Next[l.Prev[i]] = i
        BY <4>1 DEF Good, WellLinked
      <4>3. m.Prev[i] = l.Prev[i]
        BY <3>3, <4>1, <1>1, <1>3, <1>4 DEF Lists, Linked
      <4>4. l.Prev[i] # h /\ (n # l.ActiveInt => l.Prev[i] # p)
        BY <3>3, <4>2, <1>1
      <4>5. m.Next[l.Prev[i]] = i
        BY <4>2, <4>4, <1>1, <1>3, <1>4 DEF Lists, Linked
      <4> QED
        BY <4>2, <4>3, <4>5, <1>6
    <3> QED
      BY <3>1, <3>2, <3>3
  <2> HIDE DEF m
  <2> QED
    BY <2>1, <2>2, <2>3 DEF WellLinked
<1>8. HeadReachesAll(m)
  <2> SUFFICES ASSUME NEW S \in SUBSET Linked(m), m.ActiveInt \in S,
                      \A i \in S \ {INTERRUPT_NULL} : m.Next[i] \in S
               PROVE  S = Linked(m)
    BY DEF HeadReachesAll
  <2>1. l.ActiveInt \in S
    BY <1>1, <1>3, <1>4 DEF Lists
  <2>2. ASSUME NEW i \in (S \intersect Linked(l)) \ {INTERRUPT_NULL}
        PROVE  l.Next[i] \in S
    <3>1. CASE n # l.ActiveInt /\ i = p
      <4>1. m.Next[i] = h /\ m.Next[h] = n
        BY <3>1, <1>1, <1>4 DEF Lists
      <4> QED
        BY <4>1, <3>1, <1>1
    <3>2. CASE n = l.ActiveInt \/ i # p
      <4>1. m.Next[i] = l.Next[i]
        BY <3>2, <1>1, <1>3, <1>4 DEF Lists, Linked
      <4> QED
        BY <4>1
    <3> QED
      BY <3>1, <3>2
  <2>3. Linked(l) \subseteq S
    BY <2>1, <2>2, ListInduction
  <2>4. h \in S
    <3>1. CASE n = l.ActiveInt
      BY <3>1, <1>3
    <3>2. CASE n # l.ActiveInt
      BY <3>2, <1>1, <1>4, <2>3 DEF Lists
    <3> QED
      BY <3>1, <3>2
  <2> QED
    BY <2>3, <2>4, <1>6
<1> HIDE DEF m
<1> QED
  BY <1>2, <1>5, <1>6, <1>7, <1>8 DEF Good, m

(* CycInt_Add...: the interrupt is pending at its new time and at no       *)
(* other, and no other interrupt is disturbed.                             *)
LEMMA RescheduleGood ==
  ASSUME NEW l, Good(l), NEW h \in Real, NEW c, Representable(c)
  PROVE  /\ Good(Reschedule(l, h, c))
         /\ Linked(Reschedule(l, h, c)) = Linked(l) \union {h}
         /\ Reschedule(l, h, c).Cycles = [l.Cycles EXCEPT ![h] = c]
<1> DEFINE r == RemovePending(l, h)
           n == ScanStop(r, c)
<1>1. Good(r) /\ Linked(r) = Linked(l) \ {h} /\ r.Cycles = l.Cycles
  BY RemovePendingGood
<1>2. h \in Ids /\ ~r.Active[h]
  BY <1>1 DEF Linked, Real
<1>3. c \in Nat /\ c < NullCycles
  BY DEF Representable
<1>4. \E i \in Ids : StopsAt(r, c, i)
  BY <1>1, <1>3, ScanStops DEF Linked
<1>5. n \in Ids /\ StopsAt(r, c, n)
  BY <1>4 DEF ScanStop
<1>6. n \in Linked(r)
  BY <1>5 DEF StopsAt, Linked
<1>7. Reschedule(l, h, c) = InsertBefore(r, h, c, n)
  BY DEF Reschedule, InsertInt
<1> HIDE DEF r, n
<1> QED
  BY <1>1, <1>2, <1>3, <1>5, <1>6, <1>7, InsertGood

-----------------------------------------------------------------------------
(* Arithmetic of the restart of a timer that runs x cycles late. *)
LEMMA RestartOffset ==
  ASSUME NEW x \in Nat, NEW p \in Nat \ {0}
  PROVE  (IF x > p THEN x % p ELSE x) \in 0..p
<1>1. x % p \in 0..(p - 1)
  OBVIOUS
<1> QED
  BY <1>1

(* A rescheduled interrupt is after t if its new time is and the others are. *)
LEMMA RescheduleAfter ==
  ASSUME NEW l, Good(l), NEW h \in Real, NEW c, Representable(c), NEW t \in Int,
         t < c, \A i \in Linked(l) : t < l.Cycles[i]
  PROVE  \A i \in Linked(Reschedule(l, h, c)) : t < Reschedule(l, h, c).Cycles[i]
<1> DEFINE m == Reschedule(l, h, c)
<1>1. Linked(m) = Linked(l) \union {h} /\ m.Cycles = [l.Cycles EXCEPT ![h] = c]
  BY RescheduleGood
<1>2. l.Cycles \in [Ids -> Nat] /\ Linked(l) \subseteq Ids
  BY GoodFields
<1>3. ASSUME NEW i \in Linked(m)
      PROVE  t < m.Cycles[i]
  <2>1. CASE i = h
    BY <1>1, <1>2, <2>1 DEF Real
  <2>2. CASE i # h
    <3>1. i \in Linked(l) /\ m.Cycles[i] = l.Cycles[i]
      BY <1>1, <1>2, <2>2
    <3> QED
      BY <3>1
  <2> QED
    BY <2>1, <2>2
<1> QED
  BY <1>3

(* While a handler may act on devices, a change of the list that keeps it  *)
(* well formed and moves nothing into the past keeps the invariant.        *)
LEMMA DeviceStep ==
  ASSUME IInv, DevicesRun \/ phase = "body", Good(list'),
         \A t \in Int : t <= Immediate /\ (phase = "body" => t < Immediate) /\ AllAfter(list, t)
                        => AllAfter(list', t),
         ControlUnchanged, delayed' = delayed \/ delayed' = 0
  PROVE  IInv'
<1>1. TypeOK' /\ ListOK' /\ Phased'
  BY DEF IInv, TypeOK, ListOK, Phased, Good, ControlUnchanged
<1>2. phase \in {"cpu", "body"} /\ phase' = phase /\ running' = running
      /\ Immediate' = Immediate /\ blit' = blit
  BY DEF DevicesRun, ControlUnchanged, Immediate
<1>3. CalledIsHead'
  BY <1>2 DEF CalledIsHead
<1>4. clock \in Nat /\ currcycle \in Nat /\ Immediate \in Nat /\ clock <= Immediate
      /\ MaxInstr \in Nat \ {0} /\ MaxPass \in Nat
  BY TimeAssumption DEF IInv, TypeOK, Immediate
<1>5. NothingOverdue'
  BY <1>2, <1>4 DEF IInv, NothingOverdue, ControlUnchanged
<1>6. NothingTooLate'
  <2> DEFINE t == Immediate - MaxInstr - (IF blit THEN MaxPass ELSE 0)
  <2>1. t \in Int /\ t < Immediate
    BY <1>4
  <2>2. phase # "cpu" => AllAfter(list, t)
    BY DEF IInv, NothingTooLate
  <2> HIDE DEF t
  <2>3. phase # "cpu" => AllAfter(list', t)
    BY <1>4, <2>1, <2>2
  <2> USE DEF t
  <2> QED
    BY <2>3, <1>2 DEF NothingTooLate
<1>7. LatenessBounded' /\ SuspendedLateness'
  BY <1>2, <1>4 DEF IInv, TypeOK, LatenessBounded, SuspendedLateness
<1> QED
  BY <1>1, <1>3, <1>5, <1>6, <1>7 DEF IInv

(* The initial states satisfy the invariant. *)
LEMMA InitInv == Init => IInv
<1> SUFFICES ASSUME Init PROVE IInv
  OBVIOUS
<1>1. Good(list)
  BY EmptyListGood DEF Init
<1>2. Linked(list) = {INTERRUPT_NULL} /\ list.Cycles[INTERRUPT_NULL] = NullCycles
  BY IdsAssumption DEF Init, EmptyList, Linked
<1>3. AllAfter(list, clock)
  BY <1>2, TimeAssumption DEF Init, AllAfter
<1>4. /\ delayed = 0 /\ clock = 0 /\ currcycle = 0 /\ phase = "cpu"
      /\ running = INTERRUPT_NULL /\ blit = FALSE
  BY DEF Init
<1>5. TypeOK /\ ListOK
  <2>1. TypeOK
    <3>1. blit \in BOOLEAN
      BY <1>4, Zenon
    <3>2. running \in Ids
      BY <1>4, IdsAssumption
    <3> QED
      BY <1>1, <1>4, <3>1, <3>2 DEF Good, TypeOK, Phases
  <2> QED
    BY <1>1, <2>1 DEF Good, ListOK
<1>6. Phased
  BY <1>4, TimeAssumption DEF Phased
<1>7. CalledIsHead /\ NothingOverdue /\ NothingTooLate /\ LatenessBounded
      /\ SuspendedLateness
  BY <1>3, <1>4 DEF CalledIsHead, NothingOverdue, NothingTooLate, LatenessBounded, SuspendedLateness
<1> QED
  BY <1>5, <1>6, <1>7 DEF IInv

(* Every step preserves it. *)
LEMMA NextInv == IInv /\ [Next]_vars => IInv'
<1> SUFFICES ASSUME IInv, [Next]_vars PROVE IInv'
  OBVIOUS
<1> USE IdsAssumption, TimeAssumption
<1>1. Good(list)
  BY DEF IInv, TypeOK, ListOK, Good
<1>2. /\ clock \in Nat /\ currcycle \in Nat /\ delayed \in Int /\ blit \in BOOLEAN
      /\ Immediate \in Nat /\ clock <= Immediate /\ Immediate <= clock + currcycle
      /\ Immediate < NullCycles
  BY DEF IInv, TypeOK, Phased, Immediate
<1>3. CASE CycInt_Reset
  <2>1. Good(list')
    BY <1>3, EmptyListGood DEF CycInt_Reset
  <2>2. Linked(list') = {INTERRUPT_NULL} /\ list'.Cycles[INTERRUPT_NULL] = NullCycles
    BY <1>3 DEF CycInt_Reset, EmptyList, Linked
  <2>3. \A t \in Int : t <= Immediate => AllAfter(list', t)
    BY <1>2, <2>2 DEF AllAfter
  <2> QED
    BY <1>3, <2>1, <2>3, DeviceStep DEF CycInt_Reset, DevicesRun
<1>4. ASSUME NEW h \in Real, NEW d \in Delays, CycInt_AddRelativeInterrupt(h, d)
      PROVE  IInv'
  <2>1. Representable(Immediate + d) /\ list' = Reschedule(list, h, Immediate + d)
    BY <1>4 DEF CycInt_AddRelativeInterrupt
  <2>2. Good(list')
    BY <1>1, <2>1, RescheduleGood
  <2>3. \A t \in Int : t <= Immediate /\ (phase = "body" => t < Immediate) /\ AllAfter(list, t)
                        => AllAfter(list', t)
    BY <1>1, <1>2, <2>1, RescheduleAfter DEF AllAfter
  <2> QED
    BY <1>4, <2>2, <2>3, DeviceStep DEF CycInt_AddRelativeInterrupt
<1>5. ASSUME NEW h \in Real, CycInt_RemovePendingInterrupt(h)
      PROVE  IInv'
  <2>1. Good(list') /\ Linked(list') \subseteq Linked(list) /\ list'.Cycles = list.Cycles
    BY <1>1, <1>5, RemovePendingGood DEF CycInt_RemovePendingInterrupt
  <2>2. \A t \in Int : t <= Immediate /\ (phase = "body" => t < Immediate) /\ AllAfter(list, t)
                        => AllAfter(list', t)
    BY <2>1 DEF AllAfter
  <2> QED
    BY <1>5, <2>1, <2>2, DeviceStep DEF CycInt_RemovePendingInterrupt
<1>6. ASSUME NEW d \in Shifts, CycInt_ModifyInterrupt(d)
      PROVE  IInv'
  <2> DEFINE c == list.Cycles[VBL] + d
  <2>1. Representable(c) /\ list' = Reschedule(list, VBL, c) /\ c > clock + currcycle
    BY <1>6 DEF CycInt_ModifyInterrupt
  <2>2. VBL \in Real /\ c \in Nat
    BY <2>1 DEF Real, Representable
  <2> HIDE DEF c
  <2>3. Good(list')
    BY <1>1, <2>1, <2>2, RescheduleGood
  <2>4. \A t \in Int : t <= Immediate /\ (phase = "body" => t < Immediate) /\ AllAfter(list, t)
                        => AllAfter(list', t)
    BY <1>1, <1>2, <2>1, <2>2, RescheduleAfter DEF AllAfter
  <2> QED
    BY <1>6, <2>3, <2>4, DeviceStep DEF CycInt_ModifyInterrupt, DevicesRun
<1>7. ASSUME NEW d \in 1..MaxInstr, Execute(d)
      PROVE  IInv'
  BY <1>2, <1>7 DEF Execute, IInv, TypeOK, ListOK, Phased, CalledIsHead,
     NothingOverdue, NothingTooLate, LatenessBounded, SuspendedLateness, AllAfter
<1>8. CASE EndInstruction
  <2>1. /\ phase = "cpu" /\ phase' = "loop" /\ clock' = clock + currcycle /\ currcycle' = 0
        /\ UNCHANGED <<list, delayed, running, blit>>
    BY <1>8 DEF EndInstruction
  <2>2. TypeOK' /\ ListOK' /\ Phased'
    BY <1>2, <2>1 DEF IInv, TypeOK, Phases, ListOK, Phased
  <2>3. CalledIsHead' /\ NothingOverdue' /\ LatenessBounded' /\ SuspendedLateness'
    BY <2>1 DEF IInv, CalledIsHead, NothingOverdue, LatenessBounded, SuspendedLateness
  <2>4. Immediate' = clock + currcycle /\ currcycle <= MaxInstr /\ blit' = FALSE
    BY <1>2, <2>1 DEF Immediate, IInv, TypeOK, Phased
  <2>5. ASSUME NEW i \in Linked(list)
        PROVE  clock + currcycle - MaxInstr < list.Cycles[i]
    BY <1>1, <1>2, <2>1, <2>4, GoodFields DEF IInv, NothingOverdue, AllAfter
  <2>6. NothingTooLate'
    BY <1>2, <2>1, <2>4, <2>5 DEF NothingTooLate, AllAfter
  <2> QED
    BY <2>2, <2>3, <2>6 DEF IInv
<1>9. CASE MFP_UpdateTimers
  <2>1. /\ phase = "cpu" /\ phase' = "loop" /\ blit = FALSE
        /\ UNCHANGED <<list, delayed, clock, currcycle, running, blit>>
    BY <1>9, <1>2 DEF MFP_UpdateTimers, IInv, Phased
  <2>2. TypeOK' /\ ListOK' /\ Phased'
    BY <2>1 DEF IInv, TypeOK, Phases, ListOK, Phased
  <2>3. CalledIsHead' /\ NothingOverdue' /\ LatenessBounded' /\ SuspendedLateness'
    BY <2>1 DEF IInv, CalledIsHead, NothingOverdue, LatenessBounded, SuspendedLateness
  <2>4. Immediate' = Immediate /\ currcycle <= MaxInstr
    BY <2>1 DEF Immediate, IInv, Phased
  <2>5. ASSUME NEW i \in Linked(list)
        PROVE  Immediate - MaxInstr < list.Cycles[i]
    BY <1>1, <1>2, <2>1, <2>4, GoodFields DEF IInv, NothingOverdue, AllAfter
  <2>6. NothingTooLate'
    BY <1>2, <2>1, <2>4, <2>5 DEF NothingTooLate, AllAfter
  <2> QED
    BY <2>2, <2>3, <2>6 DEF IInv
<1>10. CASE CycInt_CallActiveHandler
  <2>1. /\ phase = "loop" /\ list.ActiveInt_Cycles <= Immediate
        /\ delayed' = list.ActiveInt_Cycles - Immediate
        /\ running' = list.ActiveInt /\ phase' = "called"
        /\ UNCHANGED <<list, clock, currcycle, blit>>
    BY <1>10 DEF CycInt_CallActiveHandler, HeadIsDue
  <2>2. /\ list.ActiveInt \in Linked(list) /\ list.ActiveInt \in Ids
        /\ list.ActiveInt_Cycles = list.Cycles[list.ActiveInt]
        /\ list.ActiveInt_Cycles \in Nat
    BY <1>1, GoodFields
  <2>3. list.ActiveInt # INTERRUPT_NULL
    BY <1>1, <1>2, <2>1, <2>2, OnlyNullIsNeverDue
  <2>4. TypeOK' /\ ListOK' /\ Phased'
    BY <1>2, <2>1, <2>2, <2>3 DEF IInv, TypeOK, Phases, ListOK, Phased
  <2>5. CalledIsHead' /\ NothingOverdue'
    BY <2>1, <2>3 DEF CalledIsHead, NothingOverdue
  <2>6. Immediate' = Immediate
    BY <2>1 DEF Immediate
  <2>7. NothingTooLate'
    BY <2>1, <2>6 DEF IInv, NothingTooLate, AllAfter
  <2>8. Immediate - MaxInstr - (IF blit THEN MaxPass ELSE 0) < list.ActiveInt_Cycles
    BY <2>1, <2>2 DEF IInv, NothingTooLate, AllAfter
  <2>9. LatenessBounded' /\ SuspendedLateness'
    BY <1>2, <2>1, <2>2, <2>8 DEF IInv, LatenessBounded, SuspendedLateness
  <2> QED
    BY <2>4, <2>5, <2>7, <2>9 DEF IInv
<1>11. CASE CycInt_AcknowledgeInterrupt
  <2>1. /\ phase = "called" /\ phase' = "body" /\ list' = RemoveHead(list)
        /\ UNCHANGED <<delayed, clock, currcycle, running, blit>>
    BY <1>11 DEF CycInt_AcknowledgeInterrupt
  <2>2. list.ActiveInt # INTERRUPT_NULL
    BY <2>1 DEF IInv, CalledIsHead
  <2>3. Good(list') /\ Linked(list') \subseteq Linked(list) /\ list'.Cycles = list.Cycles
    BY <1>1, <2>1, <2>2, RemoveHeadGood
  <2>4. TypeOK' /\ ListOK' /\ Phased'
    BY <2>1, <2>3 DEF IInv, TypeOK, Phases, ListOK, Phased, Good
  <2>5. CalledIsHead' /\ NothingOverdue' /\ LatenessBounded' /\ SuspendedLateness'
    BY <2>1 DEF IInv, CalledIsHead, NothingOverdue, LatenessBounded, SuspendedLateness
  <2>6. NothingTooLate'
    BY <2>1, <2>3 DEF IInv, NothingTooLate, AllAfter, Immediate
  <2> QED
    BY <2>4, <2>5, <2>6 DEF IInv
<1>12. CASE HandlerReturns
  BY <1>12 DEF HandlerReturns, IInv, TypeOK, Phases, ListOK, Phased, CalledIsHead,
     NothingOverdue, NothingTooLate, LatenessBounded, SuspendedLateness, AllAfter, Immediate
<1>13. CASE LoopEnds
  <2>1. /\ phase = "loop" /\ Immediate < list.ActiveInt_Cycles /\ blit' = FALSE
        /\ UNCHANGED <<list, delayed, clock, currcycle>>
    BY <1>1, <1>2, <1>13, GoodFields DEF LoopEnds, HeadIsDue
  <2>2. AllAfter(list, Immediate)
    BY <1>1, <1>2, <2>1, HeadIsEarliest, GoodFields DEF AllAfter
  <2>3. Immediate' = Immediate
    BY <2>1 DEF Immediate
  <2>4. NothingOverdue' /\ NothingTooLate'
    BY <1>1, <1>2, <2>1, <2>2, <2>3, GoodFields DEF NothingOverdue, NothingTooLate, AllAfter
  <2>5. CASE blit
    <3>1. phase' = "body" /\ running' = Blitter
      BY <1>13, <2>5 DEF LoopEnds
    <3>2. TypeOK' /\ ListOK' /\ Phased'
      BY <2>1, <3>1 DEF IInv, TypeOK, Phases, ListOK, Phased
    <3>3. CalledIsHead' /\ LatenessBounded' /\ SuspendedLateness'
      BY <2>1, <2>5, <3>1 DEF IInv, CalledIsHead, LatenessBounded, SuspendedLateness
    <3> QED
      BY <2>4, <3>2, <3>3 DEF IInv
  <2>6. CASE ~blit
    <3>1. phase' = "cpu" /\ running' = running
      BY <1>13, <2>6 DEF LoopEnds
    <3> QED
      BY <2>1, <2>4, <3>1 DEF IInv, TypeOK, Phases, ListOK, Phased, CalledIsHead, LatenessBounded, SuspendedLateness
  <2> QED
    BY <2>5, <2>6
<1>14. ASSUME NEW p \in Periods, RestartTimer(p)
       PROVE  IInv'
  <2> DEFINE over == IF -delayed > p THEN (-delayed) % p ELSE -delayed
             c == Immediate + p - over
  <2>1. Representable(c) /\ list' = Reschedule(list, running, c) /\ running \in Real
    BY <1>14 DEF RestartTimer, RestartTimerAt, Real
  <2>2. over \in 0..p
    BY <1>2, <1>14, RestartOffset DEF RestartTimer, RestartTimerAt, IInv, LatenessBounded
  <2>3. c >= Immediate /\ c \in Nat
    BY <1>2, <2>2
  <2> HIDE DEF c
  <2>4. Good(list')
    BY <1>1, <2>1, RescheduleGood
  <2>5. \A t \in Int : t < Immediate /\ AllAfter(list, t) => AllAfter(list', t)
    BY <1>1, <1>2, <2>1, <2>3, RescheduleAfter DEF AllAfter
  <2>6. phase = "body" /\ delayed' = delayed /\ ControlUnchanged
    BY <1>14 DEF RestartTimer, RestartTimerAt
  <2> QED
    BY <2>4, <2>5, <2>6, DeviceStep
<1>15. ASSUME NEW d \in 1..MaxPass, Blitter_FlushCycles(d)
       PROVE  IInv'
  <2>1. /\ phase = "body" /\ phase' = "loop" /\ running' = INTERRUPT_NULL /\ blit' = TRUE
        /\ blit = FALSE /\ clock' \in Nat /\ currcycle' \in Nat
        /\ currcycle' <= currcycle /\ clock' + currcycle' = clock + currcycle + d
        /\ clock' + currcycle' <= MaxClock
        /\ UNCHANGED <<list, delayed>>
    BY <1>2, <1>15 DEF Blitter_FlushCycles
  <2>2. TypeOK' /\ ListOK'
    BY <2>1 DEF IInv, TypeOK, Phases, ListOK
  <2>8. currcycle' <= MaxInstr
    BY <1>2, <2>1 DEF IInv, Phased
  <2>3. Phased'
    BY <2>1, <2>8, Zenon DEF Phased
  <2>7. CalledIsHead' /\ NothingOverdue' /\ LatenessBounded' /\ SuspendedLateness'
    BY <2>1 DEF IInv, CalledIsHead, NothingOverdue, LatenessBounded, SuspendedLateness
  <2>4. Immediate' = Immediate + d
    BY <1>2, <1>15 DEF Immediate, Blitter_FlushCycles
  <2>5. ASSUME NEW i \in Linked(list)
        PROVE  Immediate + d - MaxInstr - MaxPass < list.Cycles[i]
    BY <1>1, <1>2, <2>1, GoodFields DEF IInv, NothingTooLate, AllAfter
  <2>6. NothingTooLate'
    BY <1>1, <1>2, <2>1, <2>4, <2>5, GoodFields DEF NothingTooLate, AllAfter
  <2> QED
    BY <2>2, <2>3, <2>6, <2>7 DEF IInv
<1>16. CASE UNCHANGED vars
  BY <1>16 DEF vars, IInv, TypeOK, ListOK, Phased, CalledIsHead,
     NothingOverdue, NothingTooLate, LatenessBounded, SuspendedLateness, AllAfter, Immediate
<1> QED
  BY <1>3, <1>4, <1>5, <1>6, <1>7, <1>8, <1>9, <1>10, <1>11, <1>12, <1>13, <1>14, <1>15, <1>16
     DEF Next, Devices, Processor, Loop

-----------------------------------------------------------------------------
(* The scheduler's list is well linked, sorted and complete at every step  *)
(* of every handler, whatever is added, modified and removed: what         *)
(* cycInt.c's insertion, removal and acknowledge rely on.                  *)
THEOREM ListCorrect == Spec => []ListOK
<1>1. IInv => ListOK
  BY DEF IInv
<1> QED
  BY <1>1, InitInv, NextInv, PTL DEF Spec

THEOREM TypeCorrect == Spec => []TypeOK
<1>1. IInv => TypeOK
  BY DEF IInv
<1> QED
  BY <1>1, InitInv, NextInv, PTL DEF Spec

(* CycInt_ActiveInt_Cycles, the only time CycInt_Process looks at, is the  *)
(* smallest due time of all the active interrupts.                         *)
THEOREM EarliestFirstCorrect == Spec => []EarliestFirst
<1>1. IInv => EarliestFirst
  BY HeadIsEarliest DEF IInv, TypeOK, ListOK, Good, EarliestFirst
<1> QED
  BY <1>1, InitInv, NextInv, PTL DEF Spec

(* b is reached from a along the list.                                     *)
Reaches(l, a, b) ==
  \A S \in SUBSET Linked(l) :
    a \in S /\ (\A i \in S \ {INTERRUPT_NULL} : l.Next[i] \in S) => b \in S

(* Of two active interrupts one is reached from the other: what is reached *)
(* from the head stays comparable when the head moves on.                  *)
LEMMA ReachesEither ==
  ASSUME NEW l, Good(l), NEW b \in Linked(l)
  PROVE  \A a \in Linked(l) : Reaches(l, a, b) \/ Reaches(l, b, a)
<1> DEFINE T == {a \in Linked(l) : Reaches(l, a, b) \/ Reaches(l, b, a)}
<1>1. l.ActiveInt \in T
  <2>1. Reaches(l, l.ActiveInt, b)
    BY DEF Reaches, Good, HeadReachesAll
  <2> QED
    BY <2>1, GoodFields
<1>2. ASSUME NEW i \in (T \intersect Linked(l)) \ {INTERRUPT_NULL}
      PROVE  l.Next[i] \in T
  <2>1. l.Next[i] \in Linked(l)
    BY GoodFields
  <2>2. CASE b = i
    <3>1. Reaches(l, b, l.Next[i])
      BY <2>2 DEF Reaches
    <3> QED
      BY <2>1, <3>1
  <2>3. CASE b # i /\ Reaches(l, i, b)
    <3> SUFFICES ASSUME NEW S \in SUBSET Linked(l), l.Next[i] \in S,
                        \A j \in S \ {INTERRUPT_NULL} : l.Next[j] \in S
                 PROVE  b \in S
      BY <2>1 DEF Reaches
    <3>1. S \union {i} \in SUBSET Linked(l) /\ i \in S \union {i}
      OBVIOUS
    <3>2. \A j \in (S \union {i}) \ {INTERRUPT_NULL} : l.Next[j] \in S \union {i}
      OBVIOUS
    <3>3. b \in S \union {i}
      BY <2>3, <3>1, <3>2 DEF Reaches
    <3> QED
      BY <2>3, <3>3
  <2>4. CASE Reaches(l, b, i)
    <3>1. Reaches(l, b, l.Next[i])
      BY <2>4 DEF Reaches
    <3> QED
      BY <2>1, <3>1
  <2> QED
    BY <2>2, <2>3, <2>4
<1> HIDE DEF T
<1>3. Linked(l) \subseteq T
  BY <1>1, <1>2, ListInduction
<1> QED
  BY <1>3 DEF T

(* There is one place only: past it, every predecessor is due at c or      *)
(* later.                                                                  *)
LEMMA ScanStopsOnce ==
  ASSUME NEW l, Good(l), NEW c \in Nat,
         NEW a \in Linked(l), StopsAt(l, c, a),
         NEW b \in Linked(l), StopsAt(l, c, b)
  PROVE  a = b
<1>1. ASSUME NEW x \in Linked(l), StopsAt(l, c, x),
             NEW y \in Linked(l), StopsAt(l, c, y), Reaches(l, x, y), x # y
      PROVE  FALSE
  <2> DEFINE S == {j \in Linked(l) : /\ c <= l.Cycles[j]
                                     /\ j = x \/ (j # l.ActiveInt /\ c <= l.Cycles[l.Prev[j]])}
  <2>1. S \in SUBSET Linked(l) /\ x \in S
    BY <1>1 DEF StopsAt
  <2>2. ASSUME NEW j \in S \ {INTERRUPT_NULL} PROVE l.Next[j] \in S
    <3>1. /\ l.Next[j] \in Linked(l) /\ l.Next[j] # l.ActiveInt /\ l.Prev[l.Next[j]] = j
          /\ l.Cycles[j] <= l.Cycles[l.Next[j]]
      BY DEF Good, WellLinked
    <3>2. l.Cycles[j] \in Nat /\ l.Cycles[l.Next[j]] \in Nat /\ c <= l.Cycles[j]
      BY <3>1, GoodFields
    <3> QED
      BY <3>1, <3>2
  <2>3. y \in S
    BY <1>1, <2>1, <2>2 DEF Reaches
  <2>4. y # l.ActiveInt /\ c <= l.Cycles[l.Prev[y]]
    BY <1>1, <2>3
  <2>5. l.Prev[y] \in Linked(l)
    BY <1>1, <2>4 DEF Good, WellLinked
  <2>6. l.Cycles[l.Prev[y]] \in Nat
    BY <2>5, GoodFields
  <2> QED
    BY <1>1, <2>4, <2>6 DEF StopsAt
<1> QED
  BY <1>1, ReachesEither

(* The loop of CycInt_InsertInt as an equation.                            *)
Scans(l, c, f) ==
  f = [n \in Linked(l) |-> IF c > l.Cycles[n] THEN f[l.Next[n]] ELSE n]

(* It has a solution: from whatever is due before c the loop gets to the   *)
(* place.                                                                  *)
LEMMA ScanExists ==
  ASSUME NEW l, Good(l), NEW c \in Nat, c < NullCycles
  PROVE  \E f : Scans(l, c, f)
<1>1. PICK a \in Linked(l) : StopsAt(l, c, a)
  BY ScanStops
<1> DEFINE f == [n \in Linked(l) |-> IF c > l.Cycles[n] THEN a ELSE n]
<1>2. ASSUME NEW n \in Linked(l), c > l.Cycles[n]
      PROVE  f[l.Next[n]] = a
  <2>1. n # INTERRUPT_NULL
    BY <1>2, TimeAssumption, OnlyNullIsNeverDue DEF Good, WellLinked
  <2>2. l.Next[n] \in Linked(l) /\ l.Next[n] # l.ActiveInt /\ l.Prev[l.Next[n]] = n
    BY <2>1 DEF Good, WellLinked
  <2>3. l.Cycles[n] \in Nat /\ l.Cycles[l.Next[n]] \in Nat
    BY <2>2, GoodFields
  <2>4. CASE c > l.Cycles[l.Next[n]]
    BY <2>2, <2>4
  <2>5. CASE ~(c > l.Cycles[l.Next[n]])
    <3>1. StopsAt(l, c, l.Next[n])
      BY <1>2, <2>2, <2>3, <2>5 DEF StopsAt, Linked
    <3>2. l.Next[n] = a
      BY <1>1, <2>2, <3>1, ScanStopsOnce
    <3> QED
      BY <2>2, <2>5, <3>2
  <2> QED
    BY <2>4, <2>5
<1>3. Scans(l, c, f)
  BY <1>2 DEF Scans
<1> QED
  BY <1>3

(* And every solution gets there from the head.                            *)
LEMMA ScanEndsAtStop ==
  ASSUME NEW l, Good(l), NEW c \in Nat, NEW f, Scans(l, c, f),
         NEW a \in Linked(l), StopsAt(l, c, a)
  PROVE  f[l.ActiveInt] = a
<1>0. \A n \in Linked(l) : f[n] = IF c > l.Cycles[n] THEN f[l.Next[n]] ELSE n
  BY DEF Scans
<1> DEFINE Ahead == {i \in Linked(l) : /\ f[i] = f[l.ActiveInt]
                                       /\ i = l.ActiveInt \/ l.Cycles[l.Prev[i]] < c}
           Past == {i \in Linked(l) : i # l.ActiveInt /\ c <= l.Cycles[l.Prev[i]]}
           S == Ahead \union Past
<1>1. l.ActiveInt \in S
  BY GoodFields
<1>2. ASSUME NEW i \in (S \intersect Linked(l)) \ {INTERRUPT_NULL}
      PROVE  l.Next[i] \in S
  <2>1. /\ l.Next[i] \in Linked(l) /\ l.Next[i] # l.ActiveInt /\ l.Prev[l.Next[i]] = i
        /\ l.Cycles[i] \in Nat
    BY GoodFields DEF Good, WellLinked
  <2>2. CASE l.Cycles[i] < c
    <3>1. i \notin Past
      <4> SUFFICES ASSUME i # l.ActiveInt, c <= l.Cycles[l.Prev[i]] PROVE FALSE
        OBVIOUS
      <4>1. /\ l.Prev[i] \in Linked(l) \ {INTERRUPT_NULL} /\ l.Next[l.Prev[i]] = i
        BY DEF Good, WellLinked
      <4>2. l.Cycles[l.Prev[i]] <= l.Cycles[i] /\ l.Cycles[l.Prev[i]] \in Nat
        BY <4>1, GoodFields
      <4> QED
        BY <2>1, <2>2, <4>2
    <3>2. f[i] = f[l.ActiveInt]
      BY <3>1
    <3>3. f[i] = f[l.Next[i]]
      BY <1>0, <2>1, <2>2
    <3> QED
      BY <2>1, <2>2, <3>2, <3>3
  <2>3. CASE ~(l.Cycles[i] < c)
    BY <2>1, <2>3
  <2> QED
    BY <2>2, <2>3
<1>3. Linked(l) \subseteq S
  <2> HIDE DEF S
  <2> QED
    BY <1>1, <1>2, ListInduction
<1>4. a \notin Past
  <2> SUFFICES ASSUME a # l.ActiveInt, c <= l.Cycles[l.Prev[a]] PROVE FALSE
    OBVIOUS
  <2>1. l.Prev[a] \in Linked(l)
    BY DEF Good, WellLinked
  <2>2. l.Cycles[l.Prev[a]] \in Nat
    BY <2>1, GoodFields
  <2> QED
    BY <2>2 DEF StopsAt
<1>5. f[a] = f[l.ActiveInt]
  BY <1>3, <1>4
<1>6. f[a] = a
  <2>1. l.Cycles[a] \in Nat
    BY GoodFields
  <2> QED
    BY <1>0, <2>1 DEF StopsAt
<1> QED
  BY <1>5, <1>6

(* The recursion of the loop finds what the predicate of the place says.   *)
LEMMA ScanLoopFinds ==
  ASSUME NEW l, Good(l), NEW c \in Nat, c < NullCycles
  PROVE  ScanLoop(l, c) = ScanStop(l, c)
<1> DEFINE scan == CHOOSE f : Scans(l, c, f)
<1>1. Scans(l, c, scan)
  BY ScanExists, Zenon
<1>2. ScanLoop(l, c) = scan[l.ActiveInt]
  BY Zenon DEF ScanLoop, Scans
<1>3. PICK a \in Linked(l) : StopsAt(l, c, a)
  BY ScanStops
<1> HIDE DEF scan
<1>4. scan[l.ActiveInt] = a
  BY <1>1, <1>3, ScanEndsAtStop
<1>5. ScanStop(l, c) \in Ids /\ StopsAt(l, c, ScanStop(l, c))
  BY <1>3 DEF ScanStop, Linked
<1>6. ScanStop(l, c) \in Linked(l)
  BY <1>5 DEF StopsAt, Linked
<1>7. ScanStop(l, c) = a
  BY <1>3, <1>5, <1>6, ScanStopsOnce
<1> QED
  BY <1>2, <1>4, <1>7

(* Wherever the clock and the list stand, the loop of CycInt_InsertInt     *)
(* ends at the one place that keeps the list sorted and puts a new         *)
(* interrupt before those due at the same time.                            *)
THEOREM ScanFindsPlaceCorrect == Spec => []ScanFindsPlace
<1>1. IInv => ScanFindsPlace
  <2> SUFFICES ASSUME IInv,
                      NEW c \in {Immediate} \union
                                {list.Cycles[i] : i \in Linked(list) \ {INTERRUPT_NULL}}
               PROVE  ScanLoop(list, c) = ScanStop(list, c)
    BY DEF ScanFindsPlace
  <2>1. Good(list)
    BY DEF IInv, TypeOK, ListOK, Good
  <2>2. Immediate \in Nat /\ Immediate < NullCycles
    BY TimeAssumption DEF IInv, TypeOK, Phased, Immediate
  <2>3. c \in Nat /\ c < NullCycles
    BY <2>1, <2>2, GoodFields DEF Good, WellLinked
  <2> QED
    BY <2>1, <2>3, ScanLoopFinds
<1> QED
  BY <1>1, InitInv, NextInv, PTL DEF Spec

(* CycInt_Process leaves no event behind that was due before the next      *)
(* instruction, and a handler is late by less than one instruction and one *)
(* pass of the blitter.                                                    *)
THEOREM TimelyCorrect == Spec => [](NothingOverdue /\ LatenessBounded)
<1>1. IInv => NothingOverdue /\ LatenessBounded
  BY DEF IInv
<1> QED
  BY <1>1, InitInv, NextInv, PTL DEF Spec
-----------------------------------------------------------------------------
(* From the call of a handler to the restart of its timer the lateness     *)
(* tells when the interrupt was due: no time passes, and its due time      *)
(* stays in the list after it was acknowledged.                            *)
DueKnown ==
  phase = "called" \/ (phase = "body" /\ running \in Timers /\ ~list.Active[running])
    => list.Cycles[running] = Immediate + delayed

LEMMA NextDueKnown == IInv /\ DueKnown /\ [Next]_vars => DueKnown'
<1> SUFFICES ASSUME IInv, DueKnown, [Next]_vars PROVE DueKnown'
  OBVIOUS
<1> USE IdsAssumption
<1>1. Good(list) /\ Immediate \in Nat
  BY DEF IInv, TypeOK, ListOK, Good, Immediate
<1>2. CASE Devices
  BY <1>2 DEF Devices, CycInt_Reset, CycInt_AddRelativeInterrupt, CycInt_RemovePendingInterrupt,
     CycInt_ModifyInterrupt, DevicesRun, ControlUnchanged, DueKnown
<1>3. CASE Processor
  BY <1>3 DEF Processor, Execute, EndInstruction, MFP_UpdateTimers, DueKnown
<1>4. CASE CycInt_CallActiveHandler
  BY <1>1, <1>4, GoodFields DEF CycInt_CallActiveHandler, DueKnown, Immediate
<1>5. CASE CycInt_AcknowledgeInterrupt
  <2>1. list.ActiveInt # INTERRUPT_NULL
    BY <1>5 DEF CycInt_AcknowledgeInterrupt, IInv, CalledIsHead
  <2>2. list'.Cycles = list.Cycles
    BY <1>1, <1>5, <2>1, RemoveHeadGood DEF CycInt_AcknowledgeInterrupt
  <2> QED
    BY <1>5, <2>2 DEF CycInt_AcknowledgeInterrupt, DueKnown, Immediate
<1>6. CASE HandlerReturns
  BY <1>6 DEF HandlerReturns, DueKnown
<1>7. CASE LoopEnds
  BY <1>7 DEF LoopEnds, DueKnown
<1>8. ASSUME NEW p \in Periods, RestartTimer(p)
      PROVE  DueKnown'
  <2> DEFINE over == IF -delayed > p THEN (-delayed) % p ELSE -delayed
             c == Immediate + p - over
  <2>1. Representable(c) /\ list' = Reschedule(list, running, c) /\ running \in Real
        /\ phase' = "body" /\ running' = running
    BY <1>8 DEF RestartTimer, RestartTimerAt, ControlUnchanged, Real
  <2> HIDE DEF c
  <2>2. running \in Linked(list')
    <3>1. Linked(list') = Linked(list) \union {running}
      BY <1>1, <2>1, RescheduleGood, Zenon
    <3> QED
      BY <3>1
  <2> QED
    BY <2>1, <2>2 DEF DueKnown, Linked
<1>9. ASSUME NEW d \in 1..MaxPass, Blitter_FlushCycles(d)
      PROVE  DueKnown'
  BY <1>9 DEF Blitter_FlushCycles, DueKnown
<1>10. CASE UNCHANGED vars
  BY <1>10 DEF vars, DueKnown, Immediate
<1> QED
  BY <1>2, <1>3, <1>4, <1>5, <1>6, <1>7, <1>8, <1>9, <1>10 DEF Next, Loop

(* A whole number of periods leaves no remainder. *)
LEMMA WholePeriods ==
  ASSUME NEW p \in Nat \ {0}, NEW k \in Nat
  PROVE  (p * k) % p = 0
<1> DEFINE n == p * k
           q == n \div p
           m == n % p
<1>1. n \in Nat /\ q \in Int /\ m \in 0..(p - 1) /\ n = (p * q) + m
  OBVIOUS
<1>2. m = p * (k - q)
  BY <1>1
<1> HIDE DEF q, m
<1>3. k - q <= 0
  <2>1. k - q >= 1 => p * (k - q) >= p
    BY <1>1
  <2> QED
    BY <1>1, <1>2, <2>1
<1>4. p * (k - q) <= 0
  BY <1>1, <1>3
<1>5. m = 0
  BY <1>1, <1>2, <1>4
<1> QED
  BY <1>5 DEF m

(* x cycles late, of which whole periods are skipped: from the old due     *)
(* time to the new one there is a whole number of periods.                 *)
LEMMA RestartWhole ==
  ASSUME NEW x \in Nat, NEW p \in Nat \ {0}
  PROVE  LET over == IF x > p THEN x % p ELSE x
         IN x + p - over \in Nat \ {0} /\ (x + p - over) % p = 0
<1>1. CASE x > p
  <2> DEFINE k == x \div p
  <2>1. k \in Nat /\ x % p \in 0..(p - 1) /\ x = (p * k) + (x % p)
    OBVIOUS
  <2> HIDE DEF k
  <2>2. x + p - (x % p) = p * (k + 1)
    BY <2>1
  <2>3. k + 1 \in Nat
    BY <2>1
  <2>4. (p * (k + 1)) % p = 0
    BY <2>3, WholePeriods
  <2>5. x + p - (x % p) \in Nat \ {0}
    BY <2>1
  <2> QED
    BY <1>1, <2>2, <2>4, <2>5
<1>2. CASE ~(x > p)
  <2>1. x + p - x = p * 1
    OBVIOUS
  <2> QED
    BY <1>2, <2>1, WholePeriods
<1> QED
  BY <1>1, <1>2

(* A timer that its handler restarts is due a whole number of periods      *)
(* after it was due before, however late the handler ran, and not in the   *)
(* past: cycInt.c's delay, subtracted by mfp.c, keeps the phase.           *)
THEOREM NoDriftCorrect == Spec => NoDrift
<1>1. Init => DueKnown
  BY DEF Init, DueKnown
<1>2. IInv /\ DueKnown /\ [Next]_vars =>
        [\A p \in Periods : RestartTimer(p) =>
           LET t == running IN
           /\ list'.Cycles[t] > list.Cycles[t]
           /\ (list'.Cycles[t] - list.Cycles[t]) % p = 0
           /\ list'.Cycles[t] >= Immediate]_vars
  <2> SUFFICES ASSUME IInv, DueKnown, NEW p \in Periods, RestartTimer(p)
               PROVE  /\ list'.Cycles[running] > list.Cycles[running]
                      /\ (list'.Cycles[running] - list.Cycles[running]) % p = 0
                      /\ list'.Cycles[running] >= Immediate
    OBVIOUS
  <2> DEFINE x == -delayed
             over == IF x > p THEN x % p ELSE x
             c == Immediate + p - over
  <2>1. Good(list) /\ Immediate \in Nat /\ x \in Nat /\ p \in Nat \ {0}
    BY TimeAssumption DEF IInv, TypeOK, ListOK, Good, Immediate, LatenessBounded, RestartTimer, RestartTimerAt
  <2>2. Representable(c) /\ list' = Reschedule(list, running, c) /\ running \in Real
        /\ list.Cycles[running] = Immediate - x
    BY <2>1, IdsAssumption DEF RestartTimer, RestartTimerAt, DueKnown, Real, IInv, TypeOK
  <2>3. over \in 0..p
    BY <2>1, RestartOffset
  <2>4. x + p - over \in Nat \ {0} /\ (x + p - over) % p = 0
    BY <2>1, RestartWhole
  <2> HIDE DEF x, over
  <2>5. c \in Nat /\ c >= Immediate /\ c - (Immediate - x) = x + p - over
    BY <2>1, <2>3
  <2> HIDE DEF c
  <2>6. list'.Cycles[running] = c
    <3>1. list'.Cycles = [list.Cycles EXCEPT ![running] = c]
      BY <2>1, <2>2, RescheduleGood, Zenon
    <3> QED
      BY <2>1, <2>2, <3>1, GoodFields DEF Real
  <2>7. list'.Cycles[running] - list.Cycles[running] = x + p - over
    BY <2>2, <2>5, <2>6
  <2> QED
    BY <2>1, <2>2, <2>4, <2>5, <2>6, <2>7
<1> QED
  BY <1>1, <1>2, InitInv, NextInv, NextDueKnown, PTL DEF Spec, NoDrift

-----------------------------------------------------------------------------
(* How often a handler can be called while no time passes. *)

(* What rescheduling h changes, event by event. *)
LEMMA RescheduleEach ==
  ASSUME NEW l, Good(l), NEW h \in Real, NEW c, Representable(c),
         NEW m, m = Reschedule(l, h, c), NEW e \in Real
  PROVE  /\ m.Active[e] <=> l.Active[e] \/ e = h
         /\ m.Cycles[e] = IF e = h THEN c ELSE l.Cycles[e]
<1>1. Good(m) /\ Linked(m) = Linked(l) \union {h} /\ m.Cycles = [l.Cycles EXCEPT ![h] = c]
  BY RescheduleGood
<1>2. l.Active \in [Ids -> BOOLEAN] /\ m.Active \in [Ids -> BOOLEAN] /\ l.Cycles \in [Ids -> Nat]
  BY <1>1, GoodFields
<1>3. e \in Ids /\ (m.Active[e] <=> l.Active[e] \/ e = h)
  BY <1>1, <1>2 DEF Linked, Real
<1> QED
  BY <1>1, <1>2, <1>3

(* What unlinking h changes, event by event. *)
LEMMA UnlinkEach ==
  ASSUME NEW l, Good(l), NEW h \in Real, NEW m, Good(m),
         Linked(m) = Linked(l) \ {h}, m.Cycles = l.Cycles, NEW e \in Real
  PROVE  /\ m.Active[e] <=> l.Active[e] /\ e # h
         /\ m.Cycles[e] = l.Cycles[e]
<1>1. l.Active \in [Ids -> BOOLEAN] /\ m.Active \in [Ids -> BOOLEAN]
  BY GoodFields
<1> QED
  BY <1>1 DEF Linked, Real

(* A change of the list by a device, which schedules only what is ahead.   *)
LEMMA DeviceCalls ==
  ASSUME IInv, Devices, NEW e \in Real
  PROVE  Immediate' = Immediate /\ CallsLeft(e)' <= CallsLeft(e)
<1> USE IdsAssumption, TimeAssumption
<1>1. Good(list) /\ Immediate \in Nat /\ list.Cycles[e] \in Nat
  <2>1. Good(list)
    BY DEF IInv, TypeOK, ListOK, Good
  <2> QED
    BY <2>1, GoodFields DEF IInv, TypeOK, Immediate, Real
<1>2. Immediate' = Immediate /\ phase' = phase /\ running' = running
  BY DEF Devices, CycInt_Reset, CycInt_AddRelativeInterrupt, CycInt_RemovePendingInterrupt,
     CycInt_ModifyInterrupt, ControlUnchanged, Immediate
<1>3. CallsLeft(e) \in 0..2
  BY DEF CallsLeft
<1>4. phase = "body" => running \notin Timers
  BY DEF Devices, CycInt_Reset, CycInt_AddRelativeInterrupt, CycInt_RemovePendingInterrupt,
     CycInt_ModifyInterrupt, DevicesRun
<1>5. CASE CycInt_Reset
  <2>1. ~list'.Active[e]
    BY <1>5 DEF CycInt_Reset, EmptyList, Real
  <2> QED
    BY <1>2, <1>3, <1>4, <2>1 DEF CallsLeft
<1>6. ASSUME NEW h \in Real, NEW c, Representable(c), c > Immediate,
             list' = Reschedule(list, h, c)
      PROVE  CallsLeft(e)' <= CallsLeft(e)
  <2>1. /\ list'.Active[e] <=> list.Active[e] \/ e = h
        /\ list'.Cycles[e] = IF e = h THEN c ELSE list.Cycles[e]
    BY <1>1, <1>6, RescheduleEach
  <2>2. c \in Nat
    BY <1>6 DEF Representable
  <2>3. CASE e = h
    BY <1>1, <1>2, <1>3, <1>4, <1>6, <2>1, <2>2, <2>3 DEF CallsLeft
  <2>4. CASE e # h
    BY <1>1, <1>2, <1>3, <1>4, <2>1, <2>4 DEF CallsLeft
  <2> QED
    BY <2>3, <2>4
<1>7. ASSUME NEW h \in Real, CycInt_RemovePendingInterrupt(h)
      PROVE  CallsLeft(e)' <= CallsLeft(e)
  <2>1. list' = RemovePending(list, h)
    BY <1>7 DEF CycInt_RemovePendingInterrupt
  <2>2. Good(list') /\ Linked(list') = Linked(list) \ {h} /\ list'.Cycles = list.Cycles
    BY <1>1, <2>1, RemovePendingGood
  <2>3. /\ list'.Active[e] <=> list.Active[e] /\ e # h
        /\ list'.Cycles[e] = list.Cycles[e]
    BY <1>1, <2>2, UnlinkEach
  <2> QED
    BY <1>1, <1>2, <1>3, <1>4, <2>3 DEF CallsLeft
<1>8. ASSUME NEW h \in Real, NEW d \in Delays, CycInt_AddRelativeInterrupt(h, d)
      PROVE  CallsLeft(e)' <= CallsLeft(e)
  BY <1>1, <1>6, <1>8 DEF CycInt_AddRelativeInterrupt
<1>9. ASSUME NEW d \in Shifts, CycInt_ModifyInterrupt(d)
      PROVE  CallsLeft(e)' <= CallsLeft(e)
  <2> DEFINE c == list.Cycles[VBL] + d
  <2>1. Representable(c) /\ c > clock + currcycle /\ list' = Reschedule(list, VBL, c)
    BY <1>9 DEF CycInt_ModifyInterrupt
  <2>2. c > Immediate
    <3>1. clock \in Nat /\ currcycle \in Nat /\ c \in Nat
      BY <2>1 DEF IInv, TypeOK, Representable
    <3> QED
      BY <2>1, <3>1 DEF Immediate
  <2> HIDE DEF c
  <2> QED
    BY <1>6, <2>1, <2>2 DEF Real
<1> QED
  BY <1>2, <1>5, <1>7, <1>8, <1>9 DEF Devices

(* The restart of a timer: at most one call at once, and only for one that *)
(* ran late. *)
LEMMA RestartCalls ==
  ASSUME IInv, NEW p \in Periods, RestartTimer(p), NEW e \in Real
  PROVE  CallsLeft(e)' <= CallsLeft(e)
<1> DEFINE x == -delayed
           over == IF x > p THEN x % p ELSE x
           c == Immediate + p - over
<1>1. Good(list) /\ Immediate \in Nat /\ x \in Nat /\ p \in Nat \ {0} /\ delayed \in Int
  BY TimeAssumption DEF IInv, TypeOK, ListOK, Good, Immediate
<1>2. /\ Representable(c) /\ list' = Reschedule(list, running, c)
      /\ running \in Real /\ running \in Timers /\ ~list.Active[running]
      /\ phase = "body" /\ phase' = phase /\ running' = running /\ Immediate' = Immediate
  BY <1>1, IdsAssumption DEF RestartTimer, RestartTimerAt, Real, IInv, TypeOK, ControlUnchanged, Immediate
<1>3. over \in 0..p
  BY <1>1, RestartOffset
<1>4. c \in Nat /\ c >= Immediate /\ (delayed = 0 => c > Immediate)
  BY <1>1, <1>3
<1> HIDE DEF c, over
<1>5. /\ list'.Active[e] <=> list.Active[e] \/ e = running
      /\ list'.Cycles[e] = IF e = running THEN c ELSE list.Cycles[e]
  BY <1>1, <1>2, RescheduleEach
<1>6. list.Cycles[e] \in Nat
  BY <1>1, GoodFields DEF Real
<1>7. CASE e = running
  BY <1>1, <1>2, <1>4, <1>5, <1>7 DEF CallsLeft
<1>8. CASE e # running
  BY <1>1, <1>2, <1>5, <1>6, <1>8 DEF CallsLeft
<1> QED
  BY <1>7, <1>8

(* The acknowledge uses up one call of its handler and none of another. *)
LEMMA AcknowledgeCalls ==
  ASSUME IInv, DueKnown, CycInt_AcknowledgeInterrupt, NEW e \in Real
  PROVE  /\ CallsLeft(e)' <= CallsLeft(e)
         /\ running = e => CallsLeft(e)' < CallsLeft(e)
<1>1. Good(list) /\ Immediate \in Nat /\ delayed \in Int /\ delayed <= 0
  BY TimeAssumption DEF IInv, TypeOK, ListOK, Good, Immediate
<1>2. /\ running = list.ActiveInt /\ running # INTERRUPT_NULL
      /\ list' = RemoveHead(list) /\ list.Cycles[running] = Immediate + delayed
      /\ phase = "called" /\ phase' = "body" /\ running' = running
      /\ delayed' = delayed /\ Immediate' = Immediate
  BY DEF CycInt_AcknowledgeInterrupt, IInv, CalledIsHead, DueKnown, Immediate
<1>3. running \in Real /\ list.Active[running]
  BY <1>1, <1>2, GoodFields DEF Real, Linked
<1>4. Good(list') /\ Linked(list') = Linked(list) \ {running} /\ list'.Cycles = list.Cycles
  BY <1>1, <1>2, RemoveHeadGood
<1>5. /\ list'.Active[e] <=> list.Active[e] /\ e # running
      /\ list'.Cycles[e] = list.Cycles[e]
  BY <1>1, <1>3, <1>4, UnlinkEach
<1>6. list.Cycles[e] \in Nat
  BY <1>1, GoodFields DEF Real
<1>7. CASE e = running
  BY <1>1, <1>2, <1>3, <1>5, <1>7 DEF CallsLeft
<1>8. CASE e # running
  BY <1>1, <1>2, <1>5, <1>6, <1>8 DEF CallsLeft
<1> QED
  BY <1>7, <1>8

(* What a step does to the calls that are left, of each handler.           *)
CallsStep ==
  \A e \in Real :
    /\ Immediate' = Immediate => CallsLeft(e)' <= CallsLeft(e)
    /\ CycInt_AcknowledgeInterrupt /\ running = e => CallsLeft(e)' < CallsLeft(e)

LEMMA NextCalls == IInv /\ DueKnown /\ [Next]_vars => CallsStep
<1> SUFFICES ASSUME IInv, DueKnown, [Next]_vars, NEW e \in Real
             PROVE  /\ Immediate' = Immediate => CallsLeft(e)' <= CallsLeft(e)
                    /\ CycInt_AcknowledgeInterrupt /\ running = e => CallsLeft(e)' < CallsLeft(e)
  BY DEF CallsStep
<1>1. CASE CycInt_AcknowledgeInterrupt
  BY <1>1, AcknowledgeCalls
<1>2. CASE ~CycInt_AcknowledgeInterrupt
  <2> SUFFICES ASSUME Immediate' = Immediate
               PROVE  CallsLeft(e)' <= CallsLeft(e)
    BY <1>2
  <2>1. CallsLeft(e) \in 0..2
    BY DEF CallsLeft
  <2>2. CASE Devices
    BY <2>2, DeviceCalls
  <2>3. ASSUME NEW p \in Periods, RestartTimer(p)
        PROVE  CallsLeft(e)' <= CallsLeft(e)
    BY <2>3, RestartCalls
  <2>4. CASE Processor \/ CycInt_CallActiveHandler \/ HandlerReturns \/ LoopEnds
    <3>1. list' = list
      BY <2>4 DEF Processor, Execute, EndInstruction, MFP_UpdateTimers,
         CycInt_CallActiveHandler, HandlerReturns, LoopEnds
    <3>2. ~(phase' = "body" /\ running' = e /\ e \in Timers)
      <4>1. CASE LoopEnds
        BY <4>1, IdsAssumption DEF LoopEnds
      <4>2. CASE Processor \/ CycInt_CallActiveHandler \/ HandlerReturns
        BY <4>2 DEF Processor, Execute, EndInstruction, MFP_UpdateTimers,
           CycInt_CallActiveHandler, HandlerReturns
      <4> QED
        BY <2>4, <4>1, <4>2
    <3> QED
      BY <2>1, <3>1, <3>2 DEF CallsLeft
  <2>5. ASSUME NEW d \in 1..MaxPass, Blitter_FlushCycles(d)
        PROVE  CallsLeft(e)' <= CallsLeft(e)
    BY <2>1, <2>5 DEF Blitter_FlushCycles, CallsLeft
  <2>6. CASE UNCHANGED vars
    BY <2>1, <2>6 DEF vars, CallsLeft
  <2> QED
    BY <1>2, <2>2, <2>3, <2>4, <2>5, <2>6 DEF Next, Loop
<1> QED
  BY <1>1, <1>2

(* A handler is called at most twice while no time passes, however many    *)
(* interrupts and periods there are and whatever the handlers schedule     *)
(* (cycInt.c, CycInt_Process; mfp.c, MFP_StartTimer_AB and _CD): a loop    *)
(* that goes on for ever would have to go on for infinitely many of them.  *)
THEOREM CallsBoundedCorrect == Spec => CallsBounded
<1>1. Init => DueKnown
  BY DEF Init, DueKnown
<1>2. IInv /\ DueKnown /\ [Next]_vars =>
        [\A e \in Real :
           /\ Immediate' = Immediate => CallsLeft(e)' <= CallsLeft(e)
           /\ CycInt_AcknowledgeInterrupt /\ running = e => CallsLeft(e)' < CallsLeft(e)]_vars
  BY NextCalls DEF CallsStep
<1> QED
  BY <1>1, <1>2, InitInv, NextInv, NextDueKnown, PTL DEF Spec, CallsBounded

-----------------------------------------------------------------------------
(* The due time EventQueue sees, when no acknowledge is awaited. *)
DueIn(l) == [e \in Real |-> IF l.Active[e] THEN l.Cycles[e] ELSE Nil]

(* Rescheduling h changes what EventQueue sees of h only. *)
LEMMA RescheduleDue ==
  ASSUME NEW l, Good(l), NEW h \in Real, NEW c, Representable(c)
  PROVE  DueIn(Reschedule(l, h, c)) = [DueIn(l) EXCEPT ![h] = c]
<1> DEFINE m == Reschedule(l, h, c)
<1>1. Good(m) /\ Linked(m) = Linked(l) \union {h} /\ m.Cycles = [l.Cycles EXCEPT ![h] = c]
  BY RescheduleGood
<1>2. l.Active \in [Ids -> BOOLEAN] /\ m.Active \in [Ids -> BOOLEAN] /\ l.Cycles \in [Ids -> Nat]
  BY <1>1, GoodFields
<1> HIDE DEF m
<1>3. ASSUME NEW e \in Real
      PROVE  DueIn(m)[e] = [DueIn(l) EXCEPT ![h] = c][e]
  <2>1. e \in Ids /\ (m.Active[e] <=> l.Active[e] \/ e = h)
    BY <1>1, <1>2 DEF Linked, Real
  <2>2. CASE e = h
    BY <1>1, <1>2, <2>1, <2>2 DEF DueIn
  <2>3. CASE e # h
    BY <1>1, <1>2, <2>1, <2>3 DEF DueIn
  <2> QED
    BY <2>2, <2>3
<1> QED
  BY <1>3 DEF DueIn, m

(* Unlinking h makes it no longer due and changes nothing else. *)
LEMMA UnlinkDue ==
  ASSUME NEW l, Good(l), NEW m, Good(m), NEW h \in Real,
         Linked(m) = Linked(l) \ {h}, m.Cycles = l.Cycles
  PROVE  DueIn(m) = [DueIn(l) EXCEPT ![h] = Nil]
<1>1. l.Active \in [Ids -> BOOLEAN] /\ m.Active \in [Ids -> BOOLEAN]
  BY GoodFields
<1>2. ASSUME NEW e \in Real
      PROVE  DueIn(m)[e] = [DueIn(l) EXCEPT ![h] = Nil][e]
  <2>1. e \in Ids /\ (m.Active[e] <=> l.Active[e] /\ e # h)
    BY <1>1 DEF Linked, Real
  <2> QED
    BY <2>1 DEF DueIn
<1> QED
  BY <1>2 DEF DueIn

(* The scheduler starts as an empty queue. *)
LEMMA InitQueue == Init => Queue!Init
<1> SUFFICES ASSUME Init PROVE Queue!Init
  OBVIOUS
<1>1. \A e \in Real : Due(e) = Nil
  BY DEF Init, EmptyList, Due, Real
<1>2. Immediate = 0 /\ running = INTERRUPT_NULL /\ blit = FALSE
  BY DEF Init, Immediate
<1> QED
  BY <1>1, <1>2 DEF Queue!Init

(* Every step of the scheduler is a step of the queue, or leaves it as it is. *)
LEMMA NextQueue == IInv /\ IInv' /\ [Next]_vars => [Queue!Next]_(Queue!vars)
<1> SUFFICES ASSUME IInv, IInv', [Next]_vars PROVE [Queue!Next]_(Queue!vars)
  OBVIOUS
<1> USE IdsAssumption, TimeAssumption
<1> DEFINE due == [e \in Real |-> Due(e)]
           susp == IF blit THEN Blitter ELSE INTERRUPT_NULL
<1>1. Good(list) /\ Good(list)'
  BY DEF IInv, TypeOK, ListOK, Good
<1>2. /\ Immediate \in Nat /\ Immediate' \in Nat
      /\ phase # "called" => due = DueIn(list)
      /\ phase' # "called" => due' = DueIn(list')
  <2>1. Immediate \in Nat /\ Immediate' \in Nat
    <3>1. clock \in Nat /\ currcycle \in Nat /\ clock' \in Nat /\ currcycle' \in Nat
      BY DEF IInv, TypeOK
    <3>2. Immediate \in Nat
      BY <3>1 DEF Immediate
    <3>3. Immediate' \in Nat
      <4>1. clock' \in Nat /\ currcycle' \in Nat
        BY <3>1
      <4>2. \A x, y \in Nat : x + y \in Nat
        OBVIOUS
      <4>3. clock' + currcycle' \in Nat
        BY <4>1, <4>2
      <4> QED
        BY <4>1, <4>3 DEF Immediate
    <3> QED
      BY <3>2, <3>3
  <2>2. phase # "called" => due = DueIn(list)
    BY DEF Due, DueIn
  <2>3. phase' # "called" => due' = DueIn(list')
    BY DEF Due, DueIn
  <2> QED
    BY <2>1, <2>2, <2>3
<1>3. CASE CycInt_Reset
  <2>1. phase # "called" /\ phase' # "called" /\ running' = running /\ susp' = susp
        /\ Immediate' = Immediate /\ list' = EmptyList
    BY <1>3 DEF CycInt_Reset, ControlUnchanged, Immediate
  <2>2. DueIn(EmptyList) = [e \in Real |-> Nil]
    BY DEF DueIn, EmptyList, Real
  <2> QED
    BY <1>2, <2>1, <2>2 DEF Queue!CancelAll, Queue!Next
<1>17. ASSUME NEW h \in Real, NEW c, Representable(c), list' = Reschedule(list, h, c),
              phase # "called", ControlUnchanged
       PROVE  Queue!Next
  <2>1. running' = running /\ susp' = susp /\ Immediate' = Immediate /\ phase' = phase
    BY <1>17 DEF ControlUnchanged, Immediate
  <2>2. due = DueIn(list) /\ due' = DueIn(list')
    BY <1>2, <1>17, <2>1
  <2>3. DueIn(list') = [DueIn(list) EXCEPT ![h] = c]
    BY <1>1, <1>17, RescheduleDue
  <2>4. c \in Int
    BY <1>17 DEF Representable
  <2>5. DueIn(list')[h] = c
    BY <2>3 DEF DueIn
  <2>6. Queue!Schedule(h)
    BY <2>1, <2>2, <2>3, <2>4, <2>5 DEF Queue!Schedule
  <2> QED
    BY <2>6 DEF Queue!Next
<1>4. ASSUME NEW h \in Real, NEW d \in Delays, CycInt_AddRelativeInterrupt(h, d)
      PROVE  Queue!Next
  BY <1>4, <1>17 DEF CycInt_AddRelativeInterrupt, DevicesRun
<1>5. ASSUME NEW h \in Real, CycInt_RemovePendingInterrupt(h)
      PROVE  Queue!Next
  <2>1. running' = running /\ susp' = susp /\ Immediate' = Immediate /\ phase' = phase
        /\ phase # "called" /\ list' = RemovePending(list, h)
    BY <1>5 DEF CycInt_RemovePendingInterrupt, DevicesRun, ControlUnchanged, Immediate
  <2>2. due = DueIn(list) /\ due' = DueIn(list')
    BY <1>2, <2>1
  <2>3. DueIn(list') = [DueIn(list) EXCEPT ![h] = Nil]
    BY <1>1, <2>1, RemovePendingGood, UnlinkDue
  <2>4. Queue!Cancel(h)
    BY <2>1, <2>2, <2>3 DEF Queue!Cancel
  <2> QED
    BY <2>4 DEF Queue!Next
<1>6. ASSUME NEW d \in Shifts, CycInt_ModifyInterrupt(d)
      PROVE  Queue!Next
  <2>1. VBL \in Real
    BY DEF Real
  <2> QED
    BY <1>6, <1>17, <2>1 DEF CycInt_ModifyInterrupt
<1>7. ASSUME NEW d \in 1..MaxInstr, Execute(d)
      PROVE  Queue!Tick
  <2>1. due' = due /\ running' = running /\ susp' = susp /\ Immediate' >= Immediate
    BY <1>7 DEF Execute, Due, Immediate, IInv, TypeOK
  <2> QED
    BY <1>2, <2>1 DEF Queue!Tick
<1>8. CASE EndInstruction
  <2>1. due' = due /\ running' = running /\ susp' = susp /\ Immediate' >= Immediate
    BY <1>8 DEF EndInstruction, Due, Immediate, IInv, TypeOK
  <2> QED
    BY <1>2, <2>1 DEF Queue!Tick, Queue!Next
<1>9. CASE MFP_UpdateTimers
  <2>1. due' = due /\ running' = running /\ susp' = susp /\ Immediate' = Immediate
    BY <1>9 DEF MFP_UpdateTimers, Due, Immediate
  <2> QED
    BY <2>1 DEF Queue!vars
<1>10. CASE CycInt_CallActiveHandler
  <2> DEFINE a == list.ActiveInt
  <2>1. /\ phase = "loop" /\ phase' = "called" /\ running = INTERRUPT_NULL /\ running' = a
        /\ list' = list /\ susp' = susp /\ Immediate' = Immediate
        /\ list.ActiveInt_Cycles <= Immediate /\ a # INTERRUPT_NULL
    BY <1>10 DEF CycInt_CallActiveHandler, HeadIsDue, Immediate, IInv, Phased, CalledIsHead
  <2>2. a \in Real /\ list.Active[a] /\ list.ActiveInt_Cycles = list.Cycles[a]
        /\ list.Cycles[a] \in Nat
    BY <1>1, <2>1, GoodFields DEF Real, Linked
  <2>3. due = DueIn(list) /\ due[a] = list.Cycles[a]
    BY <1>2, <2>1, <2>2 DEF DueIn
  <2>4. \A e \in Real : due[e] # Nil => due[a] <= due[e]
    BY <1>1, <2>2, <2>3, HeadIsEarliest DEF DueIn, Linked, Real
  <2>5. due' = [due EXCEPT ![a] = Nil]
    BY <2>1, <2>2, <2>3 DEF Due, DueIn
  <2>6. due[a] # Nil
    BY <2>2, <2>3
  <2> HIDE DEF due, susp
  <2>7. Queue!Serve(a)
    BY <2>1, <2>2, <2>3, <2>4, <2>5, <2>6 DEF Queue!Serve, Queue!Pending, due, susp
  <2> QED
    BY <2>2, <2>7 DEF Queue!Next
<1>11. CASE CycInt_AcknowledgeInterrupt
  <2> DEFINE a == list.ActiveInt
  <2>1. /\ phase = "called" /\ phase' = "body" /\ running' = running /\ running = a
        /\ list' = RemoveHead(list) /\ susp' = susp /\ Immediate' = Immediate
        /\ a # INTERRUPT_NULL /\ a \in Real
    BY <1>11 DEF CycInt_AcknowledgeInterrupt, Immediate, IInv, CalledIsHead, TypeOK, Real
  <2>2. due' = DueIn(list') /\ DueIn(list') = [DueIn(list) EXCEPT ![a] = Nil]
    BY <1>1, <1>2, <2>1, RemoveHeadGood, UnlinkDue
  <2>3. due = [DueIn(list) EXCEPT ![a] = Nil]
    BY <2>1 DEF Due, DueIn
  <2> QED
    BY <2>1, <2>2, <2>3 DEF Queue!vars
<1>12. CASE HandlerReturns
  <2>1. due' = due /\ running' = INTERRUPT_NULL /\ running # INTERRUPT_NULL /\ susp' = susp
        /\ Immediate' = Immediate
    BY <1>12 DEF HandlerReturns, Due, Immediate, IInv, Phased
  <2> QED
    BY <2>1 DEF Queue!Finish, Queue!Next
<1>13. CASE LoopEnds
  <2>1. due' = due /\ due = DueIn(list) /\ Immediate' = Immediate /\ running = INTERRUPT_NULL
        /\ Immediate < list.ActiveInt_Cycles /\ blit' = FALSE
    BY <1>1, <1>2, <1>13, GoodFields DEF LoopEnds, HeadIsDue, Due, Immediate, IInv, Phased
  <2>2. CASE blit
    <3>1. running' = Blitter /\ susp = Blitter /\ susp' = INTERRUPT_NULL /\ Blitter # INTERRUPT_NULL
      BY <1>13, <2>1, <2>2 DEF LoopEnds
    <3>2. ASSUME NEW e \in Real, due[e] # Nil
          PROVE  due[e] > Immediate
      <4>1. e \in Linked(list) /\ due[e] = list.Cycles[e] /\ list.Cycles[e] \in Nat
        BY <1>1, <2>1, <3>2, GoodFields DEF DueIn, Linked, Real
      <4>2. list.ActiveInt_Cycles \in Nat /\ list.ActiveInt_Cycles <= list.Cycles[e]
        BY <1>1, <4>1, HeadIsEarliest, GoodFields
      <4> HIDE DEF due
      <4> QED
        BY <1>2, <2>1, <4>1, <4>2
    <3> QED
      BY <2>1, <3>1, <3>2 DEF Queue!Resume, Queue!Pending, Queue!Next
  <2>3. CASE ~blit
    <3>1. running' = running /\ susp' = susp
      BY <1>13, <2>1, <2>3 DEF LoopEnds
    <3> QED
      BY <2>1, <3>1 DEF Queue!vars
  <2> QED
    BY <2>2, <2>3
<1>14. ASSUME NEW p \in Periods, RestartTimer(p)
       PROVE  Queue!Next
  <2>1. running \in Real
    BY <1>14 DEF RestartTimer, RestartTimerAt, Real
  <2> QED
    BY <1>14, <1>17, <2>1 DEF RestartTimer, RestartTimerAt
<1>15. ASSUME NEW d \in 1..MaxPass, Blitter_FlushCycles(d)
       PROVE  Queue!Next
  <2>1. due' = due /\ running' = INTERRUPT_NULL /\ running = Blitter /\ blit = FALSE /\ blit' = TRUE
        /\ Blitter # INTERRUPT_NULL
    BY <1>15 DEF Blitter_FlushCycles, Due, IInv, TypeOK
  <2>2. Immediate' >= Immediate
    BY <1>15 DEF Blitter_FlushCycles, Immediate, IInv, TypeOK
  <2>3. susp = INTERRUPT_NULL /\ susp' = Blitter
    BY <2>1
  <2> QED
    BY <1>2, <2>1, <2>2, <2>3 DEF Queue!Suspend, Queue!Next
<1>16. CASE UNCHANGED vars
  <2>1. due' = due /\ running' = running /\ susp' = susp /\ Immediate' = Immediate
    BY <1>16 DEF vars, Due, Immediate
  <2> QED
    BY <2>1 DEF Queue!vars
<1> QED
  BY <1>3, <1>4, <1>5, <1>6, <1>7, <1>8, <1>9, <1>10, <1>11, <1>12, <1>13, <1>14, <1>15, <1>16
     DEF Next, Devices, Processor, Loop, Queue!Next

(* cycInt.c implements EventQueue: the handler that is called is that of an *)
(* earliest pending event, exactly that event is acknowledged, no event is  *)
(* lost or moved by an operation on another one, and the blitter's handler  *)
(* resumes only when no event is overdue.                                   *)
THEOREM Refinement == Spec => ImplementsQueue
<1>1. Spec => []IInv
  BY InitInv, NextInv, PTL DEF Spec
<1> QED
  BY <1>1, InitQueue, NextQueue, PTL DEF Spec, ImplementsQueue, Queue!Spec

-----------------------------------------------------------------------------
(* The horizon MFP keeps, and the timers that may repeat. *)

(* A device schedules only what is ahead, and time does not pass.          *)
LEMMA DeviceHorizon ==
  ASSUME IInv, Devices, NEW t \in 0..Immediate, \A i \in Linked(list) : t <= list.Cycles[i]
  PROVE  Immediate' = Immediate /\ \A i \in Linked(list') : t <= list'.Cycles[i]
<1> USE IdsAssumption, TimeAssumption
<1>1. Good(list) /\ Immediate \in Nat /\ Immediate < NullCycles /\ t \in Nat
  BY DEF IInv, TypeOK, ListOK, Good, Phased, Immediate
<1>2. Linked(list) \subseteq Ids /\ list.Cycles \in [Ids -> Nat]
  BY <1>1, GoodFields
<1>3. Immediate' = Immediate
  BY DEF Devices, CycInt_Reset, CycInt_AddRelativeInterrupt, CycInt_RemovePendingInterrupt,
     CycInt_ModifyInterrupt, ControlUnchanged, Immediate
<1>4. CASE CycInt_Reset
  <2>1. Linked(list') = {INTERRUPT_NULL} /\ list'.Cycles[INTERRUPT_NULL] = NullCycles
    BY <1>4 DEF CycInt_Reset, EmptyList, Linked
  <2> QED
    BY <1>1, <1>3, <2>1
<1>5. ASSUME NEW h \in Real, NEW c, Representable(c), c > Immediate,
             list' = Reschedule(list, h, c)
      PROVE  \A i \in Linked(list') : t <= list'.Cycles[i]
  <2>1. Linked(list') = Linked(list) \union {h} /\ list'.Cycles = [list.Cycles EXCEPT ![h] = c]
    BY <1>1, <1>5, RescheduleGood, Zenon
  <2>2. c \in Nat /\ t <= c
    BY <1>1, <1>5 DEF Representable
  <2> QED
    BY <1>2, <2>1, <2>2 DEF Real
<1>6. ASSUME NEW h \in Real, CycInt_RemovePendingInterrupt(h)
      PROVE  \A i \in Linked(list') : t <= list'.Cycles[i]
  <2>1. list' = RemovePending(list, h)
    BY <1>6 DEF CycInt_RemovePendingInterrupt
  <2>2. Linked(list') = Linked(list) \ {h} /\ list'.Cycles = list.Cycles
    BY <1>1, <2>1, RemovePendingGood
  <2> QED
    BY <2>2
<1>7. ASSUME NEW h \in Real, NEW d \in Delays, CycInt_AddRelativeInterrupt(h, d)
      PROVE  \A i \in Linked(list') : t <= list'.Cycles[i]
  BY <1>1, <1>5, <1>7 DEF CycInt_AddRelativeInterrupt
<1>8. ASSUME NEW d \in Shifts, CycInt_ModifyInterrupt(d)
      PROVE  \A i \in Linked(list') : t <= list'.Cycles[i]
  <2> DEFINE c == list.Cycles[VBL] + d
  <2>1. Representable(c) /\ c > clock + currcycle /\ list' = Reschedule(list, VBL, c)
    BY <1>8 DEF CycInt_ModifyInterrupt
  <2>2. c > Immediate
    <3>1. clock \in Nat /\ currcycle \in Nat /\ c \in Nat
      BY <2>1 DEF IInv, TypeOK, Representable
    <3> QED
      BY <2>1, <3>1 DEF Immediate
  <2> HIDE DEF c
  <2> QED
    BY <1>5, <2>1, <2>2 DEF Real
<1> QED
  BY <1>3, <1>4, <1>6, <1>7, <1>8 DEF Devices

(* The restart of a timer that is x cycles late: no earlier than now.      *)
LEMMA RestartHorizon ==
  ASSUME IInv, NEW p \in Periods, RestartTimer(p),
         NEW t \in 0..Immediate, \A i \in Linked(list) : t <= list.Cycles[i]
  PROVE  Immediate' = Immediate /\ \A i \in Linked(list') : t <= list'.Cycles[i]
<1> DEFINE x == -delayed
           over == IF x > p THEN x % p ELSE x
           c == Immediate + p - over
<1>1. Good(list) /\ Immediate \in Nat /\ x \in Nat /\ p \in Nat \ {0} /\ delayed \in Int
  BY TimeAssumption DEF IInv, TypeOK, ListOK, Good, Immediate
<1>2. /\ Representable(c) /\ list' = Reschedule(list, running, c)
      /\ running \in Real /\ Immediate' = Immediate
  BY <1>1, IdsAssumption DEF RestartTimer, RestartTimerAt, Real, IInv, TypeOK, ControlUnchanged, Immediate
<1>3. over \in 0..p
  BY <1>1, RestartOffset
<1>4. c \in Nat /\ t <= c
  BY <1>1, <1>3
<1> HIDE DEF c, over
<1>5. Linked(list') = Linked(list) \union {running} /\ list'.Cycles = [list.Cycles EXCEPT ![running] = c]
  BY <1>1, <1>2, RescheduleGood, Zenon
<1>6. Linked(list) \subseteq Ids /\ list.Cycles \in [Ids -> Nat]
  BY <1>1, GoodFields
<1> QED
  BY <1>2, <1>4, <1>5, <1>6 DEF Real

LEMMA NextHorizon == IInv /\ NothingBeforeHorizon /\ [HorizonNext]_<<vars, horizon>> => NothingBeforeHorizon'
<1> SUFFICES ASSUME IInv, NothingBeforeHorizon, [HorizonNext]_<<vars, horizon>>
             PROVE  NothingBeforeHorizon'
  OBVIOUS
<1> USE IdsAssumption, TimeAssumption
<1>1. /\ Good(list) /\ Immediate \in Nat /\ clock \in Nat /\ currcycle \in Nat
      /\ MaxInstr \in Nat /\ CycleExact \in BOOLEAN
      /\ horizon \in Nat /\ horizon <= Immediate
      /\ \A i \in Linked(list) : horizon <= list.Cycles[i]
  BY DEF IInv, TypeOK, ListOK, Good, Immediate, NothingBeforeHorizon
<1>2. /\ list.ActiveInt_Cycles \in Nat
      /\ \A i \in Linked(list) : list.Cycles[i] \in Nat /\ list.ActiveInt_Cycles <= list.Cycles[i]
      /\ \A i \in Linked(list) : horizon <= list.ActiveInt_Cycles
  <2>1. list.ActiveInt_Cycles \in Nat /\ list.ActiveInt \in Linked(list)
        /\ list.ActiveInt_Cycles = list.Cycles[list.ActiveInt]
    BY <1>1, GoodFields
  <2>2. \A i \in Linked(list) : list.Cycles[i] \in Nat
    BY <1>1, GoodFields
  <2>3. \A i \in Linked(list) : list.ActiveInt_Cycles <= list.Cycles[i]
    BY <1>1, <2>1, HeadIsEarliest
  <2> QED
    BY <1>1, <2>1, <2>2, <2>3
<1>3. CASE CycInt_CallActiveHandler /\ HorizonNext
  <2>1. horizon' = list.ActiveInt_Cycles /\ list' = list /\ Immediate' = Immediate
        /\ list.ActiveInt_Cycles <= Immediate
    BY <1>3 DEF HorizonNext, CycInt_CallActiveHandler, HeadIsDue, LoopEnds, Immediate
  <2> QED
    BY <1>1, <1>2, <2>1 DEF NothingBeforeHorizon
<1>4. CASE LoopEnds /\ HorizonNext
  <2>1. horizon' = Immediate /\ list' = list /\ Immediate' = Immediate
        /\ ~(list.ActiveInt_Cycles <= Immediate)
    BY <1>4 DEF HorizonNext, LoopEnds, HeadIsDue, Immediate, CycInt_CallActiveHandler
  <2> QED
    BY <1>1, <1>2, <2>1 DEF NothingBeforeHorizon
<1>5. ASSUME horizon' = horizon, [Next]_vars, ~CycInt_CallActiveHandler, ~LoopEnds
      PROVE  NothingBeforeHorizon'
  <2> SUFFICES Immediate' \in Nat /\ Immediate' >= Immediate
               /\ \A i \in Linked(list') : horizon <= list'.Cycles[i]
    BY <1>1, <1>5 DEF NothingBeforeHorizon
  <2>1. CASE Devices
    BY <1>1, <2>1, DeviceHorizon
  <2>2. ASSUME NEW p \in Periods, RestartTimer(p)
        PROVE  /\ Immediate' \in Nat /\ Immediate' >= Immediate
               /\ \A i \in Linked(list') : horizon <= list'.Cycles[i]
    BY <1>1, <2>2, RestartHorizon
  <2>3. CASE Processor
    BY <1>1, <2>3 DEF Processor, Execute, EndInstruction, MFP_UpdateTimers, Immediate
  <2>4. CASE CycInt_AcknowledgeInterrupt
    <3>1. list' = RemoveHead(list) /\ list.ActiveInt # INTERRUPT_NULL /\ Immediate' = Immediate
      BY <2>4 DEF CycInt_AcknowledgeInterrupt, IInv, CalledIsHead, Immediate
    <3>2. Linked(list') = Linked(list) \ {list.ActiveInt} /\ list'.Cycles = list.Cycles
      BY <1>1, <3>1, RemoveHeadGood
    <3> QED
      BY <1>1, <3>1, <3>2
  <2>5. CASE HandlerReturns \/ UNCHANGED vars
    BY <1>1, <2>5 DEF HandlerReturns, vars, Immediate
  <2>6. ASSUME NEW d \in 1..MaxPass, Blitter_FlushCycles(d)
        PROVE  /\ Immediate' \in Nat /\ Immediate' >= Immediate
               /\ \A i \in Linked(list') : horizon <= list'.Cycles[i]
    BY <1>1, <2>6 DEF Blitter_FlushCycles, Immediate
  <2> QED
    BY <1>5, <2>1, <2>2, <2>3, <2>4, <2>5, <2>6 DEF Next, Loop
<1>6. CASE UNCHANGED <<vars, horizon>>
  BY <1>1, <1>6 DEF vars, NothingBeforeHorizon, Immediate, Linked
<1>7. CASE HorizonNext /\ ~CycInt_CallActiveHandler /\ ~LoopEnds
  BY <1>5, <1>7 DEF HorizonNext
<1> QED
  BY <1>3, <1>4, <1>6, <1>7

(* The handlers are called in the order of their due times, whatever the   *)
(* handlers and the instructions between schedule, remove or modify        *)
(* (cycInt.c, CycInt_Process): just the due times that MFP's               *)
(* InterruptHandler_Timer allows.                                          *)
THEOREM CalledInOrderCorrect == HorizonSpec => CalledInOrder
<1>1. HorizonInit => IInv /\ NothingBeforeHorizon
  <2> SUFFICES ASSUME HorizonInit PROVE IInv /\ NothingBeforeHorizon
    OBVIOUS
  <2>1. IInv /\ horizon = 0 /\ Immediate = 0
    BY InitInv DEF HorizonInit, Init, Immediate
  <2>2. Good(list)
    BY <2>1 DEF IInv, TypeOK, ListOK, Good
  <2>3. \A i \in Linked(list) : list.Cycles[i] \in Nat
    BY <2>2, GoodFields
  <2> QED
    BY <2>1, <2>3 DEF NothingBeforeHorizon
<1>2. [HorizonNext]_<<vars, horizon>> => [Next]_vars
  BY DEF HorizonNext
<1>3. IInv /\ NothingBeforeHorizon /\ [HorizonNext]_<<vars, horizon>> =>
        [CycInt_CallActiveHandler => list.ActiveInt_Cycles \in horizon..Immediate]_<<vars, horizon>>
  <2> SUFFICES ASSUME IInv, NothingBeforeHorizon, CycInt_CallActiveHandler
               PROVE  list.ActiveInt_Cycles \in horizon..Immediate
    OBVIOUS
  <2>1. Good(list)
    BY DEF IInv, TypeOK, ListOK, Good
  <2>2. list.ActiveInt_Cycles \in Nat /\ list.ActiveInt \in Linked(list)
        /\ list.ActiveInt_Cycles = list.Cycles[list.ActiveInt]
    BY <2>1, GoodFields
  <2>3. horizon \in Nat /\ Immediate \in Nat /\ horizon <= list.Cycles[list.ActiveInt]
        /\ list.ActiveInt_Cycles <= Immediate
    BY <2>2 DEF NothingBeforeHorizon, CycInt_CallActiveHandler, HeadIsDue, IInv, TypeOK, Immediate
  <2> QED
    BY <2>2, <2>3
<1> QED
  BY <1>1, <1>2, <1>3, NextInv, NextHorizon, PTL DEF HorizonSpec, CalledInOrder

(* Only a timer of a short period can be due a second time before the      *)
(* processor goes on or the blitter makes a pass, and only when it ran     *)
(* just one period late (mfp.c, MFP_StartTimer_AB and _CD): MFP's          *)
(* assumption on the channels that have two inputs before an update.       *)
THEOREM OnlyFastTimersRepeatCorrect == Spec => OnlyFastTimersRepeat
<1>1. IInv /\ [Next]_vars =>
        [\A p \in Periods :
           RestartTimer(p) /\ list'.Cycles[running] = Immediate
             => delayed = -p /\ p < MaxInstr + MaxPass]_vars
  <2> SUFFICES ASSUME IInv, NEW p \in Periods, RestartTimer(p), list'.Cycles[running] = Immediate
               PROVE  delayed = -p /\ p < MaxInstr + MaxPass
    OBVIOUS
  <2> DEFINE x == -delayed
             over == IF x > p THEN x % p ELSE x
             c == Immediate + p - over
  <2>1. Good(list) /\ Immediate \in Nat /\ x \in Nat /\ p \in Nat \ {0} /\ delayed \in Int
        /\ x < MaxInstr + MaxPass
    BY TimeAssumption DEF IInv, TypeOK, ListOK, Good, Immediate, LatenessBounded, RestartTimer, RestartTimerAt
  <2>2. Representable(c) /\ list' = Reschedule(list, running, c) /\ running \in Real
    BY <2>1, IdsAssumption DEF RestartTimer, RestartTimerAt, Real, IInv, TypeOK
  <2>3. over \in Nat /\ (x > p => over < p) /\ (~(x > p) => over = x)
    <3>1. x % p \in 0..(p - 1)
      BY <2>1
    <3> QED
      BY <2>1, <3>1
  <2> HIDE DEF over
  <2>4. c = Immediate
    <3> HIDE DEF c
    <3>1. list'.Cycles = [list.Cycles EXCEPT ![running] = c]
      BY <2>1, <2>2, RescheduleGood, Zenon
    <3> QED
      BY <2>1, <2>2, <3>1, GoodFields DEF Real
  <2>5. over = p
    BY <2>1, <2>3, <2>4
  <2> QED
    BY <2>1, <2>3, <2>5, TimeAssumption
<1> QED
  BY <1>1, InitInv, NextInv, PTL DEF Spec, OnlyFastTimersRepeat

-----------------------------------------------------------------------------
(* The loop ends.                                                          *)

(* The loop can take its next step whenever the processor does not run.    *)
LoopAble == phase # "cpu" => ENABLED <<Loop>>_vars

(* What can be used up: the time up to the bound of the model, and at a    *)
(* given time the calls that are left, of handlers called once or twice.   *)
TimeLeft == MaxClock - Immediate

CalledOnce == {e \in Real : CallsLeft(e) >= 1}
CalledTwice == {e \in Real : CallsLeft(e) = 2}
AllCallsLeft == Cardinality(CalledOnce) + Cardinality(CalledTwice)

TimePasses == TimeLeft' < TimeLeft
TimeReturns == TimeLeft' > TimeLeft
CallUsed == AllCallsLeft' < AllCallsLeft
CallAdded == AllCallsLeft' > AllCallsLeft

(* A natural number does not fall infinitely often unless it rises         *)
(* infinitely often: a law of the natural numbers, whatever the behaviour, *)
(* that takes an induction over time.                                      *)
NoInfiniteDescent ==
  /\ []<><<TimePasses>>_vars => []<><<TimeReturns>>_vars
  /\ []<><<CallUsed>>_vars => []<><<CallAdded>>_vars

(* Only finitely many interrupts are active: each step adds one at most.   *)
ListFinite == IsFiniteSet(Linked(list))

LEMMA ListGrows ==
  ASSUME IInv, [Next]_vars
  PROVE  \E x : Linked(list') \subseteq Linked(list) \union {x}
<1> USE IdsAssumption
<1>1. Good(list)
  BY DEF IInv, TypeOK, ListOK, Good
<1>2. ASSUME NEW h \in Real, NEW c, Representable(c), list' = Reschedule(list, h, c)
      PROVE  Linked(list') \subseteq Linked(list) \union {h}
  <2>1. Linked(list') = Linked(list) \union {h}
    BY <1>1, <1>2, RescheduleGood, Zenon
  <2> QED
    BY <2>1
<1>3. CASE CycInt_Reset
  <2>1. Linked(list') = {INTERRUPT_NULL}
    BY <1>3 DEF CycInt_Reset, EmptyList, Linked
  <2> QED
    BY <2>1
<1>4. ASSUME NEW h \in Real, NEW d \in Delays, CycInt_AddRelativeInterrupt(h, d)
      PROVE  \E x : Linked(list') \subseteq Linked(list) \union {x}
  BY <1>2, <1>4 DEF CycInt_AddRelativeInterrupt
<1>5. ASSUME NEW h \in Real, CycInt_RemovePendingInterrupt(h)
      PROVE  \E x : Linked(list') \subseteq Linked(list) \union {x}
  <2>1. list' = RemovePending(list, h)
    BY <1>5 DEF CycInt_RemovePendingInterrupt
  <2>2. Linked(list') = Linked(list) \ {h}
    BY <1>1, <2>1, RemovePendingGood
  <2> QED
    BY <2>2
<1>6. ASSUME NEW d \in Shifts, CycInt_ModifyInterrupt(d)
      PROVE  \E x : Linked(list') \subseteq Linked(list) \union {x}
  BY <1>2, <1>6 DEF CycInt_ModifyInterrupt, Real
<1>7. ASSUME NEW p \in Periods, RestartTimer(p)
      PROVE  \E x : Linked(list') \subseteq Linked(list) \union {x}
  BY <1>2, <1>7 DEF RestartTimer, RestartTimerAt, Real
<1>8. CASE CycInt_AcknowledgeInterrupt
  <2>1. list' = RemoveHead(list) /\ list.ActiveInt # INTERRUPT_NULL
    BY <1>8 DEF CycInt_AcknowledgeInterrupt, IInv, CalledIsHead
  <2>2. Linked(list') = Linked(list) \ {list.ActiveInt}
    BY <1>1, <2>1, RemoveHeadGood
  <2> QED
    BY <2>2
<1>9. CASE UNCHANGED list
  BY <1>9
<1> QED
  BY <1>3, <1>4, <1>5, <1>6, <1>7, <1>8, <1>9 DEF Next, Devices, Processor, Loop, Execute,
     EndInstruction, MFP_UpdateTimers, CycInt_CallActiveHandler, HandlerReturns, LoopEnds,
     Blitter_FlushCycles, vars

LEMMA ListIsFinite == Spec => []ListFinite
<1>1. Init => ListFinite
  <2> SUFFICES ASSUME Init PROVE ListFinite
    OBVIOUS
  <2>1. Linked(list) = {INTERRUPT_NULL}
    BY IdsAssumption DEF Init, EmptyList, Linked
  <2> QED
    BY <2>1, FS_Singleton DEF ListFinite
<1>2. IInv /\ ListFinite /\ [Next]_vars => ListFinite'
  <2> SUFFICES ASSUME IInv, ListFinite, [Next]_vars PROVE ListFinite'
    OBVIOUS
  <2>1. PICK x : Linked(list') \subseteq Linked(list) \union {x}
    BY ListGrows
  <2>2. IsFiniteSet(Linked(list) \union {x})
    BY FS_AddElement DEF ListFinite
  <2>3. IsFiniteSet(Linked(list'))
    BY <2>1, <2>2, FS_Subset
  <2> QED
    BY <2>3 DEF ListFinite, Linked
<1> QED
  BY <1>1, <1>2, InitInv, NextInv, PTL DEF Spec

(* Both quantities are natural numbers.                                    *)
LoopBounded ==
  /\ TimeLeft \in Nat
  /\ IsFiniteSet(CalledOnce) /\ IsFiniteSet(CalledTwice) /\ AllCallsLeft \in Nat

LEMMA QuantitiesAreNat == IInv /\ ListFinite => LoopBounded
<1> SUFFICES ASSUME IInv, ListFinite PROVE LoopBounded
  OBVIOUS
<1>1. TimeLeft \in Nat
  BY TimeAssumption DEF IInv, TypeOK, Phased, Immediate, TimeLeft
<1>2. IsFiniteSet(Linked(list) \union {running})
  BY FS_AddElement DEF ListFinite
<1>3. CalledOnce \subseteq Linked(list) \union {running} /\ CalledTwice \subseteq CalledOnce
  BY DEF CalledOnce, CalledTwice, CallsLeft, Linked, Real
<1>4. IsFiniteSet(CalledOnce)
  BY <1>2, <1>3, FS_Subset
<1>5. IsFiniteSet(CalledTwice)
  BY <1>3, <1>4, FS_Subset
<1>6. AllCallsLeft \in Nat
  BY <1>4, <1>5, FS_CardinalityType DEF AllCallsLeft
<1> QED
  BY <1>1, <1>4, <1>5, <1>6 DEF LoopBounded

(* Time never runs backwards.                                              *)
LEMMA TimeGoesOn ==
  ASSUME IInv, [Next]_vars
  PROVE  Immediate \in Nat /\ Immediate' \in Nat /\ Immediate' >= Immediate
<1>1. clock \in Nat /\ currcycle \in Nat /\ MaxInstr \in Nat /\ MaxPass \in Nat /\ CycleExact \in BOOLEAN
  BY TimeAssumption DEF IInv, TypeOK
<1>2. CASE UNCHANGED <<clock, currcycle>>
  BY <1>1, <1>2 DEF Immediate
<1>3. ASSUME NEW d \in 1..MaxInstr, Execute(d)
      PROVE  Immediate' \in Nat /\ Immediate' >= Immediate
  BY <1>1, <1>3 DEF Execute, Immediate
<1>4. CASE EndInstruction
  BY <1>1, <1>4 DEF EndInstruction, Immediate
<1>5. ASSUME NEW d \in 1..MaxPass, Blitter_FlushCycles(d)
      PROVE  Immediate' \in Nat /\ Immediate' >= Immediate
  BY <1>1, <1>5 DEF Blitter_FlushCycles, Immediate
<1>6. CASE Devices
  BY <1>2, <1>6 DEF Devices, CycInt_Reset, CycInt_AddRelativeInterrupt, CycInt_RemovePendingInterrupt,
     CycInt_ModifyInterrupt, ControlUnchanged
<1>7. CASE Loop \/ MFP_UpdateTimers \/ UNCHANGED vars
  BY <1>2, <1>7 DEF Loop, CycInt_CallActiveHandler, CycInt_AcknowledgeInterrupt, HandlerReturns, LoopEnds,
     MFP_UpdateTimers, vars
<1>8. ASSUME NEW p \in Periods, RestartTimer(p)
      PROVE  UNCHANGED <<clock, currcycle>>
  BY <1>8 DEF RestartTimer, RestartTimerAt, ControlUnchanged
<1>9. Immediate \in Nat
  BY <1>1 DEF Immediate
<1> QED
  BY <1>2, <1>3, <1>4, <1>5, <1>6, <1>7, <1>8, <1>9 DEF Next, Processor

(* While time stands still no call is added, and an acknowledge uses one.  *)
LEMMA CallsGoDown ==
  ASSUME IInv, DueKnown, LoopBounded, LoopBounded', [Next]_vars, Immediate' = Immediate
  PROVE  ~CallAdded /\ (CycInt_AcknowledgeInterrupt => CallUsed)
<1>1. \A e \in Real : CallsLeft(e) \in 0..2 /\ CallsLeft(e)' \in 0..2 /\ CallsLeft(e)' <= CallsLeft(e)
  <2>1. \A e \in Real : CallsLeft(e)' <= CallsLeft(e)
    BY NextCalls DEF CallsStep
  <2>2. \A e \in Real : CallsLeft(e) \in 0..2
    BY DEF CallsLeft
  <2>3. \A e \in Real : CallsLeft(e)' \in 0..2
    BY DEF CallsLeft
  <2> QED
    BY <2>1, <2>2, <2>3
<1>2. CalledOnce' \subseteq CalledOnce /\ CalledTwice' \subseteq CalledTwice
  BY <1>1 DEF CalledOnce, CalledTwice
<1>3. /\ IsFiniteSet(CalledOnce) /\ IsFiniteSet(CalledTwice)
      /\ Cardinality(CalledOnce) \in Nat /\ Cardinality(CalledTwice) \in Nat
      /\ Cardinality(CalledOnce') \in Nat /\ Cardinality(CalledTwice') \in Nat
  BY FS_CardinalityType DEF LoopBounded
<1>4. /\ Cardinality(CalledOnce') <= Cardinality(CalledOnce)
      /\ Cardinality(CalledOnce') = Cardinality(CalledOnce) => CalledOnce' = CalledOnce
  BY <1>2, <1>3, FS_Subset
<1>5. /\ Cardinality(CalledTwice') <= Cardinality(CalledTwice)
      /\ Cardinality(CalledTwice') = Cardinality(CalledTwice) => CalledTwice' = CalledTwice
  BY <1>2, <1>3, FS_Subset
<1>6. AllCallsLeft' = Cardinality(CalledOnce') + Cardinality(CalledTwice')
  BY DEF AllCallsLeft
<1>7. ~CallAdded
  BY <1>3, <1>4, <1>5, <1>6 DEF CallAdded, AllCallsLeft
<1>8. ASSUME CycInt_AcknowledgeInterrupt
      PROVE  CallUsed
  <2>1. running \in Real
    BY <1>8, IdsAssumption DEF CycInt_AcknowledgeInterrupt, IInv, TypeOK, CalledIsHead, Real
  <2>2. PICK e \in Real : running = e
    BY <2>1
  <2>3. CallsLeft(e)' < CallsLeft(e) /\ CallsLeft(e) \in 0..2 /\ CallsLeft(e)' \in 0..2
    BY <1>1, <1>8, <2>2, NextCalls DEF CallsStep
  <2>4. CASE CallsLeft(e) = 2
    <3>1. e \in CalledTwice /\ e \notin CalledTwice'
      BY <2>3, <2>4 DEF CalledTwice
    <3> QED
      BY <1>3, <1>4, <1>5, <1>6, <3>1 DEF CallUsed, AllCallsLeft
  <2>5. CASE CallsLeft(e) = 1
    <3>1. e \in CalledOnce /\ e \notin CalledOnce'
      BY <2>3, <2>5 DEF CalledOnce
    <3> QED
      BY <1>3, <1>4, <1>5, <1>6, <3>1 DEF CallUsed, AllCallsLeft
  <2> QED
    BY <2>3, <2>4, <2>5
<1> QED
  BY <1>7, <1>8

(* Where the control is, and whether a pass of the blitter was left.       *)
Idle == phase = "cpu"
Looking == phase = "loop"
Calling == phase = "called"
Handling == phase = "body"
Nested == blit = TRUE

(* What a step that uses up neither time nor a call can do in the loop.    *)
InLoop ==
  \/ /\ (Idle' <=> Idle) /\ (Looking' <=> Looking) /\ (Calling' <=> Calling)
     /\ (Handling' <=> Handling) /\ (Nested' <=> Nested)
     /\ ~<<Loop>>_vars
  \/ Handling /\ Looking' /\ (Nested' <=> Nested)
  \/ Looking /\ Calling' /\ (Nested' <=> Nested)
  \/ Looking /\ Handling' /\ Nested /\ ~Nested'

OneControl ==
  /\ Idle \/ Looking \/ Calling \/ Handling
  /\ Idle => ~Looking /\ ~Calling /\ ~Handling
  /\ Looking => ~Calling /\ ~Handling
  /\ Calling => ~Handling

LEMMA ControlIsOne == IInv => OneControl
<1> SUFFICES ASSUME IInv PROVE OneControl
  OBVIOUS
<1>1. phase \in {"cpu", "loop", "called", "body"}
  BY DEF IInv, TypeOK, Phases
<1> QED
  BY <1>1 DEF OneControl, Idle, Looking, Calling, Handling

(* Each step of the loop uses up time or a call, or comes nearer to the    *)
(* next call or to the end of the loop.                                    *)
LEMMA LoopProgress ==
  ASSUME IInv, DueKnown, LoopBounded, LoopBounded', [Next]_vars
  PROVE  /\ ~TimeReturns
         /\ CallAdded => TimePasses
         /\ Idle \/ Idle' \/ TimePasses \/ CallUsed \/ InLoop
<1>1. /\ Immediate \in Nat /\ Immediate' \in Nat /\ Immediate' >= Immediate
      /\ MaxClock \in Nat
  BY TimeGoesOn, TimeAssumption
<1> DEFINE t == Immediate
            u == Immediate'
<1>2. TimeLeft = MaxClock - t /\ TimeLeft' = MaxClock - u
  BY DEF TimeLeft
<1>3. t \in Nat /\ u \in Nat /\ u >= t /\ MaxClock \in Nat
  BY <1>1
<1> HIDE DEF t, u
<1>4. ~TimeReturns
  BY <1>2, <1>3 DEF TimeReturns
<1>5. TimePasses \/ u = t
  BY <1>2, <1>3 DEF TimePasses
<1>6. TimePasses \/ Immediate' = Immediate
  BY <1>5 DEF t, u
<1>7. CallAdded => TimePasses
  BY <1>6, CallsGoDown
<1>8. Idle \/ Idle' \/ TimePasses \/ CallUsed \/ InLoop
  <2> SUFFICES ASSUME ~Idle, Immediate' = Immediate
               PROVE  Idle' \/ CallUsed \/ InLoop
    BY <1>6
  <2>1. CASE CycInt_CallActiveHandler
    BY <2>1 DEF CycInt_CallActiveHandler, InLoop, Looking, Calling, Nested
  <2>2. CASE CycInt_AcknowledgeInterrupt
    BY <2>2, CallsGoDown
  <2>3. CASE HandlerReturns
    BY <2>3 DEF HandlerReturns, InLoop, Looking, Handling, Nested
  <2>4. CASE LoopEnds
    BY <2>4 DEF LoopEnds, InLoop, Looking, Handling, Idle, Nested
  <2>5. ASSUME UNCHANGED <<phase, blit>>
        PROVE  InLoop
    <3>1. ~<<Loop>>_vars
      <4>1. CASE CycInt_CallActiveHandler
        BY <4>1, <2>5 DEF CycInt_CallActiveHandler
      <4>2. CASE CycInt_AcknowledgeInterrupt
        BY <4>2, <2>5 DEF CycInt_AcknowledgeInterrupt
      <4>3. CASE HandlerReturns
        BY <4>3, <2>5 DEF HandlerReturns
      <4>4. CASE LoopEnds
        BY <4>4, <2>5 DEF LoopEnds
      <4> QED
        BY <4>1, <4>2, <4>3, <4>4 DEF Loop
    <3> QED
      BY <2>5, <3>1 DEF InLoop, Looking, Calling, Handling, Idle, Nested
  <2>6. CASE Devices
    BY <2>5, <2>6 DEF Devices, CycInt_Reset, CycInt_AddRelativeInterrupt, CycInt_RemovePendingInterrupt,
       CycInt_ModifyInterrupt, ControlUnchanged
  <2>7. CASE Processor
    BY <2>7 DEF Processor, Execute, EndInstruction, MFP_UpdateTimers, Idle
  <2>8. ASSUME NEW p \in Periods, RestartTimer(p)
        PROVE  InLoop
    BY <2>5, <2>8 DEF RestartTimer, RestartTimerAt, ControlUnchanged
  <2>9. ASSUME NEW d \in 1..MaxPass, Blitter_FlushCycles(d)
        PROVE  FALSE
    <3>1. clock \in Nat /\ currcycle \in Nat /\ CycleExact \in BOOLEAN
      BY TimeAssumption DEF IInv, TypeOK
    <3> QED
      BY <2>9, <3>1 DEF Blitter_FlushCycles, Immediate
  <2>10. CASE UNCHANGED vars
    BY <2>5, <2>10 DEF vars
  <2> QED
    BY <2>1, <2>2, <2>3, <2>4, <2>6, <2>7, <2>8, <2>9, <2>10 DEF Next, Loop
<1> QED
  BY <1>4, <1>7, <1>8

(* Every run of the loop ends, whatever the handlers schedule, also when   *)
(* it runs inside the blitter's handler (cycInt.c, CycInt_Process): the    *)
(* time that is left and the calls that are left are natural numbers       *)
(* that it uses up.  Two facts are hypotheses, since no prover here        *)
(* handles ENABLED or an induction over time: that the loop can always     *)
(* take its next step, and that a natural number does not fall forever.    *)
THEOREM LoopTerminatesCorrect ==
  /\ Spec => []LoopBounded
  /\ FairSpec /\ []LoopAble /\ NoInfiniteDescent => LoopTerminates
<1>1. Spec => []IInv
  BY InitInv, NextInv, PTL DEF Spec
<1>2. Spec => []DueKnown
  <2>1. Init => DueKnown
    BY DEF Init, DueKnown
  <2> QED
    BY <1>1, <2>1, NextDueKnown, PTL DEF Spec
<1>3. Spec => []LoopBounded
  BY <1>1, ListIsFinite, QuantitiesAreNat, PTL
<1>4. Spec => /\ [][~TimeReturns]_vars
              /\ [][CallAdded => TimePasses]_vars
              /\ [][Idle \/ Idle' \/ TimePasses \/ CallUsed \/ InLoop]_vars
  <2>1. IInv /\ DueKnown /\ LoopBounded /\ LoopBounded' /\ [Next]_vars =>
          /\ [~TimeReturns]_vars
          /\ [CallAdded => TimePasses]_vars
          /\ [Idle \/ Idle' \/ TimePasses \/ CallUsed \/ InLoop]_vars
    BY LoopProgress
  <2> QED
    BY <1>1, <1>2, <1>3, <2>1, PTL DEF Spec
<1>5. Spec /\ NoInfiniteDescent => <>[][~TimePasses]_vars
  BY <1>4, PTL DEF NoInfiniteDescent
<1>6. Spec /\ NoInfiniteDescent => <>[][~CallUsed]_vars
  BY <1>4, <1>5, PTL DEF NoInfiniteDescent
<1>7. Spec /\ NoInfiniteDescent => <>[][Idle \/ Idle' \/ InLoop]_vars
  BY <1>4, <1>5, <1>6, PTL
<1>8. UNCHANGED vars => InLoop
  BY DEF vars, InLoop, Looking, Calling, Handling, Idle, Nested
<1>9. LoopAble <=> (Idle \/ ENABLED <<Loop>>_vars)
  BY DEF LoopAble, Idle
<1>10. LoopTerminates <=> (Looking ~> Idle)
  BY DEF LoopTerminates, Looking, Idle
<1>11. Spec => []OneControl
  BY <1>1, ControlIsOne, PTL
<1>12. /\ <>[][Idle \/ Idle' \/ InLoop]_vars
       /\ WF_vars(Loop) /\ []LoopAble /\ []OneControl
       => (Looking ~> Idle)
  BY <1>8, <1>9, PTL DEF InLoop, OneControl
<1> QED
  BY <1>3, <1>7, <1>10, <1>11, <1>12, PTL DEF FairSpec, Fairness
=============================================================================
