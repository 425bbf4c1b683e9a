--------------------------- MODULE MCAreas_proofs ----------------------------
(***************************************************************************)
(* Proofs about the programs of MCAreas, for every finite set of threads   *)
(* and every M > 0.  LimitedArea: the area never holds more than M         *)
(* threads, no wakeup is lost, and the program implements BoundedArea.     *)
(* SemArea: the semaphores hand out every place once.  It follows that     *)
(* either program implements BoundedArea.                                  *)
(***************************************************************************)
EXTENDS MCAreas, FiniteSetTheorems, TLAPS

\* The mutex belongs to the thread between its lock and its unlock, and only threads
\* in pthread_cond_wait sleep.
Exclusion ==
    /\ \A t \in Threads : pc[t] \in {"test", "leaving"} <=> lock = t
    /\ \A t \in cond : pc[t] = "waiting"

Types ==
    /\ lock \in Threads \cup {Nobody}
    /\ cond \in SUBSET Threads
    /\ th_no \in Nat
    /\ pc \in [Threads -> Places]
    /\ main \in {"running", "done"}

\* The inductive invariant of the counter: AreaLimit alone is not inductive, as it
\* takes the mutex to know that nobody enters between a test and its increment.
IInv == Types /\ Exclusion /\ AreaLimit
------------------------------------------------------------------------------
(* Counting.                                                               *)

\* Sets of threads are finite and have at most as many members as there are threads.
LEMMA CountThreads ==
    ASSUME NEW S \in SUBSET Threads
    PROVE  IsFiniteSet(S) /\ Cardinality(S) \in 0 .. Cardinality(Threads)
  BY FS_Subset, FS_CardinalityType, LimitedAreaAssumption

\* One thread more, one thread less.
LEMMA CountOneMore ==
    ASSUME NEW S \in SUBSET Threads, NEW t \in Threads \ S
    PROVE  Cardinality(S \cup {t}) = Cardinality(S) + 1
  BY CountThreads, FS_AddElement

LEMMA CountOneLess ==
    ASSUME NEW S \in SUBSET Threads, NEW t \in S
    PROVE  Cardinality(S \ {t}) = Cardinality(S) - 1
  BY CountThreads, FS_RemoveElement

LEMMA CountMore ==
    ASSUME NEW S \in SUBSET Threads, NEW T \in SUBSET S
    PROVE  Cardinality(T) <= Cardinality(S)
  BY CountThreads, FS_Subset

LEMMA ContendersThreads == Contenders \in SUBSET Threads
  BY DEF Contenders
------------------------------------------------------------------------------
LEMMA InitIInv == Init => IInv
  <1> SUFFICES ASSUME Init PROVE IInv
    OBVIOUS
  <1>1. Inside = {}
    BY DEF Init, Inside
  <1>2. th_no = Cardinality(Inside)
    BY <1>1, FS_EmptySet DEF Init
  <1> QED
    BY <1>2, LimitedAreaAssumption
    DEF Init, IInv, Types, Exclusion, AreaLimit, Places

LEMMA NextIInv == IInv /\ [Next]_vars => IInv'
  <1> SUFFICES ASSUME IInv, [Next]_vars PROVE IInv'
    OBVIOUS
  <1> USE LimitedAreaAssumption DEF IInv, Types, Exclusion, AreaLimit, Places, Goto, Lock, Unlock
  <1>1. ASSUME NEW t \in Threads, LockToEnter(t) PROVE IInv'
    <2>1. Inside' = Inside
      BY <1>1 DEF LockToEnter, Inside
    <2> QED
      BY <1>1, <2>1 DEF LockToEnter
  <1>2. ASSUME NEW t \in Threads, Wait(t) PROVE IInv'
    <2>1. Inside' = Inside
      BY <1>2 DEF Wait, CondWait, Inside
    <2> QED
      BY <1>2, <2>1 DEF Wait, CondWait
  <1>3. ASSUME NEW t \in Threads, WakeUp(t) PROVE IInv'
    <2>1. Inside' = Inside
      BY <1>3 DEF WakeUp, Inside
    <2> QED
      BY <1>3, <2>1 DEF WakeUp
  <1>4. ASSUME NEW t \in Threads, Enter(t) PROVE IInv'
    <2>1. Inside' = Inside \cup {t} /\ t \in Threads \ Inside
      BY <1>4 DEF Enter, Inside
    <2>2. Cardinality(Inside') = Cardinality(Inside) + 1
      BY <2>1, CountOneMore DEF Inside
    <2>3. AreaLimit'
      BY <1>4, <2>2 DEF Enter, PlaceFree
    <2> QED
      BY <1>4, <2>3 DEF Enter
  <1>5. ASSUME NEW t \in Threads, LockToLeave(t) PROVE IInv'
    <2>1. Inside' = Inside
      BY <1>5 DEF LockToLeave, Inside
    <2> QED
      BY <1>5, <2>1 DEF LockToLeave
  <1>6. ASSUME NEW t \in Threads, Leave(t) PROVE IInv'
    <2>1. Inside' = Inside \ {t} /\ t \in Inside
      BY <1>6 DEF Leave, Inside
    <2>2. Cardinality(Inside') = Cardinality(Inside) - 1
      BY <2>1, CountOneLess DEF Inside
    <2>3. Cardinality(Inside') \in Nat
      BY CountThreads DEF Inside
    <2>4. AreaLimit' /\ th_no' \in Nat
      BY <1>6, <2>2, <2>3 DEF Leave
    <2>5. cond' \subseteq cond
      BY <1>6 DEF Leave, SignalNewPlace, Signal
    <2> QED
      BY <1>6, <2>4, <2>5 DEF Leave
  <1>7. ASSUME Spurious PROVE IInv'
    <2>1. Inside' = Inside
      BY <1>7 DEF Spurious, Inside
    <2>2. cond' \subseteq cond
      BY <1>7 DEF Spurious, SpuriousWakeup
    <2> QED
      BY <1>7, <2>1, <2>2 DEF Spurious
  <1>8. ASSUME Create PROVE IInv'
    <2>1. Inside' = Inside
      BY <1>8 DEF Create, Inside
    <2> QED
      BY <1>8, <2>1 DEF Create
  <1>9. ASSUME JoinedAll PROVE IInv'
    <2>1. Inside' = Inside
      BY <1>9 DEF JoinedAll, Inside
    <2> QED
      BY <1>9, <2>1 DEF JoinedAll
  <1>10. ASSUME UNCHANGED vars PROVE IInv'
    <2>1. Inside' = Inside
      BY <1>10 DEF vars, Inside
    <2> QED
      BY <1>10, <2>1 DEF vars
  <1> QED
    BY <1>1, <1>2, <1>3, <1>4, <1>5, <1>6, <1>7, <1>8, <1>9, <1>10
    DEF Next, MainStep, ThreadStep, Terminated

LEMMA Invariance == Spec => []IInv
  BY InitIInv, NextIInv, PTL DEF Spec

\* The variables always have their types, whatever the number of threads: in
\* particular th_no is never negative and never exceeds the number of threads.
THEOREM TypeCorrect == Spec => []TypeOK
  <1>1. IInv => TypeOK
    <2> SUFFICES ASSUME IInv PROVE TypeOK
      OBVIOUS
    <2>1. Cardinality(Inside) \in 0 .. Cardinality(Threads)
      BY CountThreads DEF Inside
    <2> QED
      BY <2>1 DEF IInv, Types, AreaLimit, TypeOK
  <1> QED
    BY <1>1, Invariance, PTL

\* "thNo should not be more than M at any time" (lines 57 and 59), for every M and
\* every number of threads, and th_no is the number of threads in the area.
THEOREM AreaNeverOverfull == Spec => []AreaLimit
  <1>1. IInv => AreaLimit
    BY DEF IInv
  <1> QED
    BY <1>1, Invariance, PTL
------------------------------------------------------------------------------
(* No wakeup is lost.                                                      *)

LEMMA InitNoLostWakeup == Init => NoLostWakeup
  BY DEF Init, NoLostWakeup

\* Every step that frees a place or takes a contender away pays for it: a departure
\* with a signal, an entrance with the place it takes, a wait with the full area.
LEMMA NextNoLostWakeup == IInv /\ NoLostWakeup /\ [Next]_vars => NoLostWakeup'
  <1> SUFFICES ASSUME IInv, NoLostWakeup, [Next]_vars, cond' # {}
               PROVE  M - th_no' <= Cardinality(Contenders')
    BY DEF NoLostWakeup
  <1> USE LimitedAreaAssumption DEF IInv, Types, Exclusion, Places, Goto, Lock, Unlock
  <1>a. Contenders' \in SUBSET Threads /\ Cardinality(Contenders') \in Nat
    <2>1. Contenders' \in SUBSET Threads
      BY DEF Contenders
    <2> QED
      BY <2>1, CountThreads
  <1>b. Cardinality(Contenders) \in Nat
    BY ContendersThreads, CountThreads
  <1>c. M \in Int /\ th_no \in Int
    BY DEF AreaLimit
  <1>d. ASSUME cond # {}, th_no' = th_no, Contenders \subseteq Contenders'
        PROVE  M - th_no' <= Cardinality(Contenders')
    <2>1. Cardinality(Contenders) <= Cardinality(Contenders')
      BY <1>a, <1>d, CountMore
    <2> QED
      BY <1>a, <1>b, <1>c, <1>d, <2>1 DEF NoLostWakeup
  <1>1. ASSUME NEW t \in Threads, LockToEnter(t)
        PROVE  M - th_no' <= Cardinality(Contenders')
    BY <1>1, <1>d DEF LockToEnter, Contenders
  <1>2. ASSUME NEW t \in Threads, Wait(t)
        PROVE  M - th_no' <= Cardinality(Contenders')
    BY <1>2, <1>a, <1>c DEF Wait, PlaceFree
  <1>3. ASSUME NEW t \in Threads, WakeUp(t)
        PROVE  M - th_no' <= Cardinality(Contenders')
    BY <1>3, <1>d DEF WakeUp, Contenders
  <1>4. ASSUME NEW t \in Threads, Enter(t)
        PROVE  M - th_no' <= Cardinality(Contenders')
    <2>1. Contenders' = Contenders \ {t} /\ t \in Contenders
      BY <1>4 DEF Enter, Contenders
    <2>2. Cardinality(Contenders') = Cardinality(Contenders) - 1
      BY <2>1, ContendersThreads, CountOneLess
    <2>3. th_no' = th_no + 1 /\ M - th_no <= Cardinality(Contenders)
      BY <1>4 DEF Enter, NoLostWakeup
    <2> QED
      BY <1>b, <1>c, <2>2, <2>3
  <1>5. ASSUME NEW t \in Threads, LockToLeave(t)
        PROVE  M - th_no' <= Cardinality(Contenders')
    BY <1>5, <1>d DEF LockToLeave, Contenders
  <1>6. ASSUME NEW t \in Threads, Leave(t)
        PROVE  M - th_no' <= Cardinality(Contenders')
    <2>1. PICK w \in cond : cond' = cond \ {w}
      BY <1>6 DEF Leave, SignalNewPlace, Signal
    <2>2. Contenders' = Contenders \cup {w} /\ w \in Threads \ Contenders
      BY <1>6, <2>1 DEF Leave, Contenders
    <2>3. Cardinality(Contenders') = Cardinality(Contenders) + 1
      BY <2>2, ContendersThreads, CountOneMore
    <2>4. th_no' = th_no - 1 /\ M - th_no <= Cardinality(Contenders)
      BY <1>6, <2>1 DEF Leave, NoLostWakeup
    <2> QED
      BY <1>b, <1>c, <2>3, <2>4
  <1>7. ASSUME Spurious
        PROVE  M - th_no' <= Cardinality(Contenders')
    <2>1. cond' \subseteq cond
      BY <1>7 DEF Spurious, SpuriousWakeup
    <2> QED
      BY <1>7, <1>d, <2>1 DEF Spurious, Contenders
  <1>8. ASSUME Create
        PROVE  M - th_no' <= Cardinality(Contenders')
    BY <1>8, <1>d DEF Create, Contenders
  <1>9. ASSUME JoinedAll \/ UNCHANGED vars
        PROVE  M - th_no' <= Cardinality(Contenders')
    BY <1>9, <1>d DEF JoinedAll, vars, Contenders
  <1> QED
    BY <1>1, <1>2, <1>3, <1>4, <1>5, <1>6, <1>7, <1>8, <1>9
    DEF Next, MainStep, ThreadStep, Terminated

\* The one signal of every departure (line 82) is enough, for every M and every
\* number of threads: no free place is overlooked while threads sleep.
THEOREM NoWakeupLost == Spec => []NoLostWakeup
  <1>1. Spec => []IInv
    BY Invariance
  <1> QED
    BY <1>1, InitNoLostWakeup, NextNoLostWakeup, PTL DEF Spec
------------------------------------------------------------------------------
(* The refinement.                                                         *)

LEMMA InitRefines == Init => Area!Init
  BY DEF Init, Area!Init, Inside, Passed

\* Entering and leaving are the abstract steps, all others are invisible.
LEMMA NextRefines == IInv /\ [Next]_vars => [Area!Next]_(Area!areaVars)
  <1> SUFFICES ASSUME IInv, [Next]_vars PROVE [Area!Next]_(Area!areaVars)
    OBVIOUS
  <1> USE DEF IInv, Types, Places, Goto, Inside, Passed, Area!areaVars
  <1>1. ASSUME NEW t \in Threads, Enter(t) PROVE Area!Enter(t)
    <2>1. Inside' = Inside \cup {t} /\ Passed' = Passed /\ t \notin Inside \cup Passed
      BY <1>1 DEF Enter
    <2>2. Cardinality(Inside) < M
      BY <1>1 DEF Enter, PlaceFree, AreaLimit
    <2>3. Area!Cardinality(Inside) = Cardinality(Inside)
      BY DEF Area!Cardinality, Cardinality
    <2> QED
      BY <2>1, <2>2, <2>3 DEF Area!Enter
  <1>2. ASSUME NEW t \in Threads, Leave(t) PROVE Area!Leave(t)
    BY <1>2 DEF Leave, Area!Leave
  <1>3. ASSUME NEW t \in Threads,
               LockToEnter(t) \/ Wait(t) \/ WakeUp(t) \/ LockToLeave(t)
        PROVE  UNCHANGED Area!areaVars
    BY <1>3 DEF LockToEnter, Wait, WakeUp, LockToLeave
  <1>4. ASSUME Spurious \/ Create \/ JoinedAll \/ UNCHANGED vars
        PROVE  UNCHANGED Area!areaVars
    BY <1>4 DEF Spurious, Create, JoinedAll, vars
  <1> QED
    BY <1>1, <1>2, <1>3, <1>4 DEF Next, MainStep, ThreadStep, Terminated, Area!Next

\* Whatever the threads do is what BoundedArea allows: each passes the area once, and
\* a place is free when it enters.
THEOREM ImplementsBoundedArea == Spec => ImplementsSafety
  <1>1. Spec => []IInv
    BY Invariance
  <1> QED
    BY <1>1, InitRefines, NextRefines, PTL DEF Spec, ImplementsSafety, Area!Safety
------------------------------------------------------------------------------
(* The semaphores of SemArea, and both programs.                           *)

SemTypes ==
    /\ places \in Nat /\ counter \in Nat /\ s_th_no \in Nat
    /\ s_pc \in [Threads -> Sem!Places]
    /\ s_main \in {"running", "done"}

SemAt(S) == {t \in Threads : s_pc[t] \in S}
Taken == {"enter", "count", "area", "uncount", "leave"}
Locked == {"count", "uncount"}
Counted == {"area", "uncount"}

\* A place is free or taken, the counter is locked by one thread at most, and it counts
\* the threads that are between their two critical sections.
SemCounts ==
    /\ places + Cardinality(SemAt(Taken)) = M
    /\ counter + Cardinality(SemAt(Locked)) = 1
    /\ s_th_no = Cardinality(SemAt(Counted))

\* The inductive invariant of the semaphores: that a place is taken before it is counted
\* and given back after it is counted out takes all three counts.
SemInv == SemTypes /\ SemCounts

\* That of both programs, of which the one that does not run stays as it starts.
MCInv ==
    /\ IInv /\ SemInv
    /\ program \in {"using-conds", "l8_ex2"}
    /\ program = "using-conds" => SemAt(Taken) = {} /\ SemAt({"done"}) = {}
    /\ program = "l8_ex2" => Inside = {} /\ Passed = {} /\ cond = {}
------------------------------------------------------------------------------
(* Counting.                                                               *)

LEMMA SemCardinality ==
    /\ \A S : Sem!Cardinality(S) = Cardinality(S)
    /\ \A S : Refined!Cardinality(S) = Cardinality(S)
  BY DEF Sem!Cardinality, Refined!Cardinality, Cardinality

LEMMA SemPlaces == Sem!PlacesAddUp <=> SemCounts
  BY SemCardinality
  DEF Sem!PlacesAddUp, Sem!Inside, Sem!At, SemCounts, SemAt, Taken, Locked, Counted

\* Threads are counted where they come to, and no longer where they were.
LEMMA SemCount ==
    ASSUME NEW S
    PROVE  SemAt(S) \in SUBSET Threads /\ Cardinality(SemAt(S)) \in Nat
  <1>1. SemAt(S) \in SUBSET Threads
    BY DEF SemAt
  <1> QED
    BY <1>1, CountThreads

LEMMA SemMoveIn ==
    ASSUME SemTypes, NEW t \in Threads, NEW from, NEW to, NEW S, Sem!Move(t, from, to),
           from \notin S, to \in S
    PROVE  SemAt(S)' = SemAt(S) \cup {t} /\ Cardinality(SemAt(S)') = Cardinality(SemAt(S)) + 1
  <1>1. SemAt(S)' = SemAt(S) \cup {t} /\ t \in Threads \ SemAt(S)
    BY DEF SemTypes, Sem!Move, SemAt
  <1> QED
    BY <1>1, SemCount, CountOneMore

LEMMA SemMoveOut ==
    ASSUME SemTypes, NEW t \in Threads, NEW from, NEW to, NEW S, Sem!Move(t, from, to),
           from \in S, to \notin S
    PROVE  SemAt(S)' = SemAt(S) \ {t} /\ Cardinality(SemAt(S)') = Cardinality(SemAt(S)) - 1
  <1>1. SemAt(S)' = SemAt(S) \ {t} /\ t \in SemAt(S)
    BY DEF SemTypes, Sem!Move, SemAt
  <1> QED
    BY <1>1, SemCount, CountOneLess

LEMMA SemMoveWithin ==
    ASSUME SemTypes, NEW t \in Threads, NEW from, NEW to, NEW S, Sem!Move(t, from, to),
           from \in S <=> to \in S
    PROVE  SemAt(S)' = SemAt(S)
  BY DEF SemTypes, Sem!Move, SemAt
------------------------------------------------------------------------------
(* The steps of SemArea.                                                   *)

LEMMA SemThread ==
    ASSUME SemInv, NEW t \in Threads, Sem!ThreadStep(t)
    PROVE  SemInv'
  <1> DEFINE T == Cardinality(SemAt(Taken))
             L == Cardinality(SemAt(Locked))
             C == Cardinality(SemAt(Counted))
  <1>1. SemTypes /\ T \in Nat /\ L \in Nat /\ C \in Nat /\ M \in Nat
    BY SemCount, LimitedAreaAssumption DEF SemInv
  <1>2. s_pc' \in [Threads -> Sem!Places] /\ s_main' = s_main
    BY <1>1
    DEF SemTypes, Sem!Places, Sem!ThreadStep, Sem!TakePlace, Sem!LockCounter, Sem!CountIn,
        Sem!CountOut, Sem!GivePlace, Sem!Move
  <1> SUFFICES SemCounts' /\ places' \in Nat /\ counter' \in Nat /\ s_th_no' \in Nat
    BY <1>1, <1>2 DEF SemInv, SemTypes
  <1>3. /\ places \in Nat /\ counter \in Nat /\ s_th_no \in Nat
        /\ places + T = M /\ counter + L = 1 /\ s_th_no = C
    BY DEF SemInv, SemTypes, SemCounts
  <1>4. CASE Sem!TakePlace(t)
    <2>1. /\ Sem!Move(t, "start", "enter")
          /\ places > 0 /\ places' = places - 1 /\ counter' = counter /\ s_th_no' = s_th_no
      BY <1>4 DEF Sem!TakePlace, Sem!SemWait
    <2>2. T' = T + 1 /\ L' = L /\ C' = C
      <3>1. /\ "enter" \in Taken /\ "start" \notin Taken
            /\ "start" \notin Locked /\ "enter" \notin Locked
            /\ "start" \notin Counted /\ "enter" \notin Counted
        BY DEF Taken, Locked, Counted
      <3>2. T' = T + 1
        BY <1>1, <2>1, <3>1, SemMoveIn
      <3>3. L' = L
        BY <1>1, <2>1, <3>1, SemMoveWithin
      <3>4. C' = C
        BY <1>1, <2>1, <3>1, SemMoveWithin
      <3> QED
        BY <3>2, <3>3, <3>4
    <2> QED
      BY <1>1, <1>3, <2>1, <2>2 DEF SemCounts
  <1>5. CASE Sem!LockCounter(t)
    <2>1. /\ Sem!Move(t, "enter", "count") \/ Sem!Move(t, "area", "uncount")
          /\ counter > 0 /\ counter' = counter - 1 /\ places' = places /\ s_th_no' = s_th_no
      BY <1>5 DEF Sem!LockCounter, Sem!SemWait
    <2>2. T' = T /\ L' = L + 1 /\ C' = C
      <3>1. /\ "enter" \in Taken /\ "count" \in Taken /\ "area" \in Taken /\ "uncount" \in Taken
            /\ "count" \in Locked /\ "uncount" \in Locked /\ "enter" \notin Locked /\ "area" \notin Locked
            /\ "area" \in Counted /\ "uncount" \in Counted /\ "enter" \notin Counted /\ "count" \notin Counted
        BY DEF Taken, Locked, Counted
      <3>2. T' = T
        BY <1>1, <2>1, <3>1, SemMoveWithin
      <3>3. L' = L + 1
        BY <1>1, <2>1, <3>1, SemMoveIn
      <3>4. C' = C
        BY <1>1, <2>1, <3>1, SemMoveWithin
      <3> QED
        BY <3>2, <3>3, <3>4
    <2> QED
      BY <1>1, <1>3, <2>1, <2>2 DEF SemCounts
  <1>6. CASE Sem!CountIn(t)
    <2>1. /\ Sem!Move(t, "count", "area")
          /\ counter' = counter + 1 /\ places' = places /\ s_th_no' = s_th_no + 1
      BY <1>6 DEF Sem!CountIn, Sem!SemPost
    <2>2. T' = T /\ L' = L - 1 /\ C' = C + 1
      <3>1. /\ "count" \in Taken /\ "area" \in Taken
            /\ "count" \in Locked /\ "area" \notin Locked
            /\ "area" \in Counted /\ "count" \notin Counted
        BY DEF Taken, Locked, Counted
      <3>2. T' = T
        BY <1>1, <2>1, <3>1, SemMoveWithin
      <3>3. L' = L - 1
        BY <1>1, <2>1, <3>1, SemMoveOut
      <3>4. C' = C + 1
        BY <1>1, <2>1, <3>1, SemMoveIn
      <3> QED
        BY <3>2, <3>3, <3>4
    <2> QED
      BY <1>1, <1>3, <2>1, <2>2 DEF SemCounts
  <1>7. CASE Sem!CountOut(t)
    <2>1. /\ Sem!Move(t, "uncount", "leave")
          /\ counter' = counter + 1 /\ places' = places /\ s_th_no' = s_th_no - 1
      BY <1>7 DEF Sem!CountOut, Sem!SemPost
    <2>2. T' = T /\ L' = L - 1 /\ C' = C - 1
      <3>1. /\ "uncount" \in Taken /\ "leave" \in Taken
            /\ "uncount" \in Locked /\ "leave" \notin Locked
            /\ "uncount" \in Counted /\ "leave" \notin Counted
        BY DEF Taken, Locked, Counted
      <3>2. T' = T
        BY <1>1, <2>1, <3>1, SemMoveWithin
      <3>3. L' = L - 1
        BY <1>1, <2>1, <3>1, SemMoveOut
      <3>4. C' = C - 1
        BY <1>1, <2>1, <3>1, SemMoveOut
      <3> QED
        BY <3>2, <3>3, <3>4
    <2>3. C' \in Nat
      BY CountThreads DEF SemAt
    <2> QED
      BY <1>1, <1>3, <2>1, <2>2, <2>3 DEF SemCounts
  <1>8. CASE Sem!GivePlace(t)
    <2>1. /\ Sem!Move(t, "leave", "done")
          /\ counter' = counter /\ places' = places + 1 /\ s_th_no' = s_th_no
      BY <1>8 DEF Sem!GivePlace, Sem!SemPost
    <2>2. T' = T - 1 /\ L' = L /\ C' = C
      <3>1. /\ "leave" \in Taken /\ "done" \notin Taken
            /\ "leave" \notin Locked /\ "done" \notin Locked
            /\ "leave" \notin Counted /\ "done" \notin Counted
        BY DEF Taken, Locked, Counted
      <3>2. T' = T - 1
        BY <1>1, <2>1, <3>1, SemMoveOut
      <3>3. L' = L
        BY <1>1, <2>1, <3>1, SemMoveWithin
      <3>4. C' = C
        BY <1>1, <2>1, <3>1, SemMoveWithin
      <3> QED
        BY <3>2, <3>3, <3>4
    <2> QED
      BY <1>1, <1>3, <2>1, <2>2 DEF SemCounts
  <1> QED
    BY <1>4, <1>5, <1>6, <1>7, <1>8 DEF Sem!ThreadStep

LEMMA SemMain ==
    ASSUME SemInv, Sem!MainStep
    PROVE  SemInv' /\ SemAt(Taken)' = SemAt(Taken) /\ SemAt({"done"})' = SemAt({"done"})
  <1> USE DEF SemInv, SemTypes
  <1>1. UNCHANGED <<places, counter, s_th_no>> /\ s_main' \in {"running", "done"}
    BY DEF Sem!MainStep, Sem!Create, Sem!JoinedAll
  <1>2. CASE Sem!Create
    <2>1. PICK t \in Threads : Sem!Move(t, "new", "start")
      BY <1>2 DEF Sem!Create
    <2>2. ASSUME NEW S, "new" \notin S, "start" \notin S PROVE SemAt(S)' = SemAt(S)
      BY <2>1, <2>2, SemMoveWithin
    <2>3. /\ SemAt(Taken)' = SemAt(Taken) /\ SemAt(Locked)' = SemAt(Locked)
          /\ SemAt(Counted)' = SemAt(Counted) /\ SemAt({"done"})' = SemAt({"done"})
      BY <2>2 DEF Taken, Locked, Counted
    <2>4. s_pc' \in [Threads -> Sem!Places]
      BY <2>1 DEF Sem!Move, Sem!Places
    <2> QED
      BY <1>1, <2>3, <2>4 DEF SemCounts
  <1>3. CASE Sem!JoinedAll
    BY <1>1, <1>3 DEF Sem!JoinedAll, SemCounts, SemAt
  <1> QED
    BY <1>2, <1>3 DEF Sem!MainStep
------------------------------------------------------------------------------
(* Both programs.                                                          *)

LEMMA InitMCInv == MCInit => MCInv
  <1> SUFFICES ASSUME MCInit PROVE MCInv
    OBVIOUS
  <1>1. IInv
    BY InitIInv DEF MCInit
  <1>2. SemTypes
    BY LimitedAreaAssumption DEF MCInit, Sem!Init, SemTypes, Sem!Places
  <1>3. /\ SemAt(Taken) = {} /\ SemAt(Locked) = {} /\ SemAt(Counted) = {}
        /\ SemAt({"done"}) = {}
    BY DEF MCInit, Sem!Init, SemAt, Taken, Locked, Counted
  <1>4. SemCounts
    BY <1>3, FS_EmptySet, LimitedAreaAssumption DEF MCInit, Sem!Init, SemCounts
  <1>5. Inside = {} /\ Passed = {} /\ cond = {}
    BY DEF MCInit, Init, Inside, Passed
  <1> QED
    BY <1>1, <1>2, <1>3, <1>4, <1>5 DEF MCInv, SemInv, MCInit

\* A step is a step of one program, which leaves the other alone.
CondsStep == program = "using-conds" /\ [Next]_vars /\ UNCHANGED semVars
SemStep ==
    /\ program = "l8_ex2"
    /\ Sem!MainStep \/ (\E t \in Threads : Sem!ThreadStep(t)) \/ UNCHANGED semVars
    /\ UNCHANGED vars

LEMMA StepOfOne ==
    ASSUME MCInv, [MCNext]_allVars
    PROVE  (CondsStep \/ SemStep) /\ program' = program
  <1>1. program \in {"using-conds", "l8_ex2"} /\ (program = "l8_ex2" => cond = {})
    BY DEF MCInv
  <1>2. CASE MCMain
    BY <1>1, <1>2 DEF MCMain, CondsStep, SemStep, Next
  <1>3. ASSUME NEW t \in Threads, MCThread(t) PROVE (CondsStep \/ SemStep) /\ program' = program
    BY <1>1, <1>3 DEF MCThread, CondsStep, SemStep, Next
  <1>4. CASE MCSpurious
    <2>1. program # "l8_ex2"
      BY <1>1, <1>4 DEF MCSpurious, Spurious, SpuriousWakeup
    <2> QED
      BY <1>1, <1>4, <2>1 DEF MCSpurious, CondsStep, Next
  <1>5. CASE UNCHANGED allVars
    BY <1>1, <1>5 DEF allVars, CondsStep, SemStep
  <1> QED
    BY <1>2, <1>3, <1>4, <1>5 DEF MCNext, MCTerminated

LEMMA NextMCInv == MCInv /\ [MCNext]_allVars => MCInv'
  <1> SUFFICES ASSUME MCInv, [MCNext]_allVars PROVE MCInv'
    OBVIOUS
  <1>1. (CondsStep \/ SemStep) /\ program' = program
    BY StepOfOne
  <1>2. CASE CondsStep
    <2>1. IInv'
      BY <1>2, NextIInv DEF MCInv, CondsStep
    <2>2. SemInv' /\ SemAt(Taken)' = SemAt(Taken) /\ SemAt({"done"})' = SemAt({"done"})
      BY <1>2 DEF MCInv, SemInv, CondsStep, semVars, SemTypes, SemCounts, SemAt
    <2> QED
      BY <1>1, <1>2, <2>1, <2>2 DEF MCInv, CondsStep
  <1>3. CASE SemStep
    <2>1. IInv'
      BY <1>3, NextIInv DEF MCInv, SemStep
    <2>2. Inside' = Inside /\ Passed' = Passed /\ cond' = cond
      BY <1>3 DEF SemStep, vars, Inside, Passed
    <2>3. SemInv'
      <3>1. CASE UNCHANGED semVars
        BY <3>1 DEF MCInv, SemInv, semVars, SemTypes, SemCounts, SemAt
      <3> QED
        BY <1>3, <3>1, SemMain, SemThread DEF SemStep, MCInv
    <2> QED
      BY <1>1, <1>3, <2>1, <2>2, <2>3 DEF MCInv, SemStep
  <1> QED
    BY <1>1, <1>2, <1>3

LEMMA MCInvariance == MCSpec => []MCInv
  BY InitMCInv, NextMCInv, PTL DEF MCSpec

\* The places of l8_ex2.c are neither lost nor handed out twice, its counter never
\* exceeds the places taken, and its semaphores keep their bounds.
THEOREM PlacesAlwaysAddUp == MCSpec => []PlacesAddUp
  <1>1. MCInv => PlacesAddUp
    <2> SUFFICES ASSUME MCInv PROVE PlacesAddUp
      OBVIOUS
    <2> DEFINE T == Cardinality(SemAt(Taken))
               L == Cardinality(SemAt(Locked))
               C == Cardinality(SemAt(Counted))
    <2>1. T \in Nat /\ L \in Nat /\ C \in Nat /\ M \in Nat
      BY SemCount, LimitedAreaAssumption
    <2>2. C <= T
      <3>1. SemAt(Counted) \in SUBSET SemAt(Taken)
        BY DEF SemAt, Counted, Taken
      <3> QED
        BY <3>1, SemCount, CountMore
    <2>3. Sem!TypeOK
      BY <2>1, <2>2 DEF MCInv, SemInv, SemTypes, SemCounts, Sem!TypeOK
    <2> QED
      BY <2>3, SemPlaces DEF MCInv, SemInv, PlacesAddUp
  <1> QED
    BY <1>1, MCInvariance, PTL
------------------------------------------------------------------------------
(* The refinement.                                                         *)

LEMMA NextRefinesArea == MCInv /\ [MCNext]_allVars => [Refined!Next]_(Refined!areaVars)
  <1> SUFFICES ASSUME MCInv, [MCNext]_allVars PROVE [Refined!Next]_(Refined!areaVars)
    OBVIOUS
  <1>1. CondsStep \/ SemStep
    BY StepOfOne
  <1>2. Sem!Inside = SemAt(Taken) /\ Sem!Passed = SemAt({"done"})
        /\ Sem!Inside' = SemAt(Taken)' /\ Sem!Passed' = SemAt({"done"})'
    BY DEF Sem!Inside, Sem!Passed, Sem!At, SemAt, Taken
  <1>3. CASE CondsStep
    <2>1. /\ Sem!Inside = {} /\ Sem!Passed = {} /\ Sem!Inside' = {} /\ Sem!Passed' = {}
      BY <1>2, <1>3 DEF MCInv, CondsStep, semVars, SemAt
    <2>2. [Area!Next]_(Area!areaVars)
      BY <1>3, NextRefines DEF MCInv, CondsStep
    <2>3. \A S : Area!Cardinality(S) = Refined!Cardinality(S)
      BY DEF Area!Cardinality, Refined!Cardinality
    <2> QED
      BY <2>1, <2>2, <2>3
      DEF Area!Next, Area!Enter, Area!Leave, Area!areaVars, Refined!Next, Refined!Enter,
          Refined!Leave, Refined!areaVars
  <1>4. CASE SemStep
    <2>1. Inside = {} /\ Passed = {} /\ Inside' = {} /\ Passed' = {} /\ SemInv /\ SemTypes
      BY <1>4 DEF MCInv, SemInv, SemStep, vars, Inside, Passed
    <2>2. ASSUME NEW t \in Threads, Sem!TakePlace(t) PROVE Refined!Enter(t)
      <3>1. /\ SemAt(Taken)' = SemAt(Taken) \cup {t} /\ SemAt({"done"})' = SemAt({"done"})
            /\ t \notin SemAt(Taken) \cup SemAt({"done"})
        BY <2>1, <2>2 DEF Sem!TakePlace, Sem!Move, SemAt, Taken, SemTypes
      <3>2. Cardinality(SemAt(Taken)) < M
        BY <2>1, <2>2, SemCount, LimitedAreaAssumption
        DEF Sem!TakePlace, Sem!SemWait, SemInv, SemTypes, SemCounts
      <3>3. Refined!Cardinality(Inside \cup Sem!Inside) < M
        BY <1>2, <2>1, <3>2, SemCardinality
      <3> QED
        BY <1>2, <2>1, <3>1, <3>3 DEF Refined!Enter
    <2>3. ASSUME NEW t \in Threads, Sem!GivePlace(t) PROVE Refined!Leave(t)
      <3>1. /\ SemAt(Taken)' = SemAt(Taken) \ {t} /\ SemAt({"done"})' = SemAt({"done"}) \cup {t}
            /\ t \in SemAt(Taken)
        BY <2>1, <2>3 DEF Sem!GivePlace, Sem!Move, SemAt, Taken, SemTypes
      <3> QED
        BY <1>2, <2>1, <3>1 DEF Refined!Leave
    <2>4. ASSUME NEW t \in Threads, Sem!LockCounter(t) \/ Sem!CountIn(t) \/ Sem!CountOut(t)
          PROVE  UNCHANGED Refined!areaVars
      <3>1. SemAt(Taken)' = SemAt(Taken) /\ SemAt({"done"})' = SemAt({"done"})
        BY <2>1, <2>4 DEF Sem!LockCounter, Sem!CountIn, Sem!CountOut, Sem!Move, SemAt, Taken, SemTypes
      <3> QED
        BY <1>2, <2>1, <3>1 DEF Refined!areaVars
    <2>5. CASE Sem!MainStep \/ UNCHANGED semVars
      <3>1. SemAt(Taken)' = SemAt(Taken) /\ SemAt({"done"})' = SemAt({"done"})
        BY <2>1, <2>5, SemMain DEF semVars, SemAt
      <3> QED
        BY <1>2, <2>1, <3>1 DEF Refined!areaVars
    <2> QED
      BY <1>4, <2>2, <2>3, <2>4, <2>5 DEF SemStep, Sem!ThreadStep, Refined!Next
  <1> QED
    BY <1>1, <1>3, <1>4

\* The program with the condition variable and the one with the semaphores promise the
\* same: what either does BoundedArea allows, for every M and every number of threads.
THEOREM BothImplementBoundedArea == MCSpec => Refined!Safety
  <1>1. MCInit => Refined!Init
    BY InitMCInv
    DEF MCInv, MCInit, Init, Inside, Passed, Sem!Init, Sem!Inside, Sem!Passed, Sem!At, Refined!Init
  <1> QED
    BY <1>1, NextRefinesArea, MCInvariance, PTL DEF MCSpec, Refined!Safety
==============================================================================
