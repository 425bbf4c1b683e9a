---------------------------- MODULE SemRing_proofs ----------------------------
(***************************************************************************)
(* Proofs about SemRing, for every number of threads and every count_max:  *)
(* there is one token, so that the unlocked increments lose no update, and *)
(* "we don't miss any count" although the remainder is tested without its  *)
(* semaphore; less than one lap of the ring is counted too much.  The      *)
(* rounds are turns of TakingTurns.                                        *)
(***************************************************************************)
EXTENDS SemRing, FiniteSetTheorems, TLAPS

\* main checks num_threads (line 62); a negative count_max, which it does not check,
\* is not counted to by anybody and left out.
SemRingAssumption == num_threads \in Nat \ {0} /\ count_max \in Nat

Types ==
    /\ mutex \in [Threads -> Nat]
    /\ remainderr \in Int
    /\ count \in Nat
    /\ aux \in [Threads -> Nat]
    /\ i \in [Threads -> 0 .. quota]
    /\ pc \in [Threads -> Places]
    /\ main \in {"running", "done"}

\* The token is with thread h, or in its semaphore.
TokenAt(h) ==
    \/ Holders = {h} /\ \A t \in Threads : mutex[t] = 0
    \/ Holders = {} /\ \A t \in Threads : mutex[t] = IF t = h THEN 1 ELSE 0
Token == \E h \in Threads : TokenAt(h)

\* The rounds are over for who is beyond line 33, and something remains until the first
\* thread leaves.
Phases ==
    \A t \in Threads :
        /\ pc[t] \in {"extra", "await", "check", "dec", "done"} => i[t] = 0
        /\ pc[t] = "done" => remainderr <= 0
        /\ main = "done" => pc[t] = "done"

\* The increments that have been made: those of the rounds, one by one, and the extra
\* ones that line 46 has not counted yet.
Made ==
    {p \in Threads \X (1 .. quota) :
        p[2] > i[p[1]] \/ (p[2] = i[p[1]] /\ pc[p[1]] = "pass")}
Extra == {t \in Threads : pc[t] = "dec" \/ (pc[t] = "pass" /\ i[t] = 0)}

\* The threads that have passed line 38 and not yet line 46.
Pending == {t \in Threads : pc[t] = "dec" \/ (pc[t] \in {"read", "write", "pass"} /\ i[t] = 0)}

Counted ==
    /\ count = Cardinality(Made) + (count_max % num_threads) - remainderr + Cardinality(Extra)
    /\ \A t \in Threads : aux[t] <= count /\ (pc[t] = "write" => aux[t] = count)

\* What remains may fall below 0 by the threads that saw it positive.
Remains ==
    /\ remainderr <= count_max % num_threads
    /\ remainderr - Cardinality(Pending) >= 1 - num_threads

\* The inductive invariant: no count is missed because nobody else increments between a
\* read and a write of count, which takes the token.
IInv == Types /\ Token /\ Phases /\ Counted /\ Remains
------------------------------------------------------------------------------
(* Counting.                                                               *)

LEMMA Division ==
    ASSUME SemRingAssumption
    PROVE  /\ quota \in Nat
           /\ count_max % num_threads \in 0 .. num_threads - 1
           /\ count_max = num_threads * quota + (count_max % num_threads)
           /\ num_threads * quota \in Nat
  BY DEF SemRingAssumption, quota

LEMMA CountThreads ==
    ASSUME SemRingAssumption, NEW S \in SUBSET Threads
    PROVE  IsFiniteSet(S) /\ Cardinality(S) \in 0 .. num_threads
  <1>1. IsFiniteSet(Threads) /\ Cardinality(Threads) = num_threads
    BY FS_Interval DEF SemRingAssumption, Threads
  <1> QED
    BY <1>1, FS_Subset, FS_CardinalityType

LEMMA CountPairs ==
    ASSUME SemRingAssumption, NEW S \in SUBSET (Threads \X (1 .. quota))
    PROVE  /\ IsFiniteSet(S) /\ Cardinality(S) \in 0 .. num_threads * quota
           /\ S = Threads \X (1 .. quota) => Cardinality(S) = num_threads * quota
  <1>1. IsFiniteSet(Threads) /\ Cardinality(Threads) = num_threads
    BY FS_Interval DEF SemRingAssumption, Threads
  <1>2. IsFiniteSet(1 .. quota) /\ Cardinality(1 .. quota) = quota
    BY FS_Interval, Division
  <1>3. /\ IsFiniteSet(Threads \X (1 .. quota))
        /\ Cardinality(Threads \X (1 .. quota)) = num_threads * quota
    BY <1>1, <1>2, FS_Product
  <1> QED
    BY <1>3, Division, FS_Subset, FS_CardinalityType

LEMMA Sizes ==
    ASSUME SemRingAssumption
    PROVE  /\ IsFiniteSet(Made) /\ Cardinality(Made) \in Nat
           /\ IsFiniteSet(Extra) /\ Cardinality(Extra) \in Nat
           /\ IsFiniteSet(Pending) /\ Cardinality(Pending) \in 0 .. num_threads
  <1>1. Made \in SUBSET (Threads \X (1 .. quota)) /\ Extra \in SUBSET Threads
        /\ Pending \in SUBSET Threads
    BY DEF Made, Extra, Pending
  <1> QED
    BY <1>1, CountPairs, CountThreads, Division

\* Whoever has the token is alone with it, and whoever can take it takes the only one.
LEMMA HolderAlone ==
    ASSUME Token, NEW t \in Holders
    PROVE  Holders = {t} /\ \A u \in Threads : mutex[u] = 0
  BY DEF Token, TokenAt

LEMMA FreeAlone ==
    ASSUME Token, NEW t \in Threads, mutex[t] > 0
    PROVE  Holders = {} /\ \A u \in Threads : mutex[u] = IF u = t THEN 1 ELSE 0
  <1>1. PICK h \in Threads : TokenAt(h)
    BY DEF Token
  <1> QED
    BY <1>1 DEF TokenAt
------------------------------------------------------------------------------
LEMMA InitIInv == SemRingAssumption /\ Init => IInv
  <1> SUFFICES ASSUME SemRingAssumption, Init PROVE IInv
    OBVIOUS
  <1>1. quota \in Nat /\ 0 \in Threads /\ num_threads \in Nat /\ num_threads > 0
        /\ count_max % num_threads \in 0 .. num_threads - 1
    BY Division DEF SemRingAssumption, Threads
  <1>2. Types /\ Phases
    BY <1>1 DEF Init, Types, Phases, Places
  <1>3. TokenAt(0)
    BY <1>1 DEF Init, TokenAt, Holders
  <1>4. Made = {} /\ Extra = {} /\ Pending = {}
    BY <1>1 DEF Init, Made, Extra, Pending
  <1>5. Counted /\ Remains
    BY <1>1, <1>4, FS_EmptySet DEF Init, Counted, Remains
  <1> QED
    BY <1>1, <1>2, <1>3, <1>5 DEF IInv, Token

LEMMA StepTypes ==
    ASSUME SemRingAssumption, IInv, NEW t \in Threads, ThreadStep(t)
    PROVE  Types'
  <1>1. NextOf(t) \in Threads /\ quota \in Nat
    BY Division DEF NextOf, Threads, SemRingAssumption
  <1> USE <1>1 DEF IInv, Types, Move, Places
  <1>2. CASE TakeToken(t) \/ TakeExtraToken(t)
    BY <1>2 DEF TakeToken, TakeExtraToken, SemWaitAt
  <1>3. CASE ReadCount(t) \/ WriteCount(t)
    BY <1>3 DEF ReadCount, WriteCount
  <1>4. CASE PassToken(t)
    BY <1>4 DEF PassToken, SemPostAt
  <1>5. CASE Break(t) \/ PassExtraToken(t)
    BY <1>5 DEF Break, PassExtraToken, SemPostAt
  <1>6. CASE EndRounds(t) \/ StartExtra(t) \/ Finish(t) \/ IncrementExtra(t)
    BY <1>6 DEF EndRounds, StartExtra, Finish, IncrementExtra
  <1>7. CASE DecRemainder(t)
    BY <1>7 DEF DecRemainder
  <1> QED
    BY <1>2, <1>3, <1>4, <1>5, <1>6, <1>7 DEF ThreadStep

\* The token is taken, kept or passed on.
LEMMA StepToken ==
    ASSUME SemRingAssumption, IInv, NEW t \in Threads, ThreadStep(t)
    PROVE  Token'
  <1>1. NextOf(t) \in Threads
    BY DEF NextOf, Threads, SemRingAssumption
  <1> USE DEF IInv, Types, Move
  <1>2. CASE TakeToken(t) \/ TakeExtraToken(t)
    <2>1. mutex[t] > 0 /\ mutex' = [mutex EXCEPT ![t] = @ - 1]
      BY <1>2 DEF TakeToken, TakeExtraToken, SemWaitAt
    <2>2. Holders = {} /\ \A u \in Threads : mutex[u] = IF u = t THEN 1 ELSE 0
      BY <2>1, FreeAlone
    <2>3. Holders' = {t}
      BY <1>2, <2>2 DEF TakeToken, TakeExtraToken, Holders
    <2>4. \A u \in Threads : mutex'[u] = 0
      BY <2>1, <2>2
    <2> QED
      BY <2>3, <2>4 DEF Token, TokenAt
  <1>3. CASE PassToken(t) \/ Break(t) \/ PassExtraToken(t)
    <2>1. t \in Holders /\ mutex' = [mutex EXCEPT ![NextOf(t)] = @ + 1]
      BY <1>3 DEF PassToken, Break, PassExtraToken, SemPostAt, Holders
    <2>2. Holders = {t} /\ \A u \in Threads : mutex[u] = 0
      BY <2>1, HolderAlone
    <2>3. Holders' = {}
      BY <1>3, <2>2 DEF PassToken, Break, PassExtraToken, Holders
    <2>4. \A u \in Threads : mutex'[u] = IF u = NextOf(t) THEN 1 ELSE 0
      BY <1>1, <2>1, <2>2
    <2> QED
      BY <1>1, <2>3, <2>4 DEF Token, TokenAt
  <1>4. CASE \/ ReadCount(t) \/ WriteCount(t) \/ EndRounds(t) \/ StartExtra(t) \/ Finish(t)
             \/ IncrementExtra(t) \/ DecRemainder(t)
    <2>1. Holders' = Holders /\ mutex' = mutex
      BY <1>4 DEF ReadCount, WriteCount, EndRounds, StartExtra, Finish, IncrementExtra,
                  DecRemainder, Holders
    <2> QED
      BY <2>1 DEF Token, TokenAt
  <1> QED
    BY <1>2, <1>3, <1>4 DEF ThreadStep

LEMMA StepPhases ==
    ASSUME SemRingAssumption, IInv, NEW t \in Threads, ThreadStep(t)
    PROVE  Phases'
  <1> USE DEF IInv, Types, Move, Phases, RemainderLeft
  <1>1. main' = main /\ main # "done"
    BY DEF ThreadStep, TakeToken, ReadCount, WriteCount, PassToken, EndRounds, StartExtra, Finish,
           TakeExtraToken, IncrementExtra, Break, PassExtraToken, DecRemainder
  <1>2. CASE TakeToken(t) \/ TakeExtraToken(t)
    BY <1>1, <1>2 DEF TakeToken, TakeExtraToken
  <1>3. CASE ReadCount(t) \/ WriteCount(t)
    BY <1>1, <1>3 DEF ReadCount, WriteCount
  <1>4. CASE PassToken(t)
    BY <1>1, <1>4 DEF PassToken
  <1>5. CASE Break(t) \/ PassExtraToken(t)
    BY <1>1, <1>5 DEF Break, PassExtraToken
  <1>6. CASE EndRounds(t) \/ StartExtra(t) \/ Finish(t) \/ IncrementExtra(t)
    BY <1>1, <1>6 DEF EndRounds, StartExtra, Finish, IncrementExtra
  <1>7. CASE DecRemainder(t)
    BY <1>1, <1>7 DEF DecRemainder
  <1> QED
    BY <1>2, <1>3, <1>4, <1>5, <1>6, <1>7 DEF ThreadStep

\* A step that neither increments nor comes from line 45 makes nothing and counts nothing.
LEMMA QuietStep ==
    ASSUME NEW t \in Threads, Types,
           TakeToken(t) \/ ReadCount(t) \/ EndRounds(t) \/ StartExtra(t) \/ Finish(t)
             \/ TakeExtraToken(t) \/ IncrementExtra(t) \/ Break(t)
    PROVE  Made' = Made /\ Extra' = Extra /\ count' = count /\ remainderr' = remainderr
  <1>1. /\ count' = count /\ remainderr' = remainderr /\ i' = i
        /\ pc[t] \notin {"pass", "dec"} /\ pc'[t] \notin {"pass", "dec"}
        /\ \A u \in Threads \ {t} : pc'[u] = pc[u]
    BY DEF Types, Move, TakeToken, ReadCount, EndRounds, StartExtra, Finish, TakeExtraToken,
           IncrementExtra, Break
  <1>2. \A u \in Threads : /\ pc'[u] = "pass" <=> pc[u] = "pass"
                           /\ pc'[u] = "dec" <=> pc[u] = "dec"
    BY <1>1
  <1>3. Extra' = Extra
    BY <1>1, <1>2 DEF Extra
  <1>4. \A p \in Threads \X (1 .. quota) : pc'[p[1]] = "pass" <=> pc[p[1]] = "pass"
    BY <1>2
  <1>5. Made' = Made
    BY <1>1, <1>4 DEF Made
  <1> QED
    BY <1>1, <1>3, <1>5

\* count and what it is made of change together.
LEMMA StepSum ==
    ASSUME SemRingAssumption, IInv, NEW t \in Threads, ThreadStep(t)
    PROVE  count' = Cardinality(Made') + (count_max % num_threads) - remainderr'
                        + Cardinality(Extra')
  <1>0. /\ quota \in Nat /\ count_max % num_threads \in Nat /\ remainderr \in Int /\ count \in Nat
        /\ count = Cardinality(Made) + (count_max % num_threads) - remainderr + Cardinality(Extra)
        /\ IsFiniteSet(Made) /\ Cardinality(Made) \in Nat
        /\ IsFiniteSet(Extra) /\ Cardinality(Extra) \in Nat
    BY Division, Sizes DEF IInv, Types, Counted
  <1>1. CASE TakeToken(t) \/ ReadCount(t) \/ EndRounds(t) \/ StartExtra(t) \/ Finish(t)
               \/ TakeExtraToken(t) \/ IncrementExtra(t) \/ Break(t)
    BY <1>0, <1>1, QuietStep DEF IInv
  <1>2. CASE WriteCount(t)
    <2>1. /\ pc[t] = "write" /\ pc' = [pc EXCEPT ![t] = "pass"] /\ i' = i
          /\ remainderr' = remainderr /\ pc \in [Threads -> Places] /\ i[t] \in 0 .. quota
      BY <1>2 DEF WriteCount, Move, IInv, Types
    <2>2. count' = count + 1
      BY <1>2, <2>1 DEF WriteCount, IInv, Counted
    <2>3. CASE i[t] > 0
      <3>1. <<t, i[t]>> \in Threads \X (1 .. quota) /\ <<t, i[t]>> \notin Made
        BY <1>0, <2>1, <2>3 DEF Made
      <3>2. Made' = Made \union {<<t, i[t]>>}
        BY <1>0, <2>1, <3>1 DEF Made
      <3>3. Extra' = Extra
        BY <2>1, <2>3 DEF Extra
      <3>4. Cardinality(Made') = Cardinality(Made) + 1
        BY <1>0, <3>1, <3>2, FS_AddElement
      <3> QED
        BY <1>0, <2>1, <2>2, <3>3, <3>4
    <2>4. CASE i[t] = 0
      <3>1. Made' = Made
        BY <1>0, <2>1, <2>4 DEF Made
      <3>2. t \notin Extra /\ Extra' = Extra \union {t}
        BY <2>1, <2>4 DEF Extra
      <3>3. Cardinality(Extra') = Cardinality(Extra) + 1
        BY <1>0, <3>2, FS_AddElement
      <3> QED
        BY <1>0, <2>1, <2>2, <3>1, <3>3
    <2> QED
      BY <1>0, <2>1, <2>3, <2>4
  <1>3. CASE PassToken(t)
    <2>1. /\ i[t] > 0 /\ pc[t] = "pass" /\ pc' = [pc EXCEPT ![t] = "rounds"]
          /\ i' = [i EXCEPT ![t] = @ - 1] /\ count' = count /\ remainderr' = remainderr
          /\ pc \in [Threads -> Places] /\ i \in [Threads -> 0 .. quota]
      BY <1>3 DEF PassToken, Move, IInv, Types
    <2>2. Extra' = Extra
      BY <1>0, <2>1 DEF Extra
    <2>3. Made' = Made
      BY <1>0, <2>1 DEF Made
    <2> QED
      BY <1>0, <2>1, <2>2, <2>3
  <1>4. CASE PassExtraToken(t)
    <2>1. /\ i[t] = 0 /\ pc[t] = "pass" /\ pc' = [pc EXCEPT ![t] = "dec"] /\ i' = i
          /\ count' = count /\ remainderr' = remainderr /\ pc \in [Threads -> Places]
      BY <1>4 DEF PassExtraToken, Move, IInv, Types
    <2>2. Extra' = Extra
      BY <2>1 DEF Extra
    <2>3. Made' = Made
      BY <1>0, <2>1 DEF Made
    <2> QED
      BY <1>0, <2>1, <2>2, <2>3
  <1>5. CASE DecRemainder(t)
    <2>1. /\ pc[t] = "dec" /\ pc' = [pc EXCEPT ![t] = "extra"] /\ i' = i
          /\ count' = count /\ remainderr' = remainderr - 1 /\ pc \in [Threads -> Places]
      BY <1>5 DEF DecRemainder, Move, IInv, Types
    <2>2. t \in Extra /\ Extra' = Extra \ {t}
      BY <2>1 DEF Extra
    <2>3. Made' = Made
      BY <1>0, <2>1 DEF Made
    <2>4. Cardinality(Extra') = Cardinality(Extra) - 1
      BY <1>0, <2>2, FS_RemoveElement
    <2> QED
      BY <1>0, <2>1, <2>3, <2>4
  <1> QED
    BY <1>1, <1>2, <1>3, <1>4, <1>5 DEF ThreadStep

\* Nobody increments between a read of count and its write.
LEMMA StepCounted ==
    ASSUME SemRingAssumption, IInv, NEW t \in Threads, ThreadStep(t)
    PROVE  Counted'
  <1> SUFFICES \A u \in Threads : aux'[u] <= count' /\ (pc'[u] = "write" => aux'[u] = count')
    BY StepSum DEF Counted
  <1>1. /\ Types
        /\ \A u \in Threads : aux[u] <= count /\ (pc[u] = "write" => aux[u] = count)
    BY DEF IInv, Counted
  <1>2. CASE ReadCount(t)
    BY <1>1, <1>2 DEF ReadCount, Move, Types
  <1>3. CASE WriteCount(t)
    <2>1. /\ pc[t] = "write" /\ pc' = [pc EXCEPT ![t] = "pass"] /\ aux' = aux
          /\ count' = count + 1
      BY <1>1, <1>3 DEF WriteCount, Move
    <2>2. Holders = {t}
      BY <2>1, HolderAlone DEF Holders, IInv
    <2>3. \A u \in Threads : pc'[u] # "write"
      BY <1>1, <2>1, <2>2 DEF Holders, Types
    <2> QED
      BY <1>1, <2>1, <2>3 DEF Types
  <1>4. CASE \/ TakeToken(t) \/ PassToken(t) \/ EndRounds(t) \/ StartExtra(t) \/ Finish(t)
             \/ TakeExtraToken(t) \/ IncrementExtra(t) \/ Break(t) \/ PassExtraToken(t)
             \/ DecRemainder(t)
    <2>1. /\ aux' = aux /\ count' = count /\ pc'[t] # "write"
          /\ \A u \in Threads \ {t} : pc'[u] = pc[u]
      BY <1>1, <1>4
      DEF Types, Move, TakeToken, PassToken, EndRounds, StartExtra, Finish, TakeExtraToken,
          IncrementExtra, Break, PassExtraToken, DecRemainder
    <2> QED
      BY <1>1, <2>1
  <1> QED
    BY <1>2, <1>3, <1>4 DEF ThreadStep

\* A thread joins those that have passed line 38 only while something remains.
LEMMA StepRemains ==
    ASSUME SemRingAssumption, IInv, NEW t \in Threads, ThreadStep(t)
    PROVE  Remains'
  <1>0. /\ count_max % num_threads \in Nat /\ remainderr \in Int /\ num_threads \in Nat
        /\ IsFiniteSet(Pending) /\ Cardinality(Pending) \in Nat
        /\ IsFiniteSet(Pending') /\ Cardinality(Pending') \in 0 .. num_threads
        /\ remainderr <= count_max % num_threads
        /\ remainderr - Cardinality(Pending) >= 1 - num_threads
        /\ pc \in [Threads -> Places] /\ i \in [Threads -> 0 .. quota]
    <2>1. Pending' \in SUBSET Threads
      BY DEF Pending
    <2> QED
      BY <2>1, Division, Sizes, CountThreads DEF IInv, Types, Remains, SemRingAssumption
  <1>1. CASE IncrementExtra(t)
    BY <1>0, <1>1 DEF IncrementExtra, RemainderLeft, Remains
  <1>2. CASE DecRemainder(t)
    <2>1. /\ pc[t] = "dec" /\ pc' = [pc EXCEPT ![t] = "extra"] /\ i' = i
          /\ remainderr' = remainderr - 1
      BY <1>2 DEF DecRemainder, Move
    <2>2. t \in Pending /\ Pending' = Pending \ {t}
      BY <1>0, <2>1 DEF Pending
    <2>3. Cardinality(Pending') = Cardinality(Pending) - 1
      BY <1>0, <2>2, FS_RemoveElement
    <2> QED
      BY <1>0, <2>1, <2>3 DEF Remains
  <1>3. CASE \/ TakeToken(t) \/ ReadCount(t) \/ WriteCount(t) \/ PassToken(t) \/ EndRounds(t)
             \/ StartExtra(t) \/ Finish(t) \/ TakeExtraToken(t) \/ Break(t) \/ PassExtraToken(t)
    <2>1. remainderr' = remainderr /\ Pending' \subseteq Pending
      <3>1. CASE TakeToken(t) \/ ReadCount(t) \/ WriteCount(t) \/ PassExtraToken(t)
        BY <1>0, <3>1 DEF TakeToken, ReadCount, WriteCount, PassExtraToken, Move, Pending
      <3>2. CASE PassToken(t)
        BY <1>0, <3>2 DEF PassToken, Move, Pending
      <3>3. CASE EndRounds(t) \/ StartExtra(t) \/ Finish(t) \/ TakeExtraToken(t) \/ Break(t)
        BY <1>0, <3>3 DEF EndRounds, StartExtra, Finish, TakeExtraToken, Break, Move, Pending
      <3> QED
        BY <1>3, <3>1, <3>2, <3>3
    <2>2. Cardinality(Pending') <= Cardinality(Pending)
      BY <1>0, <2>1, FS_Subset
    <2> QED
      BY <1>0, <2>1, <2>2 DEF Remains
  <1> QED
    BY <1>1, <1>2, <1>3 DEF ThreadStep
------------------------------------------------------------------------------
LEMMA CreateIInv ==
    ASSUME SemRingAssumption, IInv, NEW t \in Threads, Create(t)
    PROVE  IInv'
  <1>1. /\ pc[t] = "new" /\ pc' = [pc EXCEPT ![t] = "rounds"]
        /\ UNCHANGED <<mutex, remainderr, count, aux, i, main>>
        /\ pc \in [Threads -> Places]
    BY DEF Create, Move, IInv, Types
  <1>2. Types'
    BY <1>1 DEF IInv, Types, Places
  <1>3. Holders' = Holders /\ Made' = Made /\ Extra' = Extra /\ Pending' = Pending
    BY <1>1 DEF Holders, Made, Extra, Pending
  <1>4. Token'
    BY <1>1, <1>3 DEF IInv, Token, TokenAt
  <1>5. Phases'
    BY <1>1 DEF IInv, Phases
  <1>6. Counted'
    BY <1>1, <1>3 DEF IInv, Counted
  <1>7. Remains'
    BY <1>1, <1>3 DEF IInv, Remains
  <1> QED
    BY <1>2, <1>4, <1>5, <1>6, <1>7 DEF IInv

LEMMA UnchangedIInv ==
    ASSUME IInv, UNCHANGED <<mutex, remainderr, count, aux, i, pc>>,
           main' = main \/ (main' = "done" /\ \A t \in Threads : pc[t] = "done")
    PROVE  IInv'
  <1>1. Holders' = Holders /\ Made' = Made /\ Extra' = Extra /\ Pending' = Pending
    BY DEF Holders, Made, Extra, Pending
  <1>2. Types' /\ Token' /\ Phases'
    BY <1>1 DEF IInv, Types, Token, TokenAt, Phases
  <1>3. Counted' /\ Remains'
    BY <1>1 DEF IInv, Counted, Remains
  <1> QED
    BY <1>2, <1>3 DEF IInv

LEMMA NextIInv == SemRingAssumption /\ IInv /\ [Next]_vars => IInv'
  <1> SUFFICES ASSUME SemRingAssumption, IInv, [Next]_vars PROVE IInv'
    OBVIOUS
  <1>1. CASE \E t \in Threads : ThreadStep(t)
    <2>1. PICK t \in Threads : ThreadStep(t)
      BY <1>1
    <2> QED
      BY <2>1, StepTypes, StepToken, StepPhases, StepCounted, StepRemains DEF IInv
  <1>2. CASE \E t \in Threads : Create(t)
    BY <1>2, CreateIInv
  <1>3. CASE JoinedAll \/ Terminated \/ UNCHANGED vars
    BY <1>3, UnchangedIInv DEF JoinedAll, Terminated, vars
  <1> QED
    BY <1>1, <1>2, <1>3 DEF Next, MainStep

LEMMA Invariance == ASSUME SemRingAssumption PROVE Spec => []IInv
  <1>1. Init => IInv
    BY InitIInv
  <1>2. IInv /\ [Next]_vars => IInv'
    BY NextIInv
  <1> QED
    BY <1>1, <1>2, PTL DEF Spec
------------------------------------------------------------------------------
LEMMA TokenIsOne == ASSUME SemRingAssumption, IInv PROVE OneToken
  <1>1. PICK h \in Threads : TokenAt(h)
    BY DEF IInv, Token
  <1>2. CASE Holders = {h} /\ \A t \in Threads : mutex[t] = 0
    <2>1. {t \in Threads : mutex[t] = 1} = {}
      BY <1>2
    <2>2. Cardinality(Holders) = 1 /\ Cardinality({t \in Threads : mutex[t] = 1}) = 0
      BY <1>2, <2>1, FS_Singleton, FS_EmptySet
    <2> QED
      BY <1>2, <2>2 DEF OneToken
  <1>3. CASE Holders = {} /\ \A t \in Threads : mutex[t] = IF t = h THEN 1 ELSE 0
    <2>1. {t \in Threads : mutex[t] = 1} = {h}
      BY <1>3
    <2>2. Cardinality(Holders) = 0 /\ Cardinality({t \in Threads : mutex[t] = 1}) = 1
      BY <1>3, <2>1, FS_Singleton, FS_EmptySet
    <2>3. \A t \in Threads : mutex[t] <= 1
      BY <1>3
    <2> QED
      BY <2>2, <2>3 DEF OneToken
  <1> QED
    BY <1>1, <1>2, <1>3 DEF TokenAt

\* The semaphores of l8_ex4.c never hold two tokens together, and none is ever lost while
\* a thread computes: the increments, which take no lock of their own, exclude each other.
THEOREM RingHasOneToken == ASSUME SemRingAssumption PROVE Spec => []OneToken
  <1>1. IInv => OneToken
    BY TokenIsOne
  <1> QED
    BY <1>1, Invariance, PTL

LEMMA NothingIsMissed == ASSUME SemRingAssumption, IInv PROVE NothingMissed
  <1> SUFFICES ASSUME main = "done" PROVE NothingMissed
    BY DEF NothingMissed
  <1>1. \A t \in Threads : pc[t] = "done" /\ i[t] = 0 /\ remainderr <= 0
    BY DEF IInv, Phases
  <1>2. 0 \in Threads /\ quota \in Nat
    BY Division DEF Threads, SemRingAssumption
  <1>3. Made = Threads \X (1 .. quota)
    BY <1>1, <1>2 DEF Made
  <1>4. Extra = {} /\ Pending = {}
    BY <1>1 DEF Extra, Pending
  <1>5. /\ Cardinality(Made) = num_threads * quota
        /\ Cardinality(Extra) = 0 /\ Cardinality(Pending) = 0
    BY <1>3, <1>4, CountPairs, FS_EmptySet
  <1>6. count = num_threads * quota + (count_max % num_threads) - remainderr
    BY <1>2, <1>5, Division DEF IInv, Types, Counted
  <1>7. /\ count_max = num_threads * quota + (count_max % num_threads)
        /\ remainderr \in Int /\ remainderr <= 0 /\ remainderr >= 1 - num_threads
    BY <1>1, <1>2, <1>5, Division DEF IInv, Types, Remains, SemRingAssumption
  <1> QED
    BY <1>6, <1>7, Division DEF NothingMissed, SemRingAssumption

\* "so we don't miss any count" (line 61): when the threads have been joined, count is
\* count_max and what was counted too much, which is less than num_threads.
THEOREM RingMissesNothing == ASSUME SemRingAssumption PROVE Spec => []NothingMissed
  <1>1. IInv => NothingMissed
    BY NothingIsMissed
  <1> QED
    BY <1>1, Invariance, PTL

LEMMA TypesHold == ASSUME SemRingAssumption, IInv PROVE TypeOK
  <1>1. mutex \in [Threads -> 0 .. 1]
    BY DEF IInv, Types, Token, TokenAt
  <1>2. /\ Cardinality(Made) \in Nat /\ Cardinality(Made) <= num_threads * quota
        /\ Cardinality(Extra) <= Cardinality(Pending)
        /\ Cardinality(Extra) \in Nat /\ Cardinality(Pending) \in 0 .. num_threads
    <2>1. Made \in SUBSET (Threads \X (1 .. quota)) /\ Extra \subseteq Pending
      BY DEF Made, Extra, Pending
    <2> QED
      BY <2>1, Sizes, CountPairs, FS_Subset, Division
  <1>3. remainderr \in 1 - num_threads .. num_threads - 1
    BY <1>2, Division DEF IInv, Types, Remains, SemRingAssumption
  <1>4. count <= count_max + num_threads /\ count \in Nat
    BY <1>2, Division DEF IInv, Types, Counted, Remains, SemRingAssumption
  <1>5. aux \in [Threads -> 0 .. count_max + num_threads]
    <2>1. \A t \in Threads : aux[t] \in 0 .. count_max + num_threads
      BY <1>4 DEF IInv, Types, Counted, SemRingAssumption
    <2> QED
      BY <2>1 DEF IInv, Types
  <1> QED
    BY <1>1, <1>3, <1>4, <1>5 DEF IInv, Types, TypeOK, SemRingAssumption

\* remainderr and count never leave their bounds: the unlocked test of line 35 lets
\* remainderr fall below 0 by less than one lap of the ring.
THEOREM TypeCorrect == ASSUME SemRingAssumption PROVE Spec => []TypeOK
  <1>1. IInv => TypeOK
    BY TypesHold
  <1> QED
    BY <1>1, Invariance, PTL
------------------------------------------------------------------------------
(* The refinement: the rounds are turns.                                   *)

Turns == INSTANCE TakingTurns WITH N <- num_threads, R <- quota, taken <- Taken

\* Thread h has the token, q rounds are complete, and the threads before h have had their
\* turn of the next one.
InRound(h, q) == TokenAt(h) /\ \A t \in Threads : i[t] = quota - q - IF t < h THEN 1 ELSE 0
RoundsOver == \A t \in Threads : i[t] = 0

\* While rounds are left, what the threads have still to do tells where the token is.
Ordered == RoundsOver \/ \E h \in Threads, q \in 0 .. quota - 1 : InRound(h, q)

LEMMA InitOrdered == SemRingAssumption /\ Init => Ordered /\ Turns!Init
  <1> SUFFICES ASSUME SemRingAssumption, Init PROVE Ordered /\ Turns!Init
    OBVIOUS
  <1>1. quota \in Nat /\ 0 \in Threads /\ \A t \in Threads : t \in Nat
    BY Division DEF SemRingAssumption, Threads
  <1>2. TokenAt(0)
    BY <1>1 DEF Init, TokenAt, Holders
  <1>3. quota = 0 => Ordered
    BY DEF Init, Ordered, RoundsOver
  <1>4. quota > 0 => InRound(0, 0) /\ 0 \in 0 .. quota - 1
    BY <1>1, <1>2 DEF Init, InRound
  <1>5. Turns!Init
    BY <1>1 DEF Init, Turns!Init, Turns!Who, Taken, Threads
  <1> QED
    BY <1>1, <1>3, <1>4, <1>5 DEF Ordered

\* In a round, only the thread whose turn it is counts down.
LEMMA StepOrdered ==
    ASSUME SemRingAssumption, IInv, Ordered, NEW t \in Threads, ThreadStep(t)
    PROVE  Ordered' /\ [Turns!Next]_Taken
  <1>1. /\ quota \in Nat /\ num_threads \in Nat /\ num_threads > 0 /\ t \in 0 .. num_threads - 1
        /\ NextOf(t) = (IF t = num_threads - 1 THEN 0 ELSE t + 1) /\ NextOf(t) \in Threads
        /\ 0 \in Threads
    BY Division DEF SemRingAssumption, Threads, NextOf
  <1>2. i \in [Threads -> 0 .. quota] /\ pc \in [Threads -> Places]
    BY DEF IInv, Types
  <1>3. ASSUME NEW h \in Threads, NEW u \in Threads, TokenAt(h), u \in Holders \/ mutex[u] > 0
        PROVE  u = h
    BY <1>3 DEF TokenAt
  <1>4. CASE PassToken(t)
    <2>1. /\ i[t] > 0 /\ t \in Holders /\ pc' = [pc EXCEPT ![t] = "rounds"]
          /\ mutex' = [mutex EXCEPT ![NextOf(t)] = @ + 1] /\ i' = [i EXCEPT ![t] = @ - 1]
      BY <1>4 DEF PassToken, Move, SemPostAt, Holders
    <2>2. PICK q \in 0 .. quota - 1 : InRound(t, q)
      BY <1>3, <2>1 DEF Ordered, RoundsOver, InRound
    <2>3. Holders = {t} /\ \A u \in Threads : mutex[u] = 0
      BY <2>1, HolderAlone DEF IInv
    <2>4. Holders' = {} /\ \A u \in Threads : mutex'[u] = IF u = NextOf(t) THEN 1 ELSE 0
      BY <1>1, <1>2, <2>1, <2>3 DEF Holders, IInv, Types
    <2>5. TokenAt(NextOf(t))'
      BY <2>4 DEF TokenAt
    <2>6. \A u \in Threads : i'[u] = quota - q - IF u <= t THEN 1 ELSE 0
      BY <1>1, <1>2, <2>1, <2>2 DEF InRound, Threads
    <2>7. Ordered'
      <3>1. CASE t < num_threads - 1
        <4>1. InRound(t + 1, q)'
          BY <1>1, <2>5, <2>6, <3>1 DEF InRound, Threads
        <4> QED
          BY <1>1, <3>1, <4>1 DEF Ordered, Threads
      <3>2. CASE t = num_threads - 1
        <4>1. \A u \in Threads : i'[u] = quota - (q + 1)
          BY <1>1, <2>6, <3>2 DEF Threads
        <4>2. CASE q + 1 = quota
          BY <4>1, <4>2 DEF Ordered, RoundsOver
        <4>3. CASE q + 1 # quota
          <5>1. InRound(0, q + 1)'
            BY <1>1, <2>5, <3>2, <4>1 DEF InRound, Threads
          <5> QED
            BY <1>1, <4>3, <5>1 DEF Ordered
        <4> QED
          BY <4>2, <4>3
      <3> QED
        BY <1>1, <3>1, <3>2
    <2>8. Turns!Turn(t)
      <3>1. \A u \in Threads : Taken[u] = q + IF u < t THEN 1 ELSE 0
        BY <1>1, <1>2, <2>2 DEF InRound, Taken, Threads
      <3>2. Taken' = [Taken EXCEPT ![t] = @ + 1]
        <4>1. Taken'[t] = Taken[t] + 1
          BY <1>1, <1>2, <2>1 DEF Taken
        <4>2. \A u \in Threads \ {t} : Taken'[u] = Taken[u]
          BY <1>2, <2>1 DEF Taken
        <4>3. /\ DOMAIN Taken = Threads /\ Taken = [u \in Threads |-> Taken[u]]
              /\ Taken' = [u \in Threads |-> Taken'[u]]
          BY DEF Taken
        <4> QED
          BY <4>1, <4>2, <4>3
      <3> QED
        BY <1>1, <3>1, <3>2 DEF Turns!Turn, Turns!HasTurn, Turns!Who, Threads
    <2> QED
      BY <1>1, <2>7, <2>8 DEF Turns!Next, Turns!Who, Threads
  <1>5. CASE ~PassToken(t)
    <2>1. i' = i
      BY <1>5 DEF ThreadStep, TakeToken, ReadCount, WriteCount, EndRounds, StartExtra, Finish,
                  TakeExtraToken, IncrementExtra, Break, PassExtraToken, DecRemainder
    <2>2. Taken' = Taken
      BY <2>1 DEF Taken
    <2>3. RoundsOver => Ordered'
      BY <2>1 DEF Ordered, RoundsOver
    <2>4. ASSUME NEW h \in Threads, NEW q \in 0 .. quota - 1, InRound(h, q) PROVE Ordered'
      <3>1. i[h] > 0 /\ TokenAt(h)
        BY <1>1, <2>4 DEF InRound, Threads
      <3>2. TokenAt(h)'
        <4>1. CASE TakeToken(t)
          <5>1. mutex[t] > 0 /\ mutex' = [mutex EXCEPT ![t] = @ - 1]
            BY <4>1 DEF TakeToken, SemWaitAt
          <5>2. /\ t = h /\ Holders = {}
                /\ \A u \in Threads : mutex[u] = IF u = t THEN 1 ELSE 0
            BY <1>3, <3>1, <5>1, FreeAlone DEF IInv
          <5>3. Holders' = {t} /\ \A u \in Threads : mutex'[u] = 0
            BY <1>2, <4>1, <5>1, <5>2 DEF TakeToken, Move, Holders, IInv, Types
          <5> QED
            BY <5>2, <5>3 DEF TokenAt
        <4>2. ~TakeExtraToken(t)
          BY <1>3, <3>1 DEF TakeExtraToken, Move, SemWaitAt, IInv, Phases
        <4>3. ~Break(t) /\ ~PassExtraToken(t)
          BY <1>3, <3>1 DEF Break, PassExtraToken, Move, Holders, IInv, Phases
        <4>4. CASE ReadCount(t) \/ WriteCount(t) \/ EndRounds(t) \/ StartExtra(t)
                     \/ Finish(t) \/ IncrementExtra(t) \/ DecRemainder(t)
          <5>1. Holders' = Holders /\ mutex' = mutex
            BY <1>2, <4>4 DEF ReadCount, WriteCount, EndRounds, StartExtra, Finish,
                              IncrementExtra, DecRemainder, Move, Holders
          <5> QED
            BY <3>1, <5>1 DEF TokenAt
        <4> QED
          BY <1>5, <4>1, <4>2, <4>3, <4>4 DEF ThreadStep
      <3> QED
        BY <2>1, <2>4, <3>2 DEF Ordered, InRound
    <2> QED
      BY <2>2, <2>3, <2>4 DEF Ordered
  <1> QED
    BY <1>4, <1>5

LEMMA NextOrdered ==
    SemRingAssumption /\ IInv /\ Ordered /\ [Next]_vars => Ordered' /\ [Turns!Next]_Taken
  <1> SUFFICES ASSUME SemRingAssumption, IInv, Ordered, [Next]_vars
               PROVE  Ordered' /\ [Turns!Next]_Taken
    OBVIOUS
  <1>1. CASE \E t \in Threads : ThreadStep(t)
    BY <1>1, StepOrdered
  <1>2. CASE MainStep \/ Terminated \/ UNCHANGED vars
    <2>1. UNCHANGED <<i, mutex>> /\ Holders' = Holders
      BY <1>2 DEF MainStep, Create, JoinedAll, Terminated, vars, Move, Holders, IInv, Types
    <2> QED
      BY <2>1 DEF Ordered, RoundsOver, InRound, TokenAt, Taken
  <1> QED
    BY <1>1, <1>2 DEF Next

\* In the rounds of l8_ex4.c the threads take their turns in the order of their numbers,
\* count_max / num_threads each.
THEOREM RoundsInTurn == ASSUME SemRingAssumption PROVE Spec => Turns!Safety
  <1>1. Init => Turns!Init /\ Ordered
    BY InitOrdered
  <1>2. IInv /\ Ordered /\ [Next]_vars => Ordered' /\ [Turns!Next]_Taken
    BY NextOrdered
  <1> QED
    BY <1>1, <1>2, Invariance, PTL DEF Spec, Turns!Safety
===============================================================================
