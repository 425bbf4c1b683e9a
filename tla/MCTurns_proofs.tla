--------------------------- MODULE MCTurns_proofs ----------------------------
(***************************************************************************)
(* Proofs about the programs of MCTurns, for every number of threads and   *)
(* of turns.  All of them take their turns in the order of the numbers of  *)
(* their threads, that is, they implement TakingTurns.  TurnCounter: no    *)
(* thread sleeps through its turn, and the count is n * m when main has    *)
(* joined the threads.  The rings of l8_ex4.c, without and with a          *)
(* remainder, and of lab11_ex3.c have one token each.  The variables of    *)
(* all programs have their types.                                          *)
(***************************************************************************)
EXTENDS MCTurns, FiniteSetTheorems, TLAPS

Types ==
    /\ mutex \in Threads \cup {Nobody}
    /\ cond \in SUBSET Threads
    /\ count \in Nat
    /\ i \in [Threads -> Nat]
    /\ pc \in [Threads -> Places]
    /\ main \in {"running", "done"}

\* The mutex belongs to the thread between its lock and its unlock.
Exclusion == \A t \in Threads : pc[t] = "test" <=> mutex = t

\* q rounds are complete and the first r threads have had their turn of the next one.
InRound(q, r) ==
    /\ count = q * n + r
    /\ \A t \in Threads : i[t] = q + (IF t < r THEN 1 ELSE 0)

\* Nobody goes beyond the loop of line 16, and who is in it has turns left.
Rounds ==
    \A t \in Threads :
        /\ i[t] <= m
        /\ pc[t] \in {"test", "waiting"} => i[t] < m
        /\ pc[t] = "done" => i[t] = m

\* The inductive invariant: count alone says whose turn it is, and the loop variables
\* agree with it.
IInv ==
    /\ Types /\ Exclusion /\ Rounds /\ NoLostTurn
    /\ \E q \in Nat, r \in Threads : InRound(q, r)
    /\ main = "done" => \A t \in Threads : pc[t] = "done"
------------------------------------------------------------------------------
(* Arithmetic.                                                              *)

LEMMA MulMono ==
    ASSUME NEW a \in Int, NEW b \in Int, NEW k \in Nat, a <= b
    PROVE  a * k <= b * k /\ a * k \in Int
  OBVIOUS

LEMMA Multiple ==
    ASSUME NEW k \in Nat \ {0}, NEW q \in Nat, NEW r \in 0 .. k - 1
    PROVE  (q * k + r) % k = r /\ (q * k + r) \div k = q
  <1> DEFINE x == q * k + r
             d == x \div k
             s == x % k
  <1>1. k \in Nat /\ k > 0 /\ q * k \in Nat /\ x \in Nat
    OBVIOUS
  <1>2. d \in Int /\ s \in 0 .. k - 1 /\ x = d * k + s
    BY <1>1
  <1> HIDE DEF d, s, x
  <1>3. CASE d < q
    <2>1. (d + 1) * k <= q * k /\ (d + 1) * k = d * k + k
      BY <1>1, <1>2, <1>3, MulMono
    <2> QED
      BY <1>1, <1>2, <2>1 DEF x
  <1>4. CASE q < d
    <2>1. (q + 1) * k <= d * k /\ (q + 1) * k = q * k + k
      BY <1>1, <1>2, <1>4, MulMono
    <2> QED
      BY <1>1, <1>2, <2>1 DEF x
  <1>5. CASE d = q
    BY <1>1, <1>2, <1>5 DEF x, s, d
  <1> QED
    BY <1>2, <1>3, <1>4, <1>5

\* Whose turn it is.
LEMMA TurnOf ==
    ASSUME NEW q \in Nat, NEW r \in Threads, InRound(q, r), NEW t \in Threads
    PROVE  MyTurn(t) <=> t = r
  BY Multiple, TurnCounterAssumption DEF InRound, MyTurn, Threads
------------------------------------------------------------------------------
LEMMA InitIInv == Init => IInv
  <1> SUFFICES ASSUME Init PROVE IInv
    OBVIOUS
  <1>1. Types /\ Exclusion /\ Rounds /\ NoLostTurn
    BY TurnCounterAssumption
    DEF Init, Types, Exclusion, Rounds, NoLostTurn, Places, Threads
  <1>2. InRound(0, 0) /\ 0 \in Threads
    BY TurnCounterAssumption DEF Init, InRound, Threads
  <1> QED
    BY <1>1, <1>2 DEF IInv, Init

\* A turn is the next one of the round, or the first of the next round.
LEMMA IncrementInRound ==
    ASSUME IInv, NEW t \in Threads, Increment(t),
           NEW q \in Nat, NEW r \in Threads, InRound(q, r)
    PROVE  \E q1 \in Nat, r1 \in Threads : InRound(q1, r1)'
  <1>1. t = r /\ n \in Nat /\ n > 0 /\ q * n \in Nat
    BY TurnOf, TurnCounterAssumption, MulMono DEF Increment
  <1>2. /\ count' = count + 1 /\ i \in [Threads -> Nat]
        /\ i' = [i EXCEPT ![t] = @ + 1]
    BY DEF Increment, IInv, Types
  <1>3. CASE r + 1 < n
    <2>1. r + 1 \in Threads
      BY <1>1, <1>3 DEF Threads
    <2>2. count' = q * n + (r + 1)
      BY <1>1, <1>2 DEF InRound, Threads
    <2>3. \A u \in Threads : i'[u] = q + (IF u < r + 1 THEN 1 ELSE 0)
      BY <1>1, <1>2 DEF InRound, Threads
    <2> QED
      BY <2>1, <2>2, <2>3 DEF InRound
  <1>4. CASE r + 1 = n
    <2>1. 0 \in Threads /\ q + 1 \in Nat
      BY <1>1 DEF Threads
    <2>2. count' = (q + 1) * n + 0
      <3>1. (q + 1) * n = q * n + n
        BY <1>1
      <3> QED
        BY <1>1, <1>2, <1>4, <3>1 DEF InRound, Threads
    <2>3. \A u \in Threads : i'[u] = (q + 1) + (IF u < 0 THEN 1 ELSE 0)
      BY <1>1, <1>2, <1>4 DEF InRound, Threads
    <2> QED
      BY <2>1, <2>2, <2>3 DEF InRound
  <1> QED
    BY <1>1, <1>3, <1>4 DEF Threads

LEMMA NextIInv == IInv /\ [Next]_vars => IInv'
  <1> SUFFICES ASSUME IInv, [Next]_vars PROVE IInv'
    OBVIOUS
  <1> PICK q \in Nat, r \in Threads : InRound(q, r)
    BY DEF IInv
  <1> USE DEF IInv, Types, Exclusion, Rounds, NoLostTurn, Places, Move, Lock, Unlock
  <1>0. Nobody \notin Threads
    BY TurnCounterAssumption DEF Threads
  <1>1. ASSUME UNCHANGED <<count, i>>
        PROVE  /\ \E q1 \in Nat, r1 \in Threads : InRound(q1, r1)'
               /\ \A t \in Threads : MyTurn(t)' <=> MyTurn(t)
    BY <1>1 DEF InRound, MyTurn
  <1>2. ASSUME NEW t \in Threads, LockToTest(t) PROVE IInv'
    <2>1. Types' /\ Exclusion'
      BY <1>0, <1>2 DEF LockToTest
    <2>2. Rounds'
      BY <1>2 DEF LockToTest
    <2>3. NoLostTurn' /\ main' # "done"
      BY <1>1, <1>2 DEF LockToTest
    <2> QED
      BY <1>1, <1>2, <2>1, <2>2, <2>3 DEF LockToTest
  <1>3. ASSUME NEW t \in Threads, Wait(t) PROVE IInv'
    <2>1. Types' /\ Exclusion'
      BY <1>0, <1>3 DEF Wait, CondWait
    <2>2. Rounds'
      BY <1>3 DEF Wait
    <2>3. NoLostTurn' /\ main' # "done"
      BY <1>1, <1>3 DEF Wait, CondWait
    <2> QED
      BY <1>1, <1>3, <2>1, <2>2, <2>3 DEF Wait
  <1>4. ASSUME NEW t \in Threads, WakeUp(t) PROVE IInv'
    <2>1. Types' /\ Exclusion'
      BY <1>0, <1>4 DEF WakeUp
    <2>2. Rounds'
      BY <1>4 DEF WakeUp
    <2>3. NoLostTurn' /\ main' # "done"
      BY <1>1, <1>4 DEF WakeUp
    <2> QED
      BY <1>1, <1>4, <2>1, <2>2, <2>3 DEF WakeUp
  <1>5. ASSUME NEW t \in Threads, Increment(t) PROVE IInv'
    <2>1. Types' /\ Exclusion'
      BY <1>0, <1>5 DEF Increment, WakeWaiting, Broadcast
    <2>2. Rounds'
      BY <1>5, TurnCounterAssumption DEF Increment
    <2>3. NoLostTurn' /\ main' # "done"
      BY <1>5 DEF Increment, WakeWaiting, Broadcast
    <2>4. \E q1 \in Nat, r1 \in Threads : InRound(q1, r1)'
      BY <1>5, IncrementInRound
    <2> QED
      BY <2>1, <2>2, <2>3, <2>4
  <1>6. ASSUME NEW t \in Threads, Return(t) PROVE IInv'
    BY <1>1, <1>6 DEF Return
  <1>7. CASE Spurious
    BY <1>1, <1>7 DEF Spurious, SpuriousWakeup
  <1>8. ASSUME NEW t \in Threads, Create(t) PROVE IInv'
    BY <1>1, <1>8 DEF Create
  <1>9. CASE JoinedAll
    BY <1>1, <1>9 DEF JoinedAll
  <1>10. CASE UNCHANGED vars
    BY <1>1, <1>10 DEF vars
  <1> QED
    BY <1>2, <1>3, <1>4, <1>5, <1>6, <1>7, <1>8, <1>9, <1>10
    DEF Next, MainStep, ThreadStep, Terminated

LEMMA Invariance == Spec => []IInv
  BY InitIInv, NextIInv, PTL DEF Spec

\* "signal the next waiting thread to run" (line 24): the broadcast reaches the thread
\* whose turn it is, whatever the number of threads; nobody ever sleeps through it.
THEOREM NoTurnLost == Spec => []NoLostTurn
  <1>1. IInv => NoLostTurn
    BY DEF IInv
  <1> QED
    BY <1>1, Invariance, PTL

\* The rounds are worth n turns each.
LEMMA CountBound ==
    ASSUME IInv
    PROVE  count \in 0 .. n * m
  <1>1. PICK q \in Nat, r \in Threads : InRound(q, r)
    BY DEF IInv
  <1>2. n \in Nat /\ n > 0 /\ m \in Nat /\ r \in 0 .. n - 1 /\ 0 \in Threads
    BY TurnCounterAssumption DEF Threads
  <1>3. q + (IF 0 < r THEN 1 ELSE 0) <= m
    BY <1>1, <1>2 DEF InRound, IInv, Rounds
  <1>4. CASE r = 0
    <2>1. q * n <= m * n /\ m * n = n * m /\ q * n \in Nat
      BY <1>2, <1>3, <1>4, MulMono
    <2> QED
      BY <1>1, <1>2, <1>4, <2>1 DEF InRound
  <1>5. CASE r > 0
    <2>1. (q + 1) * n <= m * n /\ m * n = n * m /\ q * n \in Nat /\ (q + 1) * n = q * n + n
      BY <1>2, <1>3, <1>5, MulMono
    <2> QED
      BY <1>1, <1>2, <2>1 DEF InRound
  <1> QED
    BY <1>2, <1>4, <1>5

\* The variables have their types: count never exceeds n * m, however the threads
\* interleave.
THEOREM TypeCorrect == Spec => []TypeOK
  <1>1. IInv => TypeOK
    BY CountBound, TurnCounterAssumption DEF IInv, Types, Rounds, TypeOK
  <1> QED
    BY <1>1, Invariance, PTL

\* The final count is n * m (line 55), and main destroys a mutex nobody holds and a
\* condition variable nobody sleeps on.
THEOREM CountIsRight == Spec => [](main = "done" => count = n * m /\ mutex = Nobody)
  <1>1. IInv => (main = "done" => count = n * m /\ mutex = Nobody)
    <2> SUFFICES ASSUME IInv, main = "done" PROVE count = n * m /\ mutex = Nobody
      OBVIOUS
    <2>1. \A t \in Threads : i[t] = m /\ pc[t] = "done"
      BY DEF IInv, Rounds
    <2>2. mutex = Nobody
      BY <2>1 DEF IInv, Types, Exclusion
    <2>3. PICK q \in Nat, r \in Threads : InRound(q, r)
      BY DEF IInv
    <2>4. /\ n \in Nat /\ n > 0 /\ m \in Nat /\ r \in 0 .. n - 1
          /\ 0 \in Threads /\ n - 1 \in Threads
      BY TurnCounterAssumption DEF Threads
    <2>5. q = m /\ r = 0
      BY <2>1, <2>3, <2>4 DEF InRound
    <2>6. m * n = n * m /\ m * n \in Nat
      BY <2>4
    <2> QED
      BY <2>2, <2>3, <2>4, <2>5, <2>6 DEF InRound
  <1> QED
    BY <1>1, Invariance, PTL
------------------------------------------------------------------------------
(* The refinement.                                                         *)

Turns == INSTANCE TakingTurns WITH N <- n, R <- m, taken <- i

\* Who increments is the one whose turn it is in TakingTurns as well.
LEMMA NextRefines == IInv /\ [Next]_vars => [Turns!Next]_i
  <1> SUFFICES ASSUME IInv, [Next]_vars, i' # i PROVE Turns!Next
    OBVIOUS
  <1>1. PICK t \in Threads : Increment(t)
    BY DEF Next, MainStep, Create, JoinedAll, ThreadStep, LockToTest, Wait, WakeUp, Return,
           Spurious, Terminated, vars
  <1>2. PICK q \in Nat, r \in Threads : InRound(q, r)
    BY DEF IInv
  <1>3. t = r
    BY <1>1, <1>2, TurnOf DEF Increment
  <1>4. i[t] < m
    BY <1>1 DEF Increment, Move, IInv, Rounds
  <1>5. \A j \in Threads : i[j] = i[t] + (IF j < t THEN 1 ELSE 0)
    BY <1>2, <1>3 DEF InRound, Threads
  <1>6. i' = [i EXCEPT ![t] = @ + 1]
    BY <1>1 DEF Increment
  <1> QED
    BY <1>4, <1>5, <1>6 DEF Turns!Next, Turns!Turn, Turns!HasTurn, Turns!Who, Threads

\* The threads take their turns in the order 0, 1, ..., n-1, 0, 1, ..., m turns each:
\* MyTurn (line 18), which only looks at count, is what TakingTurns says of all threads.
THEOREM ImplementsTakingTurns == Spec => Turns!Safety
  <1>1. Init => Turns!Init
    BY DEF Init, Turns!Init, Turns!Who, Threads
  <1> QED
    BY <1>1, NextRefines, Invariance, PTL DEF Spec, Turns!Safety
------------------------------------------------------------------------------
(* The rings of semaphores.                                                *)

RingProofs == INSTANCE SemRing_proofs
    WITH num_threads <- n, count_max <- n * m,
         mutex <- x_lock, remainderr <- x_rem, count <- x_count, aux <- x_aux,
         i <- x_i, pc <- x_pc, main <- x_main
RemainderProofs == INSTANCE SemRing_proofs
    WITH num_threads <- n, count_max <- n * m + 2,
         mutex <- x_lock, remainderr <- x_rem, count <- x_count, aux <- x_aux,
         i <- x_i, pc <- x_pc, main <- x_main

LEMMA Assumptions == RingProofs!SemRingAssumption /\ RemainderProofs!SemRingAssumption
  BY TurnCounterAssumption
  DEF RingProofs!SemRingAssumption, RemainderProofs!SemRingAssumption

\* The module proved about is the one that MCTurns runs.
LEMMA RingInitIsSame == Ring!Init => RingProofs!Init
  BY DEF Ring!Init, RingProofs!Init, Ring!Threads, RingProofs!Threads, Ring!quota,
         RingProofs!quota

LEMMA RingStepIsSame ==
    Ring!MainStep \/ (\E t \in Ring!Threads : Ring!ThreadStep(t)) => RingProofs!Next
  <1>1. ASSUME Ring!MainStep PROVE RingProofs!MainStep
    BY <1>1
    DEF Ring!Threads, RingProofs!Threads, Ring!Move, RingProofs!Move, Ring!Create,
        RingProofs!Create, Ring!JoinedAll, RingProofs!JoinedAll, Ring!MainStep,
        RingProofs!MainStep
  <1>2. ASSUME NEW t \in Ring!Threads, Ring!ThreadStep(t) PROVE RingProofs!ThreadStep(t)
    BY <1>2
    DEF Ring!Threads, RingProofs!Threads, Ring!quota, RingProofs!quota, Ring!Move,
        RingProofs!Move, Ring!NextOf, RingProofs!NextOf, Ring!SemWaitAt,
        RingProofs!SemWaitAt, Ring!SemPostAt, RingProofs!SemPostAt, Ring!RemainderLeft,
        RingProofs!RemainderLeft, Ring!TakeToken, RingProofs!TakeToken, Ring!ReadCount,
        RingProofs!ReadCount, Ring!WriteCount, RingProofs!WriteCount, Ring!PassToken,
        RingProofs!PassToken, Ring!EndRounds, RingProofs!EndRounds, Ring!StartExtra,
        RingProofs!StartExtra, Ring!Finish, RingProofs!Finish, Ring!TakeExtraToken,
        RingProofs!TakeExtraToken, Ring!IncrementExtra, RingProofs!IncrementExtra,
        Ring!Break, RingProofs!Break, Ring!PassExtraToken, RingProofs!PassExtraToken,
        Ring!DecRemainder, RingProofs!DecRemainder, Ring!ThreadStep, RingProofs!ThreadStep
  <1> QED
    BY <1>1, <1>2 DEF RingProofs!Next, Ring!Threads, RingProofs!Threads

LEMMA RingStateIsSame == RingProofs!OneToken => Ring!OneToken
  <1>1. \A S : Ring!Cardinality(S) = RingProofs!Cardinality(S)
    BY DEF Ring!Cardinality, RingProofs!Cardinality
  <1>2. Ring!Threads = RingProofs!Threads /\ Ring!Holders = RingProofs!Holders
    BY DEF Ring!Holders, RingProofs!Holders, Ring!Threads, RingProofs!Threads
  <1> QED
    BY <1>1, <1>2 DEF Ring!OneToken, RingProofs!OneToken

\* The module proved about is the one that MCTurns runs.
LEMMA RemainderInitIsSame == Remainder!Init => RemainderProofs!Init
  BY DEF Remainder!Init, RemainderProofs!Init, Remainder!Threads, RemainderProofs!Threads,
         Remainder!quota, RemainderProofs!quota

LEMMA RemainderStepIsSame ==
    Remainder!MainStep \/ (\E t \in Remainder!Threads : Remainder!ThreadStep(t))
        => RemainderProofs!Next
  <1>1. ASSUME Remainder!MainStep PROVE RemainderProofs!MainStep
    BY <1>1
    DEF Remainder!Threads, RemainderProofs!Threads, Remainder!Move, RemainderProofs!Move,
        Remainder!Create, RemainderProofs!Create, Remainder!JoinedAll,
        RemainderProofs!JoinedAll, Remainder!MainStep, RemainderProofs!MainStep
  <1>2. ASSUME NEW t \in Remainder!Threads, Remainder!ThreadStep(t)
        PROVE  RemainderProofs!ThreadStep(t)
    BY <1>2
    DEF Remainder!Threads, RemainderProofs!Threads, Remainder!quota, RemainderProofs!quota,
        Remainder!Move, RemainderProofs!Move, Remainder!NextOf, RemainderProofs!NextOf,
        Remainder!SemWaitAt, RemainderProofs!SemWaitAt, Remainder!SemPostAt,
        RemainderProofs!SemPostAt, Remainder!RemainderLeft, RemainderProofs!RemainderLeft,
        Remainder!TakeToken, RemainderProofs!TakeToken, Remainder!ReadCount,
        RemainderProofs!ReadCount, Remainder!WriteCount, RemainderProofs!WriteCount,
        Remainder!PassToken, RemainderProofs!PassToken, Remainder!EndRounds,
        RemainderProofs!EndRounds, Remainder!StartExtra, RemainderProofs!StartExtra,
        Remainder!Finish, RemainderProofs!Finish, Remainder!TakeExtraToken,
        RemainderProofs!TakeExtraToken, Remainder!IncrementExtra,
        RemainderProofs!IncrementExtra, Remainder!Break, RemainderProofs!Break,
        Remainder!PassExtraToken, RemainderProofs!PassExtraToken, Remainder!DecRemainder,
        RemainderProofs!DecRemainder, Remainder!ThreadStep, RemainderProofs!ThreadStep
  <1> QED
    BY <1>1, <1>2 DEF RemainderProofs!Next, Remainder!Threads, RemainderProofs!Threads

LEMMA RemainderStateIsSame == RemainderProofs!OneToken => Remainder!OneToken
  <1>1. \A S : Remainder!Cardinality(S) = RemainderProofs!Cardinality(S)
    BY DEF Remainder!Cardinality, RemainderProofs!Cardinality
  <1>2. /\ Remainder!Threads = RemainderProofs!Threads
        /\ Remainder!Holders = RemainderProofs!Holders
    BY DEF Remainder!Holders, RemainderProofs!Holders, Remainder!Threads,
           RemainderProofs!Threads
  <1> QED
    BY <1>1, <1>2 DEF Remainder!OneToken, RemainderProofs!OneToken

LEMMA RemainderCountIsSame == RemainderProofs!NothingMissed => Remainder!NothingMissed
  BY DEF RemainderProofs!NothingMissed, Remainder!NothingMissed
------------------------------------------------------------------------------
(* The turns of all programs.                                              *)

\* One of k participants takes its turn in TakingTurns.
TakesTurn(k, old, new) ==
    \E t \in 0 .. k - 1 :
        /\ old[t] < m
        /\ \A u \in 0 .. k - 1 : old[u] = old[t] + IF u < t THEN 1 ELSE 0
        /\ new = [old EXCEPT ![t] = @ + 1]

\* q rounds are complete and the first r of k participants have had the next turn.
Round(k, taken, q, r) == \A t \in 0 .. k - 1 : taken[t] = q + IF t < r THEN 1 ELSE 0

\* The turn goes round.
LEMMA NextRound ==
    ASSUME NEW k \in Nat \ {0}, NEW taken \in [0 .. k - 1 -> Nat], NEW q \in Nat,
           NEW r \in 0 .. k - 1, Round(k, taken, q, r), taken[r] < m, NEW new,
           new = [taken EXCEPT ![r] = @ + 1]
    PROVE  /\ TakesTurn(k, taken, new) /\ new \in [0 .. k - 1 -> Nat]
           /\ r < k - 1 => r + 1 \in 0 .. k - 1 /\ Round(k, new, q, r + 1)
           /\ r = k - 1 => Round(k, new, q + 1, 0)
  <1>1. \A t \in 0 .. k - 1 : taken[t] = taken[r] + IF t < r THEN 1 ELSE 0
    BY DEF Round
  <1>2. TakesTurn(k, taken, new)
    BY <1>1 DEF TakesTurn
  <1>3. \A t \in 0 .. k - 1 : new[t] = q + IF t <= r THEN 1 ELSE 0
    BY DEF Round
  <1> QED
    BY <1>2, <1>3 DEF Round

\* Lab9_ex1_example.c, with k threads: count alone says whose turn it is, and the loop
\* variables agree with it, whoever was signalled.
SignalOrder(k) ==
    /\ x_i \in [0 .. k - 1 -> Nat]
    /\ x_pc \in [0 .. k - 1 -> Signal3!Places]
    /\ \A t \in 0 .. k - 1 : x_pc[t] \in {"test", "waiting"} => x_i[t] < m
    /\ \E q \in Nat, r \in 0 .. k - 1 : x_count = q * k + r /\ Round(k, x_i, q, r)

\* A step of the program: the increment of the thread whose turn it is, or a step that
\* brings only a thread with turns left into the loop.
SignalMove(k) ==
    /\ x_pc' \in [0 .. k - 1 -> Signal3!Places]
    /\ \/ /\ UNCHANGED <<x_count, x_i>>
          /\ \A t \in 0 .. k - 1 :
                 x_pc'[t] \in {"test", "waiting"} =>
                     x_pc[t] \in {"test", "waiting"} \/ x_i[t] < m
       \/ \E t \in 0 .. k - 1 :
              /\ x_pc[t] = "test" /\ x_count % k = t
              /\ x_count' = x_count + 1 /\ x_i' = [x_i EXCEPT ![t] = @ + 1]
              /\ x_pc'[t] = "loop" /\ \A u \in 0 .. k - 1 : u # t => x_pc'[u] = x_pc[u]

LEMMA SignalStep ==
    ASSUME NEW k \in Nat \ {0}, SignalOrder(k), SignalMove(k)
    PROVE  SignalOrder(k)' /\ (x_i' = x_i \/ TakesTurn(k, x_i, x_i'))
  <1>1. CASE UNCHANGED <<x_count, x_i>>
    BY <1>1 DEF SignalOrder, SignalMove, Round
  <1>2. ASSUME NEW t \in 0 .. k - 1, x_pc[t] = "test", x_count % k = t,
               x_count' = x_count + 1, x_i' = [x_i EXCEPT ![t] = @ + 1], x_pc'[t] = "loop",
               \A u \in 0 .. k - 1 : u # t => x_pc'[u] = x_pc[u]
        PROVE  SignalOrder(k)' /\ TakesTurn(k, x_i, x_i')
    <2>1. PICK q \in Nat, r \in 0 .. k - 1 : x_count = q * k + r /\ Round(k, x_i, q, r)
      BY DEF SignalOrder
    <2>2. t = r
      BY <1>2, <2>1, Multiple
    <2>3. x_i[r] < m /\ x_i \in [0 .. k - 1 -> Nat]
      BY <1>2, <2>2 DEF SignalOrder
    <2>4. /\ TakesTurn(k, x_i, x_i') /\ x_i' \in [0 .. k - 1 -> Nat]
          /\ r < k - 1 => r + 1 \in 0 .. k - 1 /\ Round(k, x_i', q, r + 1)
          /\ r = k - 1 => Round(k, x_i', q + 1, 0)
      <3>1. x_i' = [x_i EXCEPT ![r] = @ + 1]
        BY <1>2, <2>2
      <3> QED
        BY <2>1, <2>3, <3>1, NextRound
    <2>5. \E p \in Nat, s \in 0 .. k - 1 : x_count' = p * k + s /\ Round(k, x_i', p, s)
      <3>1. q * k \in Nat /\ (q + 1) * k = q * k + k
        OBVIOUS
      <3>2. CASE r < k - 1
        <4>1. x_count' = q * k + (r + 1)
          BY <1>2, <2>1, <3>1
        <4> QED
          BY <2>4, <3>2, <4>1
      <3>3. CASE r = k - 1
        <4>1. x_count' = (q + 1) * k + 0 /\ 0 \in 0 .. k - 1
          BY <1>2, <2>1, <3>1, <3>3
        <4> QED
          BY <2>4, <3>3, <4>1
      <3> QED
        BY <3>2, <3>3
    <2>6. \A u \in 0 .. k - 1 : x_pc'[u] \in {"test", "waiting"} => x_i'[u] < m
      BY <1>2, <2>3 DEF SignalOrder
    <2>7. SignalOrder(k)'
      BY <2>4, <2>5, <2>6 DEF SignalOrder, SignalMove, Round
    <2> QED
      BY <2>4, <2>7
  <1> QED
    BY <1>1, <1>2 DEF SignalMove

LEMMA Signal3Init == Signal3!Init => SignalOrder(n) /\ x_i = Zero(n)
  <1> SUFFICES ASSUME Signal3!Init PROVE SignalOrder(n) /\ x_i = Zero(n)
    OBVIOUS
  <1>1. 0 = 0 * n + 0 /\ 0 \in 0 .. n - 1 /\ Round(n, x_i, 0, 0)
    BY TurnCounterAssumption DEF Signal3!Init, Signal3!Threads, Round
  <1> QED
    BY <1>1 DEF Signal3!Init, Signal3!Threads, Signal3!Places, SignalOrder, Zero

LEMMA Signal3Step ==
    ASSUME SignalOrder(n),
           \/ Signal3!MainStep \/ Signal3!Spurious \/ UNCHANGED xVars
           \/ \E t \in Signal3!Threads : Signal3!ThreadStep(t)
    PROVE  SignalOrder(n)' /\ (x_i' = x_i \/ TakesTurn(n, x_i, x_i'))
  <1>1. SignalMove(n)
    <2> USE DEF Signal3!Threads, Signal3!Move, Signal3!Places, SignalOrder, SignalMove
    <2>1. ASSUME NEW t \in Signal3!Threads, Signal3!Increment(t) PROVE SignalMove(n)
      BY <2>1 DEF Signal3!Increment, Signal3!MyTurn
    <2>2. ASSUME NEW t \in Signal3!Threads, Signal3!ThreadStep(t), ~Signal3!Increment(t)
          PROVE  SignalMove(n)
      BY <2>2
      DEF Signal3!ThreadStep, Signal3!LockToTest, Signal3!Wait, Signal3!WakeUp, Signal3!EndLoop,
          Signal3!LockToExit, Signal3!Exit
    <2>3. CASE Signal3!MainStep \/ Signal3!Spurious \/ UNCHANGED xVars
      BY <2>3 DEF Signal3!MainStep, Signal3!Create, Signal3!JoinedAll, Signal3!Spurious, xVars
    <2> QED
      BY <2>1, <2>2, <2>3
  <1> QED
    BY <1>1, SignalStep, TurnCounterAssumption

LEMMA Signal2Init == Signal2!Init => SignalOrder(2) /\ x_i = Zero(2)
  <1> SUFFICES ASSUME Signal2!Init PROVE SignalOrder(2) /\ x_i = Zero(2)
    OBVIOUS
  <1>1. 0 = 0 * 2 + 0 /\ 0 \in 0 .. 2 - 1 /\ Round(2, x_i, 0, 0)
    BY TurnCounterAssumption DEF Signal2!Init, Signal2!Threads, Round
  <1> QED
    BY <1>1 DEF Signal2!Init, Signal2!Threads, Signal3!Places, SignalOrder, Zero

LEMMA Signal2Step ==
    ASSUME SignalOrder(2),
           \/ Signal2!MainStep \/ Signal2!Spurious \/ UNCHANGED xVars
           \/ \E t \in Signal2!Threads : Signal2!ThreadStep(t)
    PROVE  SignalOrder(2)' /\ (x_i' = x_i \/ TakesTurn(2, x_i, x_i'))
  <1>1. SignalMove(2)
    <2> USE DEF Signal2!Threads, Signal2!Move, Signal3!Places, SignalOrder, SignalMove
    <2>1. ASSUME NEW t \in Signal2!Threads, Signal2!Increment(t) PROVE SignalMove(2)
      BY <2>1 DEF Signal2!Increment, Signal2!MyTurn
    <2>2. ASSUME NEW t \in Signal2!Threads, Signal2!ThreadStep(t), ~Signal2!Increment(t)
          PROVE  SignalMove(2)
      BY <2>2
      DEF Signal2!ThreadStep, Signal2!LockToTest, Signal2!Wait, Signal2!WakeUp, Signal2!EndLoop,
          Signal2!LockToExit, Signal2!Exit
    <2>3. CASE Signal2!MainStep \/ Signal2!Spurious \/ UNCHANGED xVars
      BY <2>3 DEF Signal2!MainStep, Signal2!Create, Signal2!JoinedAll, Signal2!Spurious, xVars
    <2> QED
      BY <2>1, <2>2, <2>3
  <1> QED
    BY <1>1, SignalStep, TurnCounterAssumption
------------------------------------------------------------------------------
(* The ring of pipes.                                                      *)

Turning == {p \in Pipes!Processes : x_pc[p] = "turn"}

\* Process 0 has not put the token into its pipe, or it is with h, or in h's pipe.
Unseeded ==
    /\ x_pc[0] \in {"new", "seed"}
    /\ Turning = {} /\ \A p \in Pipes!Processes : x_lock[p] = 0
TokenWith(h) ==
    /\ x_pc[0] \notin {"new", "seed"}
    /\ \/ Turning = {h} /\ \A p \in Pipes!Processes : x_lock[p] = 0
       \/ Turning = {} /\ \A p \in Pipes!Processes : x_lock[p] = IF p = h THEN 1 ELSE 0

\* Who has the token is next in the round.
PipeInv ==
    /\ x_lock \in [Pipes!Processes -> Nat]
    /\ x_count \in [Pipes!Processes -> Nat]
    /\ x_pc \in [Pipes!Processes -> Pipes!Places]
    /\ \A p \in Pipes!Processes : x_pc[p] = "turn" => x_count[p] < m
    /\ \/ Unseeded /\ Round(n, x_count, 0, 0)
       \/ \E q \in Nat, h \in Pipes!Processes : TokenWith(h) /\ Round(n, x_count, q, h)

LEMMA PipeInit == Pipes!Init => PipeInv /\ x_count = Zero(n)
  <1>1. 0 \in Pipes!Processes
    BY TurnCounterAssumption DEF Pipes!Processes
  <1> QED
    BY <1>1
    DEF Pipes!Init, PipeInv, Pipes!Places, Pipes!Processes, Unseeded, Turning, Round, Zero

\* Only process 0 puts a byte into its pipe, once; every other byte was read before.
LEMMA PipeStep ==
    ASSUME PipeInv, NEW p \in Pipes!Processes, Pipes!Step(p)
    PROVE  PipeInv' /\ (x_count' = x_count \/ TakesTurn(n, x_count, x_count'))
  <1>0. /\ n \in Nat \ {0} /\ m \in Nat /\ p \in 0 .. n - 1
        /\ 0 \in Pipes!Processes /\ Pipes!NextOf(p) \in Pipes!Processes
        /\ Pipes!NextOf(p) = IF p = n - 1 THEN 0 ELSE p + 1
    BY TurnCounterAssumption DEF Pipes!Processes, Pipes!NextOf
  <1> USE <1>0 DEF PipeInv, Pipes!Places, Pipes!Move
  <1>1. CASE Pipes!Seed(p) /\ p = 0
    <2>1. /\ x_pc[0] = "seed" /\ x_pc' = [x_pc EXCEPT ![0] = "loop"]
          /\ x_lock' = [x_lock EXCEPT ![0] = @ + 1] /\ x_count' = x_count
      BY <1>1 DEF Pipes!Seed, Pipes!WriteByte, Pipes!SemPostAt
    <2>2. /\ Turning = {} /\ \A q \in Pipes!Processes : x_lock[q] = 0
          /\ Round(n, x_count, 0, 0)
      BY <2>1 DEF Unseeded, TokenWith
    <2>3. Turning' = {} /\ \A q \in Pipes!Processes : x_lock'[q] = IF q = 0 THEN 1 ELSE 0
      BY <2>1, <2>2 DEF Turning
    <2>4. TokenWith(0)' /\ Round(n, x_count, 0, 0)'
      BY <2>1, <2>2, <2>3 DEF TokenWith, Round
    <2> QED
      BY <2>1, <2>4
  <1>2. CASE Pipes!Receive(p)
    <2>1. /\ x_pc[p] = "loop" /\ x_pc' = [x_pc EXCEPT ![p] = "turn"]
          /\ x_lock[p] > 0 /\ x_lock' = [x_lock EXCEPT ![p] = @ - 1]
          /\ x_count' = x_count /\ x_count[p] < m
      BY <1>2 DEF Pipes!Receive, Pipes!TurnLeft, Pipes!ReadByte, Pipes!SemWaitAt
    <2>2. ~Unseeded
      BY <2>1 DEF Unseeded
    <2>3. /\ x_pc[0] \notin {"new", "seed"} /\ Turning = {}
          /\ \A q \in Pipes!Processes : x_lock[q] = IF q = p THEN 1 ELSE 0
          /\ \E q \in Nat : Round(n, x_count, q, p)
      BY <2>1, <2>2 DEF TokenWith
    <2>4. Turning' = {p} /\ \A q \in Pipes!Processes : x_lock'[q] = 0
      BY <2>1, <2>3 DEF Turning
    <2>5. TokenWith(p)' /\ \E q \in Nat : Round(n, x_count, q, p)'
      BY <2>1, <2>3, <2>4 DEF TokenWith, Round
    <2> QED
      BY <2>1, <2>5
  <1>3. CASE Pipes!Pass(p)
    <2>1. /\ x_pc[p] = "turn" /\ x_pc' = [x_pc EXCEPT ![p] = "loop"]
          /\ x_lock' = [x_lock EXCEPT ![Pipes!NextOf(p)] = @ + 1]
          /\ x_count' = [x_count EXCEPT ![p] = @ + 1] /\ x_count[p] < m
      BY <1>3 DEF Pipes!Pass, Pipes!WriteByte, Pipes!SemPostAt
    <2>2. p \in Turning
      BY <2>1 DEF Turning
    <2>3. /\ x_pc[0] \notin {"new", "seed"} /\ Turning = {p}
          /\ \A q \in Pipes!Processes : x_lock[q] = 0
          /\ \E q \in Nat : Round(n, x_count, q, p)
      BY <2>2 DEF Unseeded, TokenWith
    <2>4. /\ Turning' = {}
          /\ \A q \in Pipes!Processes : x_lock'[q] = IF q = Pipes!NextOf(p) THEN 1 ELSE 0
      BY <2>1, <2>3 DEF Turning
    <2>5. TokenWith(Pipes!NextOf(p))'
      BY <2>1, <2>3, <2>4 DEF TokenWith
    <2>6. PICK q \in Nat : Round(n, x_count, q, p)
      BY <2>3
    <2>7. /\ TakesTurn(n, x_count, x_count') /\ x_count' \in [0 .. n - 1 -> Nat]
          /\ p < n - 1 => Round(n, x_count', q, p + 1)
          /\ p = n - 1 => Round(n, x_count', q + 1, 0)
      <3>1. x_count \in [0 .. n - 1 -> Nat]
        BY DEF Pipes!Processes
      <3> QED
        BY <2>1, <2>6, <3>1, NextRound
    <2>8. \E s \in Nat : Round(n, x_count, s, Pipes!NextOf(p))'
      <3>1. CASE p < n - 1
        <4>1. Round(n, x_count', q, Pipes!NextOf(p))
          BY <2>7, <3>1
        <4> QED
          BY <4>1 DEF Round
      <3>2. CASE p = n - 1
        <4>1. Round(n, x_count', q + 1, Pipes!NextOf(p)) /\ q + 1 \in Nat
          BY <2>7, <3>2
        <4> QED
          BY <4>1 DEF Round
      <3> QED
        BY <3>1, <3>2
    <2>9. /\ \A u \in Pipes!Processes : x_pc'[u] # "turn"
          /\ x_lock' \in [Pipes!Processes -> Nat]
          /\ x_pc' \in [Pipes!Processes -> Pipes!Places]
      BY <2>1, <2>4 DEF Turning
    <2>10. x_count' \in [Pipes!Processes -> Nat]
      BY <2>7 DEF Pipes!Processes
    <2> QED
      BY <2>5, <2>7, <2>8, <2>9, <2>10
  <1>4. CASE (Pipes!Seed(p) /\ p # 0) \/ Pipes!Exit(p)
    <2>1. /\ x_pc[p] \in {"seed", "loop"} /\ x_pc'[p] \in {"loop", "exited"}
          /\ x_pc[p] = "seed" => p # 0
          /\ x_pc' = [x_pc EXCEPT ![p] = x_pc'[p]]
          /\ x_lock' = x_lock /\ x_count' = x_count
      BY <1>4 DEF Pipes!Seed, Pipes!Exit
    <2>2. Turning' = Turning /\ (x_pc'[0] \in {"new", "seed"} <=> x_pc[0] \in {"new", "seed"})
      BY <2>1 DEF Turning
    <2>3. \A u \in Pipes!Processes : x_pc'[u] = "turn" => x_pc[u] = "turn"
      BY <2>2 DEF Turning
    <2>4. x_pc' \in [Pipes!Processes -> Pipes!Places]
      BY <2>1
    <2>5. Unseeded /\ Round(n, x_count, 0, 0) => (Unseeded /\ Round(n, x_count, 0, 0))'
      BY <2>1, <2>2 DEF Unseeded, Round
    <2>6. ASSUME NEW q \in Nat, NEW h \in Pipes!Processes
          PROVE  /\ TokenWith(h) => TokenWith(h)'
                 /\ Round(n, x_count, q, h) => Round(n, x_count, q, h)'
      BY <2>1, <2>2 DEF TokenWith, Round
    <2>7. PipeInv'
      BY <2>1, <2>3, <2>4, <2>5, <2>6
    <2> QED
      BY <2>1, <2>7
  <1> QED
    BY <1>1, <1>2, <1>3, <1>4 DEF Pipes!Step

LEMMA PipeParent == ASSUME PipeInv, Pipes!Parent PROVE PipeInv' /\ x_count' = x_count
  <1>0. 0 \in Pipes!Processes
    BY TurnCounterAssumption DEF Pipes!Processes
  <1>1. CASE Pipes!Waited
    BY <1>1 DEF Pipes!Waited, PipeInv, Unseeded, TokenWith, Turning, Round
  <1>2. ASSUME NEW p \in Pipes!Processes, Pipes!Fork(p) PROVE PipeInv' /\ x_count' = x_count
    <2>1. /\ x_pc[p] = "new" /\ x_pc' = [x_pc EXCEPT ![p] = "seed"]
          /\ x_lock' = x_lock /\ x_count' = x_count
      BY <1>2 DEF Pipes!Fork, Pipes!Move
    <2>2. /\ x_pc' \in [Pipes!Processes -> Pipes!Places] /\ Turning' = Turning
          /\ x_pc'[0] \in {"new", "seed"} <=> x_pc[0] \in {"new", "seed"}
          /\ \A u \in Pipes!Processes : x_pc'[u] = "turn" => x_pc[u] = "turn"
      BY <1>0, <2>1 DEF PipeInv, Pipes!Places, Turning
    <2> QED
      BY <2>1, <2>2 DEF PipeInv, Unseeded, TokenWith, Round
  <1> QED
    BY <1>1, <1>2 DEF Pipes!Parent

LEMMA PipeToken == PipeInv => Pipes!OneToken
  <1> SUFFICES ASSUME PipeInv PROVE Pipes!OneToken
    OBVIOUS
  <1>1. \A S : Pipes!Cardinality(S) = Cardinality(S)
    BY DEF Pipes!Cardinality, Cardinality
  <1> DEFINE Tokens == {p \in Pipes!Processes : x_lock[p] = 1 \/ x_pc[p] = "turn"}
  <1>2. CASE Unseeded
    <2>1. Tokens = {}
      BY <1>2 DEF Unseeded, Turning
    <2> QED
      BY <1>1, <1>2, <2>1, FS_EmptySet DEF Unseeded, Pipes!OneToken
  <1>3. ASSUME NEW h \in Pipes!Processes, TokenWith(h) PROVE Pipes!OneToken
    <2>1. Tokens = {h}
      BY <1>3 DEF TokenWith, Turning
    <2>2. Pipes!Cardinality(Tokens) = 1
      BY <1>1, <2>1, FS_Singleton
    <2> QED
      BY <1>3, <2>2 DEF TokenWith, Pipes!OneToken
  <1> QED
    BY <1>2, <1>3 DEF PipeInv
------------------------------------------------------------------------------
(* The two semaphores.                                                     *)

Working == {"read", "write", "post"}

\* One thread has the token, in its semaphore or at work.
AlternateAt(h) ==
    /\ x_lock[1 - h] = 0 /\ x_pc[1 - h] \notin Working
    /\ x_lock[h] = IF x_pc[h] \in Working THEN 0 ELSE 1

\* Who has the token is next in the round, and has turns left while it is at work.
AlternateInv ==
    /\ x_lock \in [{0, 1} -> Nat]
    /\ x_i \in [{0, 1} -> 0 .. m]
    /\ x_pc \in [{0, 1} -> Alternate!Places]
    /\ \A t \in {0, 1} : x_pc[t] \in Working => x_i[t] > 0
    /\ \E q \in Nat, h \in {0, 1} : AlternateAt(h) /\ Round(2, Alternate!Taken, q, h)

LEMMA AlternateQuota == Alternate!quota = m
  <1>1. (m * 2 + 1) \div 2 = m /\ m * 2 = 2 * m
    BY Multiple, TurnCounterAssumption
  <1> QED
    BY <1>1 DEF Alternate!quota

LEMMA AlternateInit == Alternate!Init => AlternateInv /\ Alternate!Taken = Zero(2)
  <1> SUFFICES ASSUME Alternate!Init PROVE AlternateInv /\ Alternate!Taken = Zero(2)
    OBVIOUS
  <1>1. m \in Nat /\ 0 .. 2 - 1 = {0, 1} /\ 1 - 0 = 1 /\ 0 \in {0, 1}
    BY TurnCounterAssumption
  <1>2. /\ x_lock = [t \in {0, 1} |-> IF t = 0 THEN 1 ELSE 0]
        /\ x_i = [t \in {0, 1} |-> m] /\ x_pc = [t \in {0, 1} |-> "new"]
    BY AlternateQuota DEF Alternate!Init, Alternate!Threads
  <1>3. \A t \in {0, 1} : m - x_i[t] = 0
    BY <1>1, <1>2
  <1>4. Alternate!Taken = Zero(2)
    BY <1>1, <1>3, AlternateQuota DEF Alternate!Taken, Alternate!Threads, Zero
  <1>5. Round(2, Alternate!Taken, 0, 0)
    BY <1>1, <1>4 DEF Round, Zero
  <1>6. AlternateAt(0)
    BY <1>1, <1>2 DEF AlternateAt, Working
  <1> QED
    BY <1>1, <1>2, <1>4, <1>5, <1>6 DEF AlternateInv, Alternate!Places, Working

LEMMA AlternateStep ==
    ASSUME AlternateInv, NEW t \in Alternate!Threads, Alternate!ThreadStep(t)
    PROVE  /\ AlternateInv'
           /\ Alternate!Taken' = Alternate!Taken
              \/ TakesTurn(2, Alternate!Taken, Alternate!Taken')
  <1>0. /\ m \in Nat /\ 0 .. 2 - 1 = {0, 1} /\ t \in {0, 1} /\ 1 - t \in {0, 1} /\ 1 - t # t
        /\ 1 - (1 - t) = t
    BY TurnCounterAssumption DEF Alternate!Threads
  <1>1. PICK q \in Nat, h \in {0, 1} : AlternateAt(h) /\ Round(2, Alternate!Taken, q, h)
    BY DEF AlternateInv
  <1>2. /\ x_lock \in [{0, 1} -> Nat] /\ x_i \in [{0, 1} -> 0 .. m]
        /\ x_pc \in [{0, 1} -> Alternate!Places]
        /\ \A u \in {0, 1} : x_pc[u] \in Working => x_i[u] > 0
    BY DEF AlternateInv
  <1>3. h = t \/ h = 1 - t
    BY <1>0
  <1>4. CASE Alternate!Post(t)
    <2>1. /\ x_pc[t] = "post" /\ x_pc' = [x_pc EXCEPT ![t] = "loop"]
          /\ x_lock' = [x_lock EXCEPT ![1 - t] = @ + 1] /\ x_i' = [x_i EXCEPT ![t] = @ - 1]
      BY <1>4 DEF Alternate!Post, Alternate!Move, Alternate!SemPostAt
    <2>2. h = t
      BY <1>0, <1>1, <1>3, <2>1 DEF AlternateAt, Working
    <2>3. x_lock[t] = 0 /\ x_lock[1 - t] = 0 /\ x_pc[1 - t] \notin Working /\ x_i[t] > 0
      BY <1>1, <1>2, <2>1, <2>2 DEF AlternateAt, Working
    <2>4. /\ x_pc'[t] = "loop" /\ x_pc'[1 - t] = x_pc[1 - t]
          /\ x_lock'[t] = 0 /\ x_lock'[1 - t] = 1
      BY <1>0, <1>2, <2>1, <2>3
    <2>5. AlternateAt(1 - t)'
      BY <1>0, <2>3, <2>4 DEF AlternateAt, Working
    <2>6. Alternate!Taken \in [0 .. 2 - 1 -> Nat] /\ Alternate!Taken[t] < m
      <3>1. \A u \in {0, 1} : m - x_i[u] \in Nat
        BY <1>0, <1>2
      <3>2. m - x_i[t] < m
        BY <1>0, <1>2, <2>3
      <3> QED
        BY <1>0, <3>1, <3>2, AlternateQuota DEF Alternate!Taken, Alternate!Threads
    <2>7. Alternate!Taken' = [Alternate!Taken EXCEPT ![t] = @ + 1]
      <3>1. m - x_i'[t] = (m - x_i[t]) + 1 /\ x_i'[1 - t] = x_i[1 - t]
        BY <1>0, <1>2, <2>1
      <3>2. /\ Alternate!Taken'[t] = Alternate!Taken[t] + 1
            /\ Alternate!Taken'[1 - t] = Alternate!Taken[1 - t]
        BY <1>0, <3>1, AlternateQuota DEF Alternate!Taken, Alternate!Threads
      <3>3. /\ DOMAIN Alternate!Taken = {0, 1} /\ {0, 1} = {t, 1 - t}
            /\ Alternate!Taken' = [u \in {0, 1} |-> Alternate!Taken'[u]]
        BY <1>0 DEF Alternate!Taken, Alternate!Threads
      <3> QED
        BY <1>0, <3>2, <3>3
    <2>8. /\ TakesTurn(2, Alternate!Taken, Alternate!Taken')
          /\ t < 2 - 1 => Round(2, Alternate!Taken', q, t + 1)
          /\ t = 2 - 1 => Round(2, Alternate!Taken', q + 1, 0)
      <3>1. t \in 0 .. 2 - 1 /\ 2 \in Nat \ {0} /\ Round(2, Alternate!Taken, q, t)
        BY <1>0, <1>1, <2>2
      <3> QED
        BY <2>6, <2>7, <3>1, NextRound
    <2>9. \E s \in Nat : Round(2, Alternate!Taken', s, 1 - t)
      <3>1. CASE t = 0
        BY <2>8, <3>1
      <3>2. CASE t = 1
        BY <2>8, <3>2
      <3> QED
        BY <1>0, <3>1, <3>2
    <2>10. \E s \in Nat : Round(2, Alternate!Taken, s, 1 - t)'
      BY <2>9 DEF Round
    <2>11. /\ x_lock' \in [{0, 1} -> Nat] /\ x_pc' \in [{0, 1} -> Alternate!Places]
           /\ x_i' \in [{0, 1} -> 0 .. m]
      BY <1>0, <1>2, <2>1, <2>3 DEF Alternate!Places
    <2>12. \A u \in {0, 1} : x_pc'[u] \notin Working
      BY <1>0, <2>3, <2>4 DEF Working
    <2>13. AlternateInv'
      BY <1>0, <2>5, <2>10, <2>11, <2>12 DEF AlternateInv
    <2> QED
      BY <2>8, <2>13
  <1>5. CASE ~Alternate!Post(t)
    <2>1. x_i' = x_i
      BY <1>5 DEF Alternate!ThreadStep, Alternate!Wait, Alternate!ReadCount,
                  Alternate!WriteCount, Alternate!Return
    <2>2. Alternate!Taken' = Alternate!Taken /\ Round(2, Alternate!Taken, q, h)'
      BY <1>1, <2>1 DEF Alternate!Taken, Alternate!quota, Round
    <2>3. CASE Alternate!Wait(t)
      <3>1. /\ x_pc[t] = "loop" /\ x_pc' = [x_pc EXCEPT ![t] = "read"] /\ x_i[t] > 0
            /\ x_lock[t] > 0 /\ x_lock' = [x_lock EXCEPT ![t] = @ - 1]
        BY <2>3 DEF Alternate!Wait, Alternate!Move, Alternate!SemWaitAt
      <3>2. h = t
        BY <1>0, <1>1, <1>3, <3>1 DEF AlternateAt
      <3>3. x_lock[t] = 1 /\ x_lock[1 - t] = 0 /\ x_pc[1 - t] \notin Working
        BY <1>1, <3>1, <3>2 DEF AlternateAt, Working
      <3>4. /\ x_pc'[t] = "read" /\ x_pc'[1 - t] = x_pc[1 - t]
            /\ x_lock'[t] = 0 /\ x_lock'[1 - t] = 0
        BY <1>0, <1>2, <3>1, <3>3
      <3>5. AlternateAt(t)'
        BY <1>0, <3>3, <3>4 DEF AlternateAt, Working
      <3>6. /\ x_lock' \in [{0, 1} -> Nat] /\ x_pc' \in [{0, 1} -> Alternate!Places]
            /\ \A u \in {0, 1} : x_pc'[u] \in Working => x_i'[u] > 0
        BY <1>0, <1>2, <2>1, <3>1, <3>3, <3>4 DEF Alternate!Places
      <3> QED
        BY <1>0, <1>2, <2>1, <2>2, <3>2, <3>5, <3>6 DEF AlternateInv
    <2>4. CASE Alternate!ReadCount(t) \/ Alternate!WriteCount(t) \/ Alternate!Return(t)
      <3>1. /\ x_pc' = [x_pc EXCEPT ![t] = x_pc'[t]] /\ x_pc'[t] \in Alternate!Places
            /\ x_pc'[t] \in Working <=> x_pc[t] \in Working
            /\ x_lock' = x_lock
        BY <1>0, <1>2, <2>4 DEF Alternate!ReadCount, Alternate!WriteCount, Alternate!Return,
                                Alternate!Move, Alternate!Places, Working
      <3>2. \A u \in {0, 1} : x_pc'[u] \in Working <=> x_pc[u] \in Working
        BY <1>0, <1>2, <3>1
      <3>3. 1 - h \in {0, 1}
        OBVIOUS
      <3>4. AlternateAt(h)'
        BY <1>1, <3>1, <3>2, <3>3 DEF AlternateAt
      <3>5. x_pc' \in [{0, 1} -> Alternate!Places]
        BY <1>2, <3>1
      <3> QED
        BY <1>2, <2>1, <2>2, <3>1, <3>2, <3>4, <3>5 DEF AlternateInv
    <2> QED
      BY <1>5, <2>2, <2>3, <2>4 DEF Alternate!ThreadStep
  <1> QED
    BY <1>4, <1>5

LEMMA AlternateMain ==
    ASSUME AlternateInv, Alternate!MainStep \/ UNCHANGED xVars
    PROVE  AlternateInv' /\ Alternate!Taken' = Alternate!Taken
  <1>1. UNCHANGED <<x_lock, x_i>>
    BY DEF Alternate!MainStep, Alternate!Create, Alternate!JoinedAll, xVars
  <1>2. /\ x_pc' \in [{0, 1} -> Alternate!Places]
        /\ \A u \in {0, 1} : x_pc'[u] \in Working <=> x_pc[u] \in Working
    BY DEF Alternate!MainStep, Alternate!Create, Alternate!JoinedAll, xVars, AlternateInv,
           Alternate!Move, Alternate!Places, Alternate!Threads, Working
  <1>3. Alternate!Taken' = Alternate!Taken
    BY <1>1 DEF Alternate!Taken
  <1>4. ASSUME NEW q \in Nat, NEW h \in {0, 1}, AlternateAt(h), Round(2, Alternate!Taken, q, h)
        PROVE  (AlternateAt(h) /\ Round(2, Alternate!Taken, q, h))'
    <2>1. 1 - h \in {0, 1}
      OBVIOUS
    <2> QED
      BY <1>1, <1>2, <1>3, <1>4, <2>1 DEF AlternateAt, Round
  <1> QED
    BY <1>1, <1>2, <1>3, <1>4 DEF AlternateInv
------------------------------------------------------------------------------
(* All programs.                                                           *)

ProgramsInv ==
    /\ program = "Lab9_ex1" => IInv
    /\ program = "signal3" => SignalOrder(n)
    /\ program = "signal2" => SignalOrder(2)
    /\ program = "ring" => RingProofs!IInv /\ RingProofs!Ordered
    /\ program = "remainder" => RemainderProofs!IInv /\ RemainderProofs!Ordered
    /\ program = "pipes" => PipeInv
    /\ program = "pingpong" => AlternateInv

Programs == {"Lab9_ex1", "signal3", "signal2", "ring", "remainder", "pipes", "pingpong"}

LEMMA Quotas == RingProofs!quota = m /\ (n > 2 => RemainderProofs!quota = m)
  <1>1. /\ n \in Nat \ {0} /\ m \in Nat /\ 0 \in 0 .. n - 1 /\ m * n + 0 = n * m
        /\ n > 2 => 2 \in 0 .. n - 1 /\ m * n + 2 = n * m + 2
    BY TurnCounterAssumption
  <1>2. (m * n + 0) \div n = m
    BY <1>1, Multiple
  <1>3. n > 2 => (m * n + 2) \div n = m
    BY <1>1, Multiple
  <1> QED
    BY <1>1, <1>2, <1>3 DEF RingProofs!quota, RemainderProofs!quota

LEMMA TakenIsSame == Ring!Taken = RingProofs!Taken /\ Remainder!Taken = RemainderProofs!Taken
  BY DEF Ring!Taken, RingProofs!Taken, Ring!Threads, RingProofs!Threads, Ring!quota,
         RingProofs!quota, Remainder!Taken, RemainderProofs!Taken, Remainder!Threads,
         RemainderProofs!Threads, Remainder!quota, RemainderProofs!quota

LEMMA ProgramsInit == MCInit => ProgramsInv /\ program \in Programs /\ Three!Init /\ Two!Init
  <1> SUFFICES ASSUME MCInit
               PROVE  ProgramsInv /\ program \in Programs /\ Three!Init /\ Two!Init
    OBVIOUS
  <1> USE DEF ProgramsInv, Programs, TakenBy3, TakenBy2
  <1>1. /\ TakenBy3 = Zero(n) => Three!Init
        /\ TakenBy2 = Zero(2) => Two!Init
    BY DEF Three!Init, Three!Who, Two!Init, Two!Who, Zero
  <1>2. CASE program = "Lab9_ex1"
    <2>1. i = Zero(n)
      BY DEF MCInit, Init, Threads, Zero
    <2> QED
      BY <1>1, <1>2, <2>1, InitIInv DEF MCInit
  <1>3. CASE program = "signal3"
    BY <1>1, <1>3, Signal3Init DEF MCInit
  <1>4. CASE program = "signal2"
    BY <1>1, <1>4, Signal2Init DEF MCInit
  <1>5. CASE program = "ring"
    <2>1. RingProofs!Init
      BY <1>5, RingInitIsSame DEF MCInit
    <2>2. RingProofs!IInv /\ RingProofs!Ordered /\ RingProofs!Turns!Init
      BY <2>1, Assumptions, RingProofs!InitIInv, RingProofs!InitOrdered
    <2>3. Ring!Taken = Zero(n)
      BY <2>2, TakenIsSame DEF RingProofs!Turns!Init, RingProofs!Turns!Who, Zero
    <2> QED
      BY <1>1, <1>5, <2>2, <2>3
  <1>6. CASE program = "remainder"
    <2>1. RemainderProofs!Init
      BY <1>6, RemainderInitIsSame DEF MCInit
    <2>2. RemainderProofs!IInv /\ RemainderProofs!Ordered /\ RemainderProofs!Turns!Init
      BY <2>1, Assumptions, RemainderProofs!InitIInv, RemainderProofs!InitOrdered
    <2>3. Remainder!Taken = Zero(n)
      BY <2>2, TakenIsSame DEF RemainderProofs!Turns!Init, RemainderProofs!Turns!Who, Zero
    <2> QED
      BY <1>1, <1>6, <2>2, <2>3
  <1>7. CASE program = "pipes"
    BY <1>1, <1>7, PipeInit DEF MCInit
  <1>8. CASE program = "pingpong"
    BY <1>1, <1>8, AlternateInit DEF MCInit
  <1> QED
    BY <1>2, <1>3, <1>4, <1>5, <1>6, <1>7, <1>8 DEF MCInit

\* The turns of all programs, of which only those of the one that runs can change.
TurnTaken ==
    /\ TakenBy3' = TakenBy3 \/ TakesTurn(n, TakenBy3, TakenBy3')
    /\ TakenBy2' = TakenBy2 \/ TakesTurn(2, TakenBy2, TakenBy2')

LEMMA ProgramsNext ==
    ASSUME ProgramsInv, program \in Programs, [MCNext]_allVars
    PROVE  ProgramsInv' /\ program' \in Programs /\ (n > 2 => TurnTaken)
  <1>1. program' = program
    BY DEF MCNext, MCMain, MCThread, MCSpurious, allVars
  <1>2. CASE program = "Lab9_ex1"
    <2>1. [Next]_vars
      BY <1>2 DEF MCNext, MCMain, MCThread, MCSpurious, allVars, Next
    <2>2. IInv' /\ [Turns!Next]_i
      BY <1>2, <2>1, NextIInv, NextRefines DEF ProgramsInv
    <2>3. Turns!Next => TakesTurn(n, i, i')
      BY DEF Turns!Next, Turns!Turn, Turns!HasTurn, Turns!Who, TakesTurn
    <2> QED
      BY <1>1, <1>2, <2>2, <2>3 DEF ProgramsInv, Programs, TurnTaken, TakenBy3, TakenBy2
  <1>3. CASE program = "signal3"
    <2>1. \/ Signal3!MainStep \/ Signal3!Spurious \/ UNCHANGED xVars
          \/ \E t \in Signal3!Threads : Signal3!ThreadStep(t)
      BY <1>3 DEF MCNext, MCMain, MCThread, MCSpurious, allVars, Threads, Signal3!Threads
    <2>2. SignalOrder(n)' /\ (x_i' = x_i \/ TakesTurn(n, x_i, x_i'))
      BY <1>3, <2>1, Signal3Step DEF ProgramsInv
    <2> QED
      BY <1>1, <1>3, <2>2 DEF ProgramsInv, Programs, TurnTaken, TakenBy3, TakenBy2
  <1>4. CASE program = "signal2"
    <2>1. \/ Signal2!MainStep \/ Signal2!Spurious \/ UNCHANGED xVars
          \/ \E t \in Signal2!Threads : Signal2!ThreadStep(t)
      BY <1>4 DEF MCNext, MCMain, MCThread, MCSpurious, allVars
    <2>2. SignalOrder(2)' /\ (x_i' = x_i \/ TakesTurn(2, x_i, x_i'))
      BY <1>4, <2>1, Signal2Step DEF ProgramsInv
    <2> QED
      BY <1>1, <1>4, <2>2 DEF ProgramsInv, Programs, TurnTaken, TakenBy3, TakenBy2
  <1>5. CASE program = "ring"
    <2>1. Ring!MainStep \/ (\E t \in Ring!Threads : Ring!ThreadStep(t)) \/ UNCHANGED xVars
      BY <1>5 DEF MCNext, MCMain, MCThread, MCSpurious, allVars, Threads, Ring!Threads
    <2>2. [RingProofs!Next]_RingProofs!vars
      BY <2>1, RingStepIsSame DEF xVars, RingProofs!vars
    <2>3. RingProofs!IInv' /\ RingProofs!Ordered' /\ [RingProofs!Turns!Next]_(RingProofs!Taken)
      BY <1>5, <2>2, Assumptions, RingProofs!NextIInv, RingProofs!NextOrdered
      DEF ProgramsInv
    <2>4. RingProofs!Turns!Next => TakesTurn(n, RingProofs!Taken, RingProofs!Taken')
      BY Quotas DEF RingProofs!Turns!Next, RingProofs!Turns!Turn, RingProofs!Turns!HasTurn,
                    RingProofs!Turns!Who, TakesTurn
    <2>5. Ring!Taken' = RingProofs!Taken'
      BY DEF Ring!Taken, RingProofs!Taken, Ring!Threads, RingProofs!Threads, Ring!quota,
             RingProofs!quota
    <2> QED
      BY <1>1, <1>5, <2>3, <2>4, <2>5, TakenIsSame
      DEF ProgramsInv, Programs, TurnTaken, TakenBy3, TakenBy2
  <1>6. CASE program = "remainder"
    <2>1. \/ Remainder!MainStep \/ (\E t \in Remainder!Threads : Remainder!ThreadStep(t))
          \/ UNCHANGED xVars
      BY <1>6 DEF MCNext, MCMain, MCThread, MCSpurious, allVars, Threads, Remainder!Threads
    <2>2. [RemainderProofs!Next]_RemainderProofs!vars
      BY <2>1, RemainderStepIsSame DEF xVars, RemainderProofs!vars
    <2>3. /\ RemainderProofs!IInv' /\ RemainderProofs!Ordered'
          /\ [RemainderProofs!Turns!Next]_(RemainderProofs!Taken)
      BY <1>6, <2>2, Assumptions, RemainderProofs!NextIInv, RemainderProofs!NextOrdered
      DEF ProgramsInv
    <2>4. n > 2 /\ RemainderProofs!Turns!Next
              => TakesTurn(n, RemainderProofs!Taken, RemainderProofs!Taken')
      BY Quotas DEF RemainderProofs!Turns!Next, RemainderProofs!Turns!Turn,
                    RemainderProofs!Turns!HasTurn, RemainderProofs!Turns!Who, TakesTurn
    <2>5. Remainder!Taken' = RemainderProofs!Taken'
      BY DEF Remainder!Taken, RemainderProofs!Taken, Remainder!Threads,
             RemainderProofs!Threads, Remainder!quota, RemainderProofs!quota
    <2> QED
      BY <1>1, <1>6, <2>3, <2>4, <2>5, TakenIsSame
      DEF ProgramsInv, Programs, TurnTaken, TakenBy3, TakenBy2
  <1>7. CASE program = "pipes"
    <2>1. \/ Pipes!Parent \/ (\E p \in Pipes!Processes : Pipes!Step(p))
          \/ UNCHANGED xVars
      BY <1>7 DEF MCNext, MCMain, MCThread, MCSpurious, allVars, Threads, Pipes!Processes
    <2>2. PipeInv /\ UNCHANGED xVars => PipeInv' /\ x_count' = x_count
      BY DEF xVars, PipeInv, Unseeded, TokenWith, Turning, Round
    <2>3. PipeInv' /\ (x_count' = x_count \/ TakesTurn(n, x_count, x_count'))
      BY <1>7, <2>1, <2>2, PipeStep, PipeParent DEF ProgramsInv
    <2> QED
      BY <1>1, <1>7, <2>3 DEF ProgramsInv, Programs, TurnTaken, TakenBy3, TakenBy2
  <1>8. CASE program = "pingpong"
    <2>1. \/ Alternate!MainStep \/ UNCHANGED xVars
          \/ \E t \in Alternate!Threads : Alternate!ThreadStep(t)
      BY <1>8 DEF MCNext, MCMain, MCThread, MCSpurious, allVars
    <2>2. /\ AlternateInv'
          /\ Alternate!Taken' = Alternate!Taken
             \/ TakesTurn(2, Alternate!Taken, Alternate!Taken')
      BY <1>8, <2>1, AlternateStep, AlternateMain DEF ProgramsInv
    <2> QED
      BY <1>1, <1>8, <2>2 DEF ProgramsInv, Programs, TurnTaken, TakenBy3, TakenBy2
  <1> QED
    BY <1>2, <1>3, <1>4, <1>5, <1>6, <1>7, <1>8 DEF Programs

LEMMA ProgramsInvariance == MCSpec => [](ProgramsInv /\ program \in Programs)
  <1>1. MCInit => ProgramsInv /\ program \in Programs
    BY ProgramsInit
  <1>2. ProgramsInv /\ program \in Programs /\ [MCNext]_allVars
            => (ProgramsInv /\ program \in Programs)'
    BY ProgramsNext
  <1> QED
    BY <1>1, <1>2, PTL DEF MCSpec

\* Each ring has one token at all times, so that at most one thread is between its read
\* and its write of the unlocked count and one process prints; and with a remainder
\* l8_ex4.c has counted to count_max at least when its threads have been joined.
THEOREM RingsHaveOneToken == MCSpec => []OneToken
  <1>1. ProgramsInv => OneToken
    BY Assumptions, RingProofs!TokenIsOne, RingStateIsSame, RemainderProofs!TokenIsOne,
       RemainderStateIsSame, RemainderProofs!NothingIsMissed, RemainderCountIsSame, PipeToken
    DEF ProgramsInv, OneToken
  <1> QED
    BY <1>1, ProgramsInvariance, PTL

\* Under a mutex with a broadcast or with one signal, through a ring of semaphores or of
\* pipes, or with two semaphores, the turns go round in the order of the numbers.  The
\* program with a remainder gives each thread m turns in its rounds when the two counts
\* left over are less than a round.
THEOREM AllTakeTurns == ASSUME n > 2 PROVE MCSpec => InTurn
  <1>1. MCInit => Three!Init /\ Two!Init
    BY ProgramsInit
  <1>2. ProgramsInv /\ program \in Programs /\ [MCNext]_allVars
            => [Three!Next]_TakenBy3 /\ [Two!Next]_TakenBy2
    <2>1. /\ TakesTurn(n, TakenBy3, TakenBy3') => Three!Next
          /\ TakesTurn(2, TakenBy2, TakenBy2') => Two!Next
      BY DEF TakesTurn, Three!Next, Three!Turn, Three!HasTurn, Three!Who, Two!Next, Two!Turn,
             Two!HasTurn, Two!Who
    <2> QED
      BY <2>1, ProgramsNext DEF TurnTaken
  <1> QED
    BY <1>1, <1>2, ProgramsInvariance, PTL DEF MCSpec, InTurn, Three!Safety, Two!Safety
------------------------------------------------------------------------------
(* The types.                                                              *)

\* Lab9_ex1_example.c: the mutex and the condition variable are for its k threads.
SignalTypes(k) ==
    /\ x_lock \in (0 .. k - 1) \cup {Nobody}
    /\ x_cond \in SUBSET (0 .. k - 1)
    /\ \A t \in 0 .. k - 1 : x_i[t] <= m
    /\ x_main \in {"running", "done"}

\* Who increments has turns left, and the condition variable only gets threads that wait.
SignalChange(k) ==
    /\ x_lock' \in (0 .. k - 1) \cup {Nobody, x_lock}
    /\ \A t \in x_cond' : t \in x_cond \/ t \in 0 .. k - 1
    /\ x_i' = x_i \/ TakesTurn(k, x_i, x_i')
    /\ x_main' \in {x_main, "done"}

LEMMA SignalTyped ==
    ASSUME NEW k \in Nat \ {0}, SignalOrder(k), SignalTypes(k), SignalChange(k)
    PROVE  SignalTypes(k)'
  <1>1. \A t \in 0 .. k - 1 : x_i'[t] <= m
    <2>1. CASE x_i' = x_i
      BY <2>1 DEF SignalTypes
    <2>2. ASSUME NEW u \in 0 .. k - 1, x_i[u] < m, x_i' = [x_i EXCEPT ![u] = @ + 1],
                 NEW t \in 0 .. k - 1
          PROVE  x_i'[t] <= m
      <3>1. x_i \in [0 .. k - 1 -> Nat] /\ m \in Nat /\ x_i[t] <= m
        BY TurnCounterAssumption DEF SignalOrder, SignalTypes
      <3> QED
        BY <2>2, <3>1
    <2> QED
      BY <2>1, <2>2 DEF SignalChange, TakesTurn
  <1>2. x_cond' \in SUBSET (0 .. k - 1)
    BY DEF SignalTypes, SignalChange
  <1> QED
    BY <1>1, <1>2 DEF SignalTypes, SignalChange

\* The rounds are worth k turns each.
LEMMA SignalCount ==
    ASSUME NEW k \in Nat \ {0}, SignalOrder(k), SignalTypes(k)
    PROVE  x_count \in 0 .. k * m
  <1>1. PICK q \in Nat, r \in 0 .. k - 1 : x_count = q * k + r /\ Round(k, x_i, q, r)
    BY DEF SignalOrder
  <1>2. k \in Nat /\ k > 0 /\ m \in Nat /\ r \in 0 .. k - 1 /\ 0 \in 0 .. k - 1
    BY TurnCounterAssumption
  <1>3. q + (IF 0 < r THEN 1 ELSE 0) <= m
    BY <1>1, <1>2 DEF Round, SignalTypes
  <1>4. CASE r = 0
    <2>1. q * k <= m * k /\ m * k = k * m /\ q * k \in Nat
      BY <1>2, <1>3, <1>4, MulMono
    <2> QED
      BY <1>1, <1>2, <1>4, <2>1
  <1>5. CASE r > 0
    <2>1. (q + 1) * k <= m * k /\ m * k = k * m /\ q * k \in Nat /\ (q + 1) * k = q * k + k
      BY <1>2, <1>3, <1>5, MulMono
    <2> QED
      BY <1>1, <1>2, <2>1
  <1> QED
    BY <1>2, <1>4, <1>5

LEMMA Signal3Typed ==
    ASSUME SignalOrder(n), SignalTypes(n),
           \/ Signal3!MainStep \/ Signal3!Spurious \/ UNCHANGED xVars
           \/ \E t \in Signal3!Threads : Signal3!ThreadStep(t)
    PROVE  SignalTypes(n)'
  <1>1. x_i' = x_i \/ TakesTurn(n, x_i, x_i')
    BY Signal3Step
  <1>2. SignalChange(n)
    <2>1. ASSUME NEW t \in Signal3!Threads, Signal3!ThreadStep(t) PROVE SignalChange(n)
      BY <1>1, <2>1
      DEF Signal3!ThreadStep, Signal3!LockToTest, Signal3!Wait, Signal3!WakeUp, Signal3!Increment,
          Signal3!EndLoop, Signal3!LockToExit, Signal3!Exit, Signal3!WakeOthers, Signal3!Lock,
          Signal3!Unlock, Signal3!CondWait, Signal3!Signal, Signal3!Broadcast, Signal3!Threads,
          SignalChange
    <2>2. CASE Signal3!MainStep \/ Signal3!Spurious \/ UNCHANGED xVars
      BY <1>1, <2>2 DEF Signal3!MainStep, Signal3!Create, Signal3!JoinedAll, Signal3!Spurious,
                        Signal3!SpuriousWakeup, xVars, SignalChange
    <2> QED
      BY <2>1, <2>2
  <1> QED
    BY <1>2, SignalTyped, TurnCounterAssumption

LEMMA Signal2Typed ==
    ASSUME SignalOrder(2), SignalTypes(2),
           \/ Signal2!MainStep \/ Signal2!Spurious \/ UNCHANGED xVars
           \/ \E t \in Signal2!Threads : Signal2!ThreadStep(t)
    PROVE  SignalTypes(2)'
  <1>1. x_i' = x_i \/ TakesTurn(2, x_i, x_i')
    BY Signal2Step
  <1>2. SignalChange(2)
    <2>1. ASSUME NEW t \in Signal2!Threads, Signal2!ThreadStep(t) PROVE SignalChange(2)
      BY <1>1, <2>1
      DEF Signal2!ThreadStep, Signal2!LockToTest, Signal2!Wait, Signal2!WakeUp, Signal2!Increment,
          Signal2!EndLoop, Signal2!LockToExit, Signal2!Exit, Signal2!WakeOthers, Signal2!Lock,
          Signal2!Unlock, Signal2!CondWait, Signal2!Signal, Signal2!Broadcast, Signal2!Threads,
          SignalChange
    <2>2. CASE Signal2!MainStep \/ Signal2!Spurious \/ UNCHANGED xVars
      BY <1>1, <2>2 DEF Signal2!MainStep, Signal2!Create, Signal2!JoinedAll, Signal2!Spurious,
                        Signal2!SpuriousWakeup, xVars, SignalChange
    <2> QED
      BY <2>1, <2>2
  <1> QED
    BY <1>2, SignalTyped

\* lab11_ex3.c: no process prints more steps than it has.
PipeTypes ==
    /\ \A p \in Pipes!Processes : x_count[p] <= m
    /\ x_main \in {"running", "done"}

LEMMA PipeTyped ==
    ASSUME PipeInv, PipeTypes,
           \/ Pipes!Parent \/ (\E p \in Pipes!Processes : Pipes!Step(p)) \/ UNCHANGED xVars
    PROVE  PipeTypes'
  <1>1. ASSUME NEW p \in Pipes!Processes, Pipes!Pass(p) PROVE PipeTypes'
    <2>1. /\ x_count' = [x_count EXCEPT ![p] = @ + 1] /\ x_count[p] < m /\ x_main' = x_main
          /\ x_count \in [Pipes!Processes -> Nat] /\ m \in Nat
      BY <1>1, TurnCounterAssumption DEF Pipes!Pass, Pipes!Move, PipeInv
    <2> QED
      BY <2>1 DEF PipeTypes
  <1>2. ASSUME NEW p \in Pipes!Processes, Pipes!Step(p), ~Pipes!Pass(p) PROVE PipeTypes'
    BY <1>2 DEF Pipes!Step, Pipes!Seed, Pipes!Receive, Pipes!Exit, PipeTypes
  <1>3. CASE Pipes!Parent \/ UNCHANGED xVars
    BY <1>3 DEF Pipes!Parent, Pipes!Fork, Pipes!Waited, xVars, PipeTypes
  <1> QED
    BY <1>1, <1>2, <1>3

\* l8_ex3.c: count is the number of increments, those of complete turns and the one of the
\* thread that has still to post, because what a thread has read is not old when it writes.
AlternateTypes ==
    /\ x_count = (m - x_i[0]) + (m - x_i[1])
                     + IF x_pc[0] = "post" \/ x_pc[1] = "post" THEN 1 ELSE 0
    /\ x_aux \in [{0, 1} -> 0 .. 2 * m]
    /\ \A t \in {0, 1} : x_pc[t] = "write" => x_aux[t] = x_count
    /\ x_main \in {"running", "done"}

\* Of two threads one at most is at work.
LEMMA OneWorks ==
    ASSUME AlternateInv, NEW t \in {0, 1}, x_pc[t] \in Working
    PROVE  x_pc[1 - t] \notin Working /\ x_i[t] > 0
  <1>1. PICK h \in {0, 1} : AlternateAt(h)
    BY DEF AlternateInv
  <1>2. h = t \/ t = 1 - h
    OBVIOUS
  <1> QED
    BY <1>1, <1>2 DEF AlternateAt, AlternateInv

LEMMA AlternateCount ==
    ASSUME AlternateInv, AlternateTypes
    PROVE  x_count \in 0 .. 2 * m
  <1>1. /\ m \in Nat /\ x_i[0] \in 0 .. m /\ x_i[1] \in 0 .. m
        /\ x_pc[0] = "post" => x_i[0] > 0
        /\ x_pc[1] = "post" => x_i[1] > 0
    BY TurnCounterAssumption DEF AlternateInv, Working
  <1> QED
    BY <1>1 DEF AlternateTypes

LEMMA AlternateTyped ==
    ASSUME AlternateInv, AlternateTypes,
           \/ Alternate!MainStep \/ UNCHANGED xVars
           \/ \E t \in Alternate!Threads : Alternate!ThreadStep(t)
    PROVE  AlternateTypes'
  <1>1. /\ m \in Nat /\ x_i \in [{0, 1} -> 0 .. m] /\ x_pc \in [{0, 1} -> Alternate!Places]
        /\ x_count \in 0 .. 2 * m
    BY AlternateCount, TurnCounterAssumption DEF AlternateInv
  <1>2. ASSUME NEW t \in {0, 1}, Alternate!ThreadStep(t) PROVE AlternateTypes'
    <2>0. /\ 1 - t \in {0, 1} /\ 1 - t # t /\ {0, 1} = {t, 1 - t}
          /\ x_i[t] \in 0 .. m /\ x_i[1 - t] \in 0 .. m
      BY <1>1
    <2>1. x_count = (m - x_i[t]) + (m - x_i[1 - t])
                        + IF x_pc[t] = "post" \/ x_pc[1 - t] = "post" THEN 1 ELSE 0
      BY <1>1, <2>0 DEF AlternateTypes
    <2>2. ASSUME x_count' = (m - x_i'[t]) + (m - x_i'[1 - t])
                                + IF x_pc'[t] = "post" \/ x_pc'[1 - t] = "post" THEN 1 ELSE 0,
                 x_i' \in [{0, 1} -> 0 .. m]
          PROVE  x_count' = (m - x_i'[0]) + (m - x_i'[1])
                                + IF x_pc'[0] = "post" \/ x_pc'[1] = "post" THEN 1 ELSE 0
      BY <1>1, <2>0, <2>2
    <2>3. x_i' \in [{0, 1} -> 0 .. m]
      BY <1>2, AlternateStep DEF AlternateInv, Alternate!Threads
    <2>4. CASE Alternate!Wait(t) \/ Alternate!Return(t)
      <3>1. /\ x_pc[t] = "loop" /\ x_pc' = [x_pc EXCEPT ![t] = x_pc'[t]]
            /\ x_pc'[t] \in {"read", "done"}
            /\ UNCHANGED <<x_count, x_aux, x_i, x_main>>
        BY <1>1, <2>4 DEF Alternate!Wait, Alternate!Return, Alternate!Move
      <3>2. /\ x_pc'[1 - t] = x_pc[1 - t]
            /\ x_pc'[t] \notin {"post", "write"} /\ x_pc[t] \notin {"post", "write"}
        BY <1>1, <2>0, <3>1
      <3> QED
        BY <2>0, <2>1, <2>2, <2>3, <3>1, <3>2 DEF AlternateTypes
    <2>5. CASE Alternate!ReadCount(t)
      <3>1. /\ x_pc[t] = "read" /\ x_pc' = [x_pc EXCEPT ![t] = "write"]
            /\ x_aux' = [x_aux EXCEPT ![t] = x_count]
            /\ UNCHANGED <<x_count, x_i, x_main>>
        BY <2>5 DEF Alternate!ReadCount, Alternate!Move
      <3>2. x_pc[1 - t] \notin Working
        BY <3>1, OneWorks DEF Working
      <3>3. /\ x_pc'[1 - t] = x_pc[1 - t] /\ x_pc'[t] = "write" /\ x_aux'[t] = x_count'
            /\ x_aux' \in [{0, 1} -> 0 .. 2 * m]
        BY <1>1, <2>0, <3>1 DEF AlternateTypes
      <3> QED
        BY <2>0, <2>1, <2>2, <2>3, <3>1, <3>2, <3>3 DEF AlternateTypes, Working
    <2>6. CASE Alternate!WriteCount(t)
      <3>1. /\ x_pc[t] = "write" /\ x_pc' = [x_pc EXCEPT ![t] = "post"]
            /\ x_count' = x_aux[t] + 1
            /\ UNCHANGED <<x_aux, x_i, x_main>>
        BY <2>6 DEF Alternate!WriteCount, Alternate!Move
      <3>2. x_pc[1 - t] \notin Working /\ x_aux[t] = x_count
        BY <3>1, OneWorks DEF Working, AlternateTypes
      <3>3. x_pc'[1 - t] = x_pc[1 - t] /\ x_pc'[t] = "post"
        BY <1>1, <2>0, <3>1
      <3>4. x_count' = (m - x_i'[t]) + (m - x_i'[1 - t]) + 1
        BY <1>1, <2>0, <2>1, <3>1, <3>2 DEF Working
      <3> QED
        BY <2>0, <2>2, <2>3, <3>1, <3>2, <3>3, <3>4 DEF AlternateTypes, Working
    <2>7. CASE Alternate!Post(t)
      <3>1. /\ x_pc[t] = "post" /\ x_pc' = [x_pc EXCEPT ![t] = "loop"]
            /\ x_i' = [x_i EXCEPT ![t] = @ - 1]
            /\ UNCHANGED <<x_count, x_aux, x_main>>
        BY <2>7 DEF Alternate!Post, Alternate!Move
      <3>2. x_pc[1 - t] \notin Working
        BY <3>1, OneWorks DEF Working
      <3>3. /\ x_pc'[1 - t] = x_pc[1 - t] /\ x_pc'[t] = "loop"
            /\ x_i'[t] = x_i[t] - 1 /\ x_i'[1 - t] = x_i[1 - t]
        BY <1>1, <2>0, <3>1
      <3>4. x_count' = (m - x_i'[t]) + (m - x_i'[1 - t])
        BY <1>1, <2>0, <2>1, <3>1, <3>2, <3>3 DEF Working
      <3>5. x_count' \in Int /\ x_count' = x_count' + 0
        BY <1>1, <3>1
      <3> QED
        BY <1>1, <2>0, <2>2, <2>3, <3>1, <3>2, <3>3, <3>4, <3>5 DEF AlternateTypes, Working
    <2> QED
      BY <1>2, <2>4, <2>5, <2>6, <2>7 DEF Alternate!ThreadStep
  <1>3. CASE UNCHANGED xVars
    BY <1>3 DEF xVars, AlternateTypes
  <1>4. CASE Alternate!MainStep
    <2>1. /\ UNCHANGED <<x_count, x_aux, x_i>> /\ x_main' \in {x_main, "done"}
          /\ \A t \in {0, 1} : x_pc'[t] \in {"write", "post"} <=> x_pc[t] \in {"write", "post"}
          /\ \A t \in {0, 1} : x_pc'[t] = "post" <=> x_pc[t] = "post"
      BY <1>1, <1>4 DEF Alternate!MainStep, Alternate!Create, Alternate!JoinedAll,
                        Alternate!Move, Alternate!Threads
    <2> QED
      BY <2>1 DEF AlternateTypes
  <1> QED
    BY <1>2, <1>3, <1>4 DEF Alternate!Threads

LEMMA RingTypesAreSame == RingProofs!TypeOK => Ring!TypeOK
  BY DEF RingProofs!TypeOK, Ring!TypeOK, RingProofs!Threads, Ring!Threads, RingProofs!Places,
         Ring!Places, RingProofs!quota, Ring!quota

LEMMA RemainderTypesAreSame == RemainderProofs!TypeOK => Remainder!TypeOK
  BY DEF RemainderProofs!TypeOK, Remainder!TypeOK, RemainderProofs!Threads, Remainder!Threads,
         RemainderProofs!Places, Remainder!Places, RemainderProofs!quota, Remainder!quota

\* The threads of Lab9_ex1.c are as they start when another program runs.
TypesInv ==
    /\ ProgramsInv /\ program \in Programs
    /\ IInv
    /\ program = "signal3" => SignalTypes(n)
    /\ program = "signal2" => SignalTypes(2)
    /\ program = "pipes" => PipeTypes
    /\ program = "pingpong" => AlternateTypes

LEMMA InitTypesInv == MCInit => TypesInv
  <1> SUFFICES ASSUME MCInit PROVE TypesInv
    OBVIOUS
  <1>1. ProgramsInv /\ program \in Programs /\ IInv
    BY ProgramsInit, InitIInv DEF MCInit
  <1>2. m \in Nat /\ n \in Nat \ {0}
    BY TurnCounterAssumption
  <1>3. CASE program = "signal3"
    BY <1>1, <1>2, <1>3 DEF MCInit, Signal3!Init, Signal3!Threads, SignalTypes, TypesInv
  <1>4. CASE program = "signal2"
    BY <1>1, <1>2, <1>4 DEF MCInit, Signal2!Init, Signal2!Threads, SignalTypes, TypesInv
  <1>5. CASE program = "pipes"
    BY <1>1, <1>2, <1>5 DEF MCInit, Pipes!Init, PipeTypes, TypesInv
  <1>6. CASE program = "pingpong"
    <2>1. /\ x_count = 0 /\ x_aux = [t \in {0, 1} |-> 0] /\ x_i = [t \in {0, 1} |-> m]
          /\ x_pc = [t \in {0, 1} |-> "new"] /\ x_main = "running"
      BY <1>6, AlternateQuota DEF MCInit, Alternate!Init, Alternate!Threads
    <2>2. 0 = (m - m) + (m - m) + 0 /\ 0 \in 0 .. 2 * m
      BY <1>2
    <2>3. AlternateTypes
      BY <2>1, <2>2 DEF AlternateTypes
    <2> QED
      BY <1>1, <1>6, <2>3 DEF TypesInv
  <1> QED
    BY <1>1, <1>3, <1>4, <1>5, <1>6 DEF TypesInv

LEMMA NextTypesInv == ASSUME TypesInv, [MCNext]_allVars PROVE TypesInv'
  <1> USE DEF TypesInv
  <1>1. program' = program
    BY DEF MCNext, MCMain, MCThread, MCSpurious, allVars
  <1>2. ProgramsInv' /\ program' \in Programs
    BY ProgramsNext
  <1>3. IInv'
    <2>1. [Next]_vars
      BY DEF MCNext, MCMain, MCThread, MCSpurious, allVars, Next
    <2> QED
      BY <2>1, NextIInv
  <1>4. program = "signal3" => SignalTypes(n)'
    <2>1. ASSUME program = "signal3"
          PROVE  \/ Signal3!MainStep \/ Signal3!Spurious \/ UNCHANGED xVars
                 \/ \E t \in Signal3!Threads : Signal3!ThreadStep(t)
      BY <2>1 DEF MCNext, MCMain, MCThread, MCSpurious, allVars, Threads, Signal3!Threads
    <2> QED
      BY <2>1, Signal3Typed DEF ProgramsInv
  <1>5. program = "signal2" => SignalTypes(2)'
    <2>1. ASSUME program = "signal2"
          PROVE  \/ Signal2!MainStep \/ Signal2!Spurious \/ UNCHANGED xVars
                 \/ \E t \in Signal2!Threads : Signal2!ThreadStep(t)
      BY <2>1 DEF MCNext, MCMain, MCThread, MCSpurious, allVars
    <2> QED
      BY <2>1, Signal2Typed DEF ProgramsInv
  <1>6. program = "pipes" => PipeTypes'
    <2>1. ASSUME program = "pipes"
          PROVE  \/ Pipes!Parent \/ (\E p \in Pipes!Processes : Pipes!Step(p))
                 \/ UNCHANGED xVars
      BY <2>1 DEF MCNext, MCMain, MCThread, MCSpurious, allVars, Threads, Pipes!Processes
    <2> QED
      BY <2>1, PipeTyped DEF ProgramsInv
  <1>7. program = "pingpong" => AlternateTypes'
    <2>1. ASSUME program = "pingpong"
          PROVE  \/ Alternate!MainStep \/ UNCHANGED xVars
                 \/ \E t \in Alternate!Threads : Alternate!ThreadStep(t)
      BY <2>1 DEF MCNext, MCMain, MCThread, MCSpurious, allVars
    <2> QED
      BY <2>1, AlternateTyped DEF ProgramsInv
  <1> QED
    BY <1>1, <1>2, <1>3, <1>4, <1>5, <1>6, <1>7

\* The variables of all programs have their types.  So count never exceeds what main prints
\* although two of them increment it without a lock, no semaphore or pipe ever holds two
\* tokens, and the remainder of l8_ex4.c falls below 0 by less than a lap of the ring.
THEOREM TurnsTypeCorrect == MCSpec => []MCTypeOK
  <1>1. TypesInv => MCTypeOK
    <2> SUFFICES ASSUME TypesInv PROVE MCTypeOK
      OBVIOUS
    <2> USE DEF TypesInv, ProgramsInv
    <2>0. m \in Nat /\ n \in Nat \ {0}
      BY TurnCounterAssumption
    <2>1. TypeOK
      BY CountBound, TurnCounterAssumption DEF IInv, Types, Rounds, TypeOK
    <2>2. program = "signal3" => Signal3!TypeOK
      <3>1. ASSUME program = "signal3" PROVE x_i \in [0 .. n - 1 -> 0 .. m]
        BY <2>0, <3>1 DEF SignalOrder, SignalTypes
      <3> QED
        BY <2>0, <3>1, SignalCount
        DEF SignalOrder, SignalTypes, Signal3!TypeOK, Signal3!Threads, Signal3!max_count
    <2>3. program = "signal2" => Signal2!TypeOK
      <3>1. ASSUME program = "signal2" PROVE x_i \in [0 .. 2 - 1 -> 0 .. m]
        BY <2>0, <3>1 DEF SignalOrder, SignalTypes
      <3>2. ASSUME program = "signal2" PROVE x_count \in 0 .. 2 * m
        <4>1. 2 \in Nat \ {0}
          OBVIOUS
        <4> QED
          BY <3>2, <4>1, SignalCount
      <3> QED
        BY <3>1, <3>2
        DEF SignalOrder, SignalTypes, Signal3!Places, Signal2!Places, Signal2!TypeOK,
            Signal2!Threads, Signal2!max_count
    <2>4. program = "ring" => Ring!TypeOK
      BY Assumptions, RingProofs!TypesHold, RingTypesAreSame
    <2>5. program = "remainder" => Remainder!TypeOK
      BY Assumptions, RemainderProofs!TypesHold, RemainderTypesAreSame
    <2>6. program = "pipes" => Pipes!TypeOK
      <3>1. ASSUME program = "pipes" PROVE x_count \in [Pipes!Processes -> 0 .. (m - 1) + 1]
        BY <2>0, <3>1 DEF PipeInv, PipeTypes
      <3>2. ASSUME program = "pipes" PROVE x_lock \in [Pipes!Processes -> 0 .. 1]
        BY <3>2 DEF PipeInv, Unseeded, TokenWith
      <3> QED
        BY <3>1, <3>2 DEF PipeInv, PipeTypes, Pipes!TypeOK
    <2>7. program = "pingpong" => Alternate!TypeOK
      <3>1. ASSUME program = "pingpong" PROVE x_lock \in [{0, 1} -> 0 .. 1]
        <4>1. PICK h \in {0, 1} : AlternateAt(h)
          BY <3>1 DEF AlternateInv
        <4>2. \A t \in {0, 1} : t = h \/ t = 1 - h
          OBVIOUS
        <4>3. \A t \in {0, 1} : x_lock[t] \in 0 .. 1
          BY <4>1, <4>2 DEF AlternateAt
        <4> QED
          BY <3>1, <4>3 DEF AlternateInv
      <3> QED
        BY <3>1, AlternateQuota, AlternateCount
        DEF AlternateInv, AlternateTypes, Alternate!TypeOK, Alternate!Threads
    <2> QED
      BY <2>1, <2>2, <2>3, <2>4, <2>5, <2>6, <2>7 DEF MCTypeOK
  <1> QED
    BY <1>1, InitTypesInv, NextTypesInv, PTL DEF MCSpec
==============================================================================
