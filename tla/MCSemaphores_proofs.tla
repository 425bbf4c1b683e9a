------------------------ MODULE MCSemaphores_proofs --------------------------
(***************************************************************************)
(* Proofs about programs of MCSemaphores.  RoomLight, for every finite set *)
(* of persons: announcements and reports pair up, there is one barrier     *)
(* token, and the variables have their types, so that no semaphore is ever *)
(* posted more often than there are persons.  StreetTokens: one street     *)
(* moves at a time.  Molecules, for every number of them: the atoms have   *)
(* their turns in the order of the recipe and go with their molecule.  The *)
(* variables of all three have their types.                                *)
(***************************************************************************)
EXTENDS MCSemaphores, Sequences, FiniteSetTheorems, TLAPS

Types ==
    /\ mutex \in Persons \cup {Nobody}
    /\ sem1 \in Nat /\ sem2 \in Nat /\ sem3 \in Nat
    /\ no_persons_inside \in Nat /\ no_persons_who_left \in Nat
    /\ light \in {"ON", "OFF"}
    /\ pc \in [Persons -> Places]
    /\ controller \in ControllerPlaces
    /\ main \in {"running", "done"}

\* The mutex belongs to the person between a lock and its unlock.
Holding == {"announce", "barrier", "repost", "enter", "leave", "report"}
Exclusion == \A t \in Persons : pc[t] \in Holding <=> mutex = t

\* The two counters count persons, and nobody has reported who has not gone.
Counts ==
    /\ no_persons_inside = Cardinality(At({"inside", "leave"}))
    /\ no_persons_who_left = Cardinality(At({"report", "gone"}))
    /\ sem3 <= Cardinality(At({"gone"}))

\* The inductive invariant: that visits pair up takes the mutex, as nobody else may be
\* between the barrier and the door when somebody finds the room empty.
IInv == Types /\ Exclusion /\ Counts /\ VisitsPairUp /\ OneBarrierToken
------------------------------------------------------------------------------
(* Counting.                                                               *)

\* Persons are finitely many, wherever they are.
LEMMA CountPersons ==
    ASSUME NEW S
    PROVE  /\ IsFiniteSet(At(S)) /\ Cardinality(At(S)) \in 0 .. no_persons
           /\ Cardinality(At(S)') \in Nat
  <1>1. At(S) \in SUBSET Persons /\ At(S)' \in SUBSET Persons
    BY DEF At
  <1> QED
    BY <1>1, FS_Subset, FS_CardinalityType, RoomLightAssumption DEF no_persons

\* A person that moves is counted where it comes to, and no longer where it was.
LEMMA MoveCounts ==
    ASSUME Types, NEW t \in Persons, NEW from, NEW to, NEW S, Move(t, from, to)
    PROVE  Cardinality(At(S)') = Cardinality(At(S)) + Bit(to \in S) - Bit(from \in S)
  <1>1. At(S)' = IF to \in S THEN At(S) \cup {t} ELSE At(S) \ {t}
    BY DEF Types, Move, At
  <1>2. t \in At(S) <=> from \in S
    BY DEF Move, At
  <1>3. IsFiniteSet(At(S)) /\ Cardinality(At(S)) \in Nat
    BY CountPersons DEF no_persons
  <1>4. CASE to \in S
    BY <1>1, <1>2, <1>3, <1>4, FS_AddElement DEF Bit
  <1>5. CASE to \notin S
    <2>1. At(S)' = At(S) \ {t} /\ Bit(to \in S) = 0
      BY <1>1, <1>5 DEF Bit
    <2>2. Cardinality(At(S) \ {t}) = Cardinality(At(S)) - Bit(from \in S)
      <3>1. Cardinality(At(S) \ {t})
              = IF t \in At(S) THEN Cardinality(At(S)) - 1 ELSE Cardinality(At(S))
        BY <1>3, FS_RemoveElement
      <3> QED
        BY <1>2, <1>3, <3>1 DEF Bit
    <2>3. Bit(from \in S) \in Int
      BY DEF Bit
    <2> QED
      BY <1>3, <2>1, <2>2, <2>3
  <1> QED
    BY <1>4, <1>5

\* Nobody is counted elsewhere while nobody moves.
LEMMA StayCounts ==
    ASSUME NEW S, UNCHANGED pc
    PROVE  At(S)' = At(S)
  BY DEF At

\* Somebody at a place of S is counted there.
LEMMA SomebodyAt ==
    ASSUME NEW S, NEW t \in Persons, pc[t] \in S
    PROVE  Cardinality(At(S)) > 0
  <1>1. t \in At(S)
    BY DEF At
  <1> QED
    BY <1>1, CountPersons, FS_EmptySet
------------------------------------------------------------------------------
LEMMA InitIInv == Init => IInv
  <1> SUFFICES ASSUME Init PROVE IInv
    OBVIOUS
  <1>1. /\ At({"inside", "leave"}) = {} /\ At({"report", "gone"}) = {}
        /\ At({"gone"}) = {} /\ At({"repost"}) = {}
        /\ At({"barrier", "repost", "enter", "report"}) = {}
    BY DEF Init, At
  <1>2. Types /\ Exclusion
    BY RoomLightAssumption DEF Init, Types, Exclusion, Holding, Places, ControllerPlaces
  <1>3. Counts /\ VisitsPairUp /\ OneBarrierToken
    BY <1>1, FS_EmptySet
    DEF Init, Counts, VisitsPairUp, OneBarrierToken, Visited, Empty, Bit
  <1> QED
    BY <1>2, <1>3 DEF IInv

\* Whoever finds the room empty is alone between the barrier and the door.
LEMMA HolderAlone ==
    ASSUME IInv, NEW t \in Persons, pc[t] \in Holding, NEW S \in SUBSET Holding
    PROVE  At(S) = IF pc[t] \in S THEN {t} ELSE {}
  BY DEF IInv, Types, Exclusion, At

\* The steps of persons, in three parts: who holds the mutex; what is counted; and the
\* semaphores.
LEMMA PersonExclusion ==
    ASSUME IInv, NEW t \in Persons, PersonStep(t)
    PROVE  /\ Exclusion'
           /\ pc' \in [Persons -> Places]
           /\ mutex' \in Persons \cup {Nobody}
  BY RoomLightAssumption
  DEF IInv, Types, Exclusion, Holding, Places, PersonStep, LockDoor, Announce, Barrier,
      Repost, Enter, Leave, Report, Move, Lock, Unlock

LEMMA PersonCounts ==
    ASSUME IInv, NEW t \in Persons, PersonStep(t)
    PROVE  /\ Counts'
           /\ no_persons_inside' \in Nat /\ no_persons_who_left' \in Nat
  <1> DEFINE I == {"inside", "leave"}
             L == {"report", "gone"}
             G == {"gone"}
  <1>1. /\ Types /\ Counts /\ sem3 \in Nat
        /\ Cardinality(At(I)) \in Nat /\ Cardinality(At(L)) \in Nat
        /\ Cardinality(At(G)) \in Nat
        /\ Cardinality(At(I)') \in Nat /\ Cardinality(At(L)') \in Nat
    BY CountPersons DEF IInv, Types
  <1>2. ASSUME NEW from, NEW to, Move(t, from, to)
        PROVE  /\ Cardinality(At(I)') = Cardinality(At(I)) + Bit(to \in I) - Bit(from \in I)
               /\ Cardinality(At(L)') = Cardinality(At(L)) + Bit(to \in L) - Bit(from \in L)
               /\ Cardinality(At(G)') = Cardinality(At(G)) + Bit(to \in G) - Bit(from \in G)
    BY <1>1, <1>2, MoveCounts
  <1> USE <1>1 DEF Counts, Bit
  <1>3. CASE LockDoor(t)
    BY <1>2, <1>3 DEF LockDoor, room
  <1>4. CASE Announce(t)
    BY <1>2, <1>4 DEF Announce, room
  <1>5. CASE Barrier(t)
    BY <1>2, <1>5 DEF Barrier, room
  <1>6. CASE Repost(t)
    BY <1>2, <1>6 DEF Repost, room
  <1>7. CASE Enter(t)
    BY <1>2, <1>7 DEF Enter
  <1>8. CASE Leave(t)
    BY <1>2, <1>8 DEF Leave
  <1>9. CASE Report(t)
    BY <1>2, <1>9 DEF Report, room, SemPost
  <1> QED
    BY <1>3, <1>4, <1>5, <1>6, <1>7, <1>8, <1>9 DEF PersonStep

LEMMA PersonSemaphores ==
    ASSUME IInv, NEW t \in Persons, PersonStep(t)
    PROVE  /\ VisitsPairUp' /\ OneBarrierToken'
           /\ sem1' \in Nat /\ sem2' \in Nat /\ sem3' \in Nat
  <1> DEFINE B == {"barrier", "repost", "enter", "report"}
             R == {"repost"}
  <1>1. /\ Types /\ VisitsPairUp /\ OneBarrierToken /\ sem1 \in Nat /\ sem2 \in Nat
        /\ sem3 \in Nat /\ no_persons_inside \in Nat
        /\ Cardinality(At(R)) \in Nat
    BY CountPersons DEF IInv, Types
  <1>2. ASSUME NEW from, NEW to, Move(t, from, to)
        PROVE  Cardinality(At(R)') = Cardinality(At(R)) + Bit(to \in R) - Bit(from \in R)
    BY <1>1, <1>2, MoveCounts
  <1>3. controller' = controller
    BY DEF PersonStep
  \* Visited before and after a step that starts or ends with the mutex.
  <1>4. ASSUME NEW from \in Holding, NEW to \in Holding \cup {"inside", "gone"}, Move(t, from, to)
        PROVE  (At(B) # {} <=> from \in B) /\ (At(B)' # {} <=> to \in B)
    <2>1. pc[t] = from /\ pc'[t] = to
      BY <1>1, <1>4 DEF Types, Move
    <2>2. \A u \in Persons \ {t} : pc[u] \notin Holding /\ pc'[u] = pc[u]
      BY <1>4, <2>1 DEF IInv, Types, Exclusion, Move
    <2> QED
      BY <2>1, <2>2 DEF At, Holding
  <1>5. CASE LockDoor(t)
    <2>1. (At(B) # {} <=> At(B)' # {}) /\ sem1' = sem1 /\ sem3' = sem3 /\ sem2' = sem2
          /\ no_persons_inside' = no_persons_inside
      BY <1>1, <1>5 DEF LockDoor, room, At, Types, Move
    <2>2. Cardinality(At(R)') = Cardinality(At(R))
      BY <1>1, <1>2, <1>5 DEF LockDoor, Bit
    <2> QED
      BY <1>1, <1>3, <2>1, <2>2 DEF VisitsPairUp, OneBarrierToken, Visited, Empty
  <1>6. CASE Announce(t)
    <2>1. At(B) = {} /\ At(B)' # {}
      BY <1>4, <1>6 DEF Announce, Holding
    <2>2. Cardinality(At(R)') = Cardinality(At(R))
      BY <1>1, <1>2, <1>6 DEF Announce, Bit
    <2>3. /\ sem1' = sem1 + Bit(Empty) /\ sem3' = sem3 /\ sem2' = sem2
          /\ no_persons_inside' = no_persons_inside
      BY <1>1, <1>6 DEF Announce, SemPost, Bit, room
    <2> QED
      BY <1>1, <1>3, <2>1, <2>2, <2>3 DEF VisitsPairUp, OneBarrierToken, Visited, Empty, Bit
  <1>7. CASE Barrier(t)
    <2>1. At(B) # {} /\ At(B)' # {}
      BY <1>4, <1>7 DEF Barrier, Holding
    <2>2. Cardinality(At(R)') = Cardinality(At(R)) + 1
      BY <1>1, <1>2, <1>7 DEF Barrier, Bit
    <2>3. /\ sem1' = sem1 /\ sem3' = sem3 /\ sem2' = sem2 - 1 /\ sem2 > 0
          /\ no_persons_inside' = no_persons_inside
      BY <1>7 DEF Barrier, SemWait, room
    <2> QED
      BY <1>1, <1>3, <2>1, <2>2, <2>3 DEF VisitsPairUp, OneBarrierToken, Visited, Empty, Bit
  <1>8. CASE Repost(t)
    <2>1. At(B) # {} /\ At(B)' # {}
      BY <1>4, <1>8 DEF Repost, Holding
    <2>2. Cardinality(At(R)') = Cardinality(At(R)) - 1
      BY <1>1, <1>2, <1>8 DEF Repost, Bit
    <2>3. /\ sem1' = sem1 /\ sem3' = sem3 /\ sem2' = sem2 + 1
          /\ no_persons_inside' = no_persons_inside
      BY <1>8 DEF Repost, SemPost, room
    <2> QED
      BY <1>1, <1>3, <2>1, <2>2, <2>3 DEF VisitsPairUp, OneBarrierToken, Visited, Empty, Bit
  <1>9. CASE Enter(t)
    <2>1. At(B) # {}
      BY <1>4, <1>9 DEF Enter, Holding
    <2>2. Cardinality(At(R)') = Cardinality(At(R))
      BY <1>1, <1>2, <1>9 DEF Enter, Bit
    <2>3. /\ sem1' = sem1 /\ sem3' = sem3 /\ sem2' = sem2
          /\ no_persons_inside' = no_persons_inside + 1
      BY <1>9 DEF Enter
    <2> QED
      BY <1>1, <1>3, <2>1, <2>2, <2>3 DEF VisitsPairUp, OneBarrierToken, Visited, Empty, Bit
  <1>10. CASE Leave(t)
    <2>1. At(B)' # {}
      BY <1>4, <1>10 DEF Leave, Holding
    <2>2. Cardinality(At(R)') = Cardinality(At(R))
      BY <1>1, <1>2, <1>10 DEF Leave, Bit
    <2>3. no_persons_inside > 0
      BY <1>10, SomebodyAt DEF Leave, Move, IInv, Counts
    <2>4. sem1' = sem1 /\ sem3' = sem3 /\ sem2' = sem2
      BY <1>10 DEF Leave
    <2> QED
      BY <1>1, <1>3, <2>1, <2>2, <2>3, <2>4
      DEF VisitsPairUp, OneBarrierToken, Visited, Empty, Bit
  <1>11. CASE Report(t)
    <2>1. At(B) # {} /\ At(B)' = {}
      BY <1>4, <1>11 DEF Report, Holding
    <2>2. Cardinality(At(R)') = Cardinality(At(R))
      BY <1>1, <1>2, <1>11 DEF Report, Bit
    <2>3. /\ sem1' = sem1 /\ sem3' = sem3 + Bit(Empty) /\ sem2' = sem2
          /\ no_persons_inside' = no_persons_inside
      BY <1>1, <1>11 DEF Report, SemPost, Bit, room
    <2> QED
      BY <1>1, <1>3, <2>1, <2>2, <2>3 DEF VisitsPairUp, OneBarrierToken, Visited, Empty, Bit
  <1> QED
    BY <1>5, <1>6, <1>7, <1>8, <1>9, <1>10, <1>11 DEF PersonStep

\* While no person does anything the counts stay what they are.
LEMMA PersonsStay ==
    ASSUME IInv, UNCHANGED <<mutex, room, pc>>
    PROVE  /\ Exclusion'
           /\ sem3' \in Nat /\ sem3' <= sem3 => Counts'
           /\ pc' \in [Persons -> Places] /\ mutex' \in Persons \cup {Nobody}
           /\ no_persons_inside' \in Nat /\ no_persons_who_left' \in Nat
           /\ Visited' <=> Visited
           /\ Cardinality(At({"repost"})') = Cardinality(At({"repost"}))
  <1>1. /\ mutex' = mutex /\ pc' = pc /\ no_persons_inside' = no_persons_inside
        /\ no_persons_who_left' = no_persons_who_left
    BY DEF room
  <1>2. \A S : At(S)' = At(S)
    BY <1>1 DEF At
  <1>3. Exclusion'
    BY <1>1 DEF IInv, Exclusion
  <1>4. ASSUME sem3' \in Nat, sem3' <= sem3 PROVE Counts'
    <2>1. Cardinality(At({"gone"})) \in Nat /\ sem3 \in Nat
      BY CountPersons DEF IInv, Types
    <2> QED
      BY <1>1, <1>2, <1>4, <2>1 DEF IInv, Counts
  <1>5. Visited' <=> Visited
    BY <1>1, <1>2 DEF Visited, Empty
  <1> QED
    BY <1>1, <1>2, <1>3, <1>4, <1>5 DEF IInv, Types

LEMMA ControllerIInv ==
    ASSUME IInv, ControllerStep
    PROVE  IInv'
  <1>1. /\ Exclusion'
        /\ sem3' \in Nat /\ sem3' <= sem3 => Counts'
        /\ pc' \in [Persons -> Places] /\ mutex' \in Persons \cup {Nobody}
        /\ no_persons_inside' \in Nat /\ no_persons_who_left' \in Nat
        /\ Visited' <=> Visited
        /\ Cardinality(At({"repost"})') = Cardinality(At({"repost"}))
        /\ main' = main
    BY PersonsStay DEF ControllerStep
  <1>2. Cardinality(At({"repost"})) \in Nat
    BY CountPersons
  <1>3. /\ VisitsPairUp /\ OneBarrierToken
        /\ sem1 \in Nat /\ sem2 \in Nat /\ sem3 \in Nat
        /\ light \in {"ON", "OFF"} /\ main \in {"running", "done"}
    BY DEF IInv, Types
  <1>4. Bit(Visited)' = Bit(Visited) /\ Bit(Visited) \in Nat
    BY <1>1 DEF Bit
  <1>5. /\ VisitsPairUp' /\ OneBarrierToken'
        /\ sem1' \in Nat /\ sem2' \in Nat /\ sem3' \in Nat /\ sem3' <= sem3
        /\ light' \in {"ON", "OFF"} /\ controller' \in ControllerPlaces
    <2> USE <1>1, <1>2, <1>3, <1>4 DEF VisitsPairUp, OneBarrierToken, ControllerPlaces, Control
    <2>1. CASE Check
      <3>1. /\ controller = "check" /\ controller' \in {"await", "done"}
            /\ sem1' = sem1 /\ sem2' = sem2 /\ sem3' = sem3 /\ light' = light
        BY <2>1 DEF Check
      <3>2. /\ sem1 + 0 = sem3 + Bit(Visited) /\ Bit(controller \in {"open", "lit"})' = 0
            /\ Bit(controller \in {"lit", "reset"}) = 0 /\ Bit(controller \in {"lit", "reset"})' = 0
        BY <3>1 DEF Bit
      <3> QED
        BY <3>1, <3>2
    <2>2. CASE LightOn
      <3>1. /\ controller = "await" /\ controller' = "open" /\ light' = "ON"
            /\ sem1 > 0 /\ sem1' = sem1 - 1 /\ sem2' = sem2 /\ sem3' = sem3
        BY <2>2 DEF LightOn, SemWait
      <3>2. /\ sem1 + 0 = sem3 + Bit(Visited) /\ Bit(controller \in {"open", "lit"})' = 1
            /\ Bit(controller \in {"lit", "reset"}) = 0 /\ Bit(controller \in {"lit", "reset"})' = 0
        BY <3>1 DEF Bit
      <3>3. sem1' \in Nat /\ sem1' + 1 = sem3' + Bit(Visited)
        BY <3>1, <3>2
      <3>4. VisitsPairUp'
        BY <3>2, <3>3
      <3>5. OneBarrierToken' /\ sem3' <= sem3
        BY <3>1, <3>2
      <3> QED
        BY <3>1, <3>3, <3>4, <3>5
    <2>3. CASE Open
      BY <2>3 DEF Open, SemPost, Bit
    <2>4. CASE LightOff
      BY <2>4 DEF LightOff, SemWait, Bit
    <2>5. CASE Reset
      BY <2>5 DEF Reset, SemWait, Bit
    <2> QED
      BY <2>1, <2>2, <2>3, <2>4, <2>5 DEF ControllerStep
  <1> QED
    BY <1>1, <1>3, <1>5 DEF IInv, Types

\* A person that is created comes to a place where nobody is counted.
LEMMA CreateIInv ==
    ASSUME IInv, NEW t \in Persons, Create(t)
    PROVE  IInv'
  <1>1. /\ UNCHANGED <<mutex, sem1, sem2, sem3, room, light, controller, main>>
        /\ Move(t, "new", "arrive") /\ Types
    BY DEF Create, IInv
  <1>2. ASSUME NEW S, "new" \notin S, "arrive" \notin S
        PROVE  At(S)' = At(S)
    BY <1>1, <1>2 DEF At, Move, Types
  <1>3. Types' /\ Exclusion'
    BY <1>1 DEF IInv, Types, Exclusion, Move, Places, Holding, room
  <1>4. Counts' /\ VisitsPairUp' /\ OneBarrierToken'
    BY <1>1, <1>2 DEF IInv, Counts, VisitsPairUp, OneBarrierToken, Visited, Empty, room
  <1> QED
    BY <1>3, <1>4 DEF IInv

LEMMA NextIInv == IInv /\ [Next]_vars => IInv'
  <1> SUFFICES ASSUME IInv, [Next]_vars PROVE IInv'
    OBVIOUS
  <1>1. ASSUME NEW t \in Persons, PersonStep(t) PROVE IInv'
    <2>1. UNCHANGED <<light, controller, main>>
      BY <1>1 DEF PersonStep
    <2> QED
      BY <1>1, <2>1, PersonExclusion, PersonCounts, PersonSemaphores DEF IInv, Types
  <1>2. CASE ControllerStep
    BY <1>2, ControllerIInv
  <1>3. ASSUME NEW t \in Persons, Create(t) PROVE IInv'
    BY <1>3, CreateIInv
  <1>4. CASE CreateController \/ JoinedAll \/ UNCHANGED vars
    <2>1. /\ UNCHANGED <<mutex, sem1, sem2, sem3, room, light, pc>>
          /\ main' \in {"running", "done"} /\ controller' \in ControllerPlaces
          /\ controller' \in {"open", "lit"} <=> controller \in {"open", "lit"}
          /\ controller' \in {"lit", "reset"} <=> controller \in {"lit", "reset"}
      BY <1>4 DEF CreateController, JoinedAll, vars, Control, IInv, Types, ControllerPlaces
    <2>2. /\ Exclusion'
          /\ sem3' \in Nat /\ sem3' <= sem3 => Counts'
          /\ Visited' <=> Visited
          /\ Cardinality(At({"repost"})') = Cardinality(At({"repost"}))
      BY <2>1, PersonsStay
    <2> QED
      BY <2>1, <2>2 DEF IInv, Types, VisitsPairUp, OneBarrierToken, Bit, room
  <1> QED
    BY <1>1, <1>2, <1>3, <1>4 DEF Next, MainStep, Terminated

LEMMA Invariance == Spec => []IInv
  BY InitIInv, NextIInv, PTL DEF Spec
------------------------------------------------------------------------------
\* Every sem_post of the first person into the room meets one of the last person out,
\* whatever the controller does meanwhile (lines 27, 43, 57 and 61): it never counts a
\* visit twice and never misses one.
THEOREM VisitsAlwaysPairUp == Spec => []VisitsPairUp
  <1>1. IInv => VisitsPairUp
    BY DEF IInv
  <1> QED
    BY <1>1, Invariance, PTL

\* The barrier sem2 is one token: persons give back what they took (lines 29 and 30)
\* before the controller closes the room again (line 62).
THEOREM BarrierIsOneToken == Spec => []OneBarrierToken
  <1>1. IInv => OneBarrierToken
    BY DEF IInv
  <1> QED
    BY <1>1, Invariance, PTL

\* What bounds the semaphores of the room.
LEMMA IInvTypes == ASSUME IInv PROVE TypeOK
  <1> DEFINE I == {"inside", "leave"}
             B == {"barrier", "repost", "enter", "report"}
             G == {"gone"}
  <1>1. /\ Cardinality(At(I)) \in 0 .. no_persons /\ Cardinality(At(G)) \in 0 .. no_persons
        /\ Cardinality(At({"report", "gone"})) \in 0 .. no_persons
        /\ Cardinality(At({"repost"})) \in 0 .. no_persons /\ no_persons \in Nat
    BY CountPersons, FS_CardinalityType, RoomLightAssumption DEF no_persons
  \* Whoever visits the room has not gone.
  <1>2. Cardinality(At(G)) + Bit(Visited) <= no_persons
    <2>1. CASE ~Visited
      BY <1>1, <2>1 DEF Bit
    <2>2. CASE Visited
      <3>1. PICK u \in Persons : pc[u] # "gone"
        <4>1. CASE At(B) # {}
          BY <4>1 DEF At
        <4>2. CASE no_persons_inside # 0
          <5>1. At(I) # {}
            BY <4>2, FS_EmptySet DEF IInv, Counts
          <5> QED
            BY <5>1 DEF At
        <4> QED
          BY <2>2, <4>1, <4>2 DEF Visited, Empty
      <3>2. At(G) \in SUBSET (Persons \ {u})
        BY <3>1 DEF At
      <3>3. IsFiniteSet(Persons \ {u}) /\ Cardinality(Persons \ {u}) = no_persons - 1
        BY FS_RemoveElement, RoomLightAssumption DEF no_persons
      <3>4. Cardinality(At(G)) <= no_persons - 1
        BY <3>2, <3>3, FS_Subset
      <3> QED
        BY <1>1, <2>2, <3>4 DEF Bit
    <2> QED
      BY <2>1, <2>2
  <1>3. sem1 \in 0 .. no_persons /\ sem3 \in 0 .. no_persons
    BY <1>1, <1>2 DEF IInv, Types, Counts, VisitsPairUp, Bit
  <1>4. sem2 \in 0 .. 1
    BY <1>1 DEF IInv, Types, OneBarrierToken, Bit
  <1> QED
    BY <1>1, <1>3, <1>4 DEF IInv, Types, Counts, TypeOK

\* The variables have their types: no semaphore counts more than there are persons and
\* the barrier is binary, although nothing in the code bounds them.
THEOREM TypeCorrect == Spec => []TypeOK
  <1>1. IInv => TypeOK
    BY IInvTypes
  <1> QED
    BY <1>1, Invariance, PTL
------------------------------------------------------------------------------
(***************************************************************************)
(* The light with tokens.                                                  *)
(***************************************************************************)
\* Whether the cars of street s move, as a number.
LEMMA MovingIsBit ==
    ASSUME NEW s
    PROVE  Cardinality(moving \cap {s}) = Bit(s \in moving)
  <1>1. CASE s \in moving
    <2>1. moving \cap {s} = {s}
      BY <1>1
    <2> QED
      BY <1>1, <2>1, FS_Singleton DEF Bit
  <1>2. CASE s \notin moving
    <2>1. moving \cap {s} = {}
      BY <1>2
    <2> QED
      BY <1>2, <2>1, FS_EmptySet DEF Bit
  <1> QED
    BY <1>1, <1>2

\* Street s has the light.
HasLight(s) == s_light = <<"wait1", "wait2">>[s]

StreetTypes ==
    /\ sems \in [Street!Streets -> Nat]
    /\ moving \in SUBSET Street!Streets
    /\ s_light \in {"post1", "wait1", "post2", "wait2"}

OneToken == \A s \in Street!Streets : sems[s] + Bit(s \in moving) = Bit(HasLight(s))

StreetInv == StreetTypes /\ OneToken

LEMMA TokensAreBits ==
    /\ Street!Streets = {1, 2}
    /\ \A s : Street!Tokens(s) = sems[s] + Bit(s \in moving)
    /\ OneStreetMoves <=> OneToken
  <1>1. Street!Streets = {1, 2}
    BY DEF Street!Streets
  <1>2. ASSUME NEW s PROVE Street!Tokens(s) = sems[s] + Bit(s \in moving)
    <2>1. Street!Cardinality(moving \cap {s}) = Cardinality(moving \cap {s})
      BY DEF Street!Cardinality, Cardinality
    <2> QED
      BY <2>1, MovingIsBit DEF Street!Tokens
  <1>3. OneStreetMoves <=> OneToken
    BY <1>2 DEF OneStreetMoves, Street!OneStreetMoves, OneToken, HasLight, Bit
  <1> QED
    BY <1>1, <1>2, <1>3

\* A street that starts or stops takes its token along.
LEMMA StreetStepInv ==
    ASSUME StreetInv, NEW s \in Street!Streets, Street!StreetStep(s)
    PROVE  StreetInv'
  <1>1. s_light' = s_light
    BY DEF Street!StreetStep, Street!Move, Street!Stop
  <1>2. \/ /\ s \notin moving /\ moving' = moving \cup {s}
           /\ sems[s] > 0 /\ sems' = [sems EXCEPT ![s] = @ - 1]
        \/ /\ s \in moving /\ moving' = moving \ {s}
           /\ sems' = [sems EXCEPT ![s] = @ + 1]
    BY DEF Street!StreetStep, Street!Move, Street!Stop, Street!SemWaitAt, Street!SemPostAt
  <1>3. StreetTypes'
    BY <1>1, <1>2 DEF StreetInv, StreetTypes
  <1>4. ASSUME NEW r \in Street!Streets
        PROVE  sems'[r] + Bit(r \in moving') = sems[r] + Bit(r \in moving)
    BY <1>2 DEF StreetInv, StreetTypes, Bit
  <1>5. OneToken'
    BY <1>1, <1>4 DEF StreetInv, OneToken, HasLight
  <1> QED
    BY <1>3, <1>5 DEF StreetInv

\* The light gives a token to the street that becomes green, and takes it back.
LEMMA LightStepInv ==
    ASSUME StreetInv, Street!LightStep
    PROVE  StreetInv'
  <1>1. PICK s \in Street!Streets : Street!Green(s) \/ Street!Red(s)
    BY DEF Street!LightStep
  <1>2. moving' = moving
    BY <1>1 DEF Street!Green, Street!Red
  <1>3. \/ /\ s_light = <<"post1", "post2">>[s] /\ s_light' = <<"wait1", "wait2">>[s]
           /\ sems' = [sems EXCEPT ![s] = @ + 1]
        \/ /\ s_light = <<"wait1", "wait2">>[s] /\ s_light' = <<"post2", "post1">>[s]
           /\ sems[s] > 0 /\ sems' = [sems EXCEPT ![s] = @ - 1]
    BY <1>1 DEF Street!Green, Street!Red, Street!SemWaitAt, Street!SemPostAt
  <1>4. s = 1 \/ s = 2
    BY TokensAreBits
  <1>5. StreetTypes'
    BY <1>2, <1>3, <1>4 DEF StreetInv, StreetTypes
  <1>6. ASSUME NEW r \in Street!Streets
        PROVE  sems'[r] - Bit(HasLight(r)') = sems[r] - Bit(HasLight(r))
    BY <1>3, <1>4, TokensAreBits DEF StreetInv, StreetTypes, HasLight, Bit
  <1>7. OneToken'
    BY <1>2, <1>5, <1>6 DEF StreetInv, StreetTypes, OneToken, Bit
  <1> QED
    BY <1>5, <1>7 DEF StreetInv

LEMMA StreetNext ==
    ASSUME StreetInv, s_created \in 0 .. 3, [Street!Next]_streetVars
    PROVE  StreetInv' /\ s_created' \in 0 .. 3
  <1>1. StreetInv'
    <2>1. CASE Street!MainStep \/ UNCHANGED streetVars
      BY <2>1 DEF Street!MainStep, StreetInv, StreetTypes, OneToken, HasLight, streetVars
    <2> QED
      BY <2>1, StreetStepInv, LightStepInv DEF Street!Next
  <1>2. s_created' = s_created \/ (s_created < 3 /\ s_created' = s_created + 1)
    <2>1. CASE Street!MainStep
      BY <2>1 DEF Street!MainStep
    <2>2. CASE Street!LightStep
      BY <2>2, Zenon DEF Street!LightStep, Street!Green, Street!Red
    <2>3. ASSUME NEW s \in Street!Streets, Street!StreetStep(s) PROVE s_created' = s_created
      BY <2>3, Zenon DEF Street!StreetStep, Street!Move, Street!Stop
    <2> QED
      BY <2>1, <2>2, <2>3 DEF Street!Next, streetVars
  <1> QED
    BY <1>1, <1>2

LEMMA StreetInit ==
    ASSUME MCInit
    PROVE  StreetInv /\ s_created \in 0 .. 3
  <1>1. /\ sems = [s \in Street!Streets |-> 0] /\ moving = {} /\ s_light = "post1"
        /\ s_created = 0
    BY DEF MCInit, Street!Init
  <1> QED
    BY <1>1, TokensAreBits DEF StreetInv, StreetTypes, OneToken, HasLight, Bit

\* The cars of a street move only while its light is green (lines 38-45), although they
\* stop and go on without asking the light: each green street has one token, and while
\* the light changes there is none.
THEOREM StreetsMoveInTurn == MCSpec => []OneStreetMoves
  <1>1. [MCNext]_allVars => [Street!Next]_streetVars
    BY DEF MCNext, MCMain, MCController, MCPerson, MCAtom, MCEnd, MCStreet, allVars, streetVars
  <1>2. StreetInv => OneStreetMoves
    BY TokensAreBits DEF StreetInv
  <1> DEFINE I == StreetInv /\ s_created \in 0 .. 3
  <1>3. MCInit => I
    BY StreetInit
  <1>4. I /\ [MCNext]_allVars => I'
    BY <1>1, StreetNext
  <1>5. I => OneStreetMoves
    BY <1>2
  <1> QED
    BY <1>3, <1>4, <1>5, PTL DEF MCSpec
------------------------------------------------------------------------------
(***************************************************************************)
(* The molecules, for every amount of them.  A place of an atom is what it *)
(* has still to do.                                                        *)
(***************************************************************************)
W(s) == Molecule!Wait(s)
P(s) == Molecule!Post(s)
End == <<>>

Na0 == <<W("na_mutex"), P("na_sem"), W("cl_sem"), P("na_mutex")>>
Na1 == <<P("na_sem"), W("cl_sem"), P("na_mutex")>>
Na2 == <<W("cl_sem"), P("na_mutex")>>
Na3 == <<P("na_mutex")>>

Cl0 == <<W("cl_mutex"), P("cl_sem"), W("na_sem"), P("cl_mutex")>>
Cl1 == <<P("cl_sem"), W("na_sem"), P("cl_mutex")>>
Cl2 == <<W("na_sem"), P("cl_mutex")>>
Cl3 == <<P("cl_mutex")>>

\* Hydrogen: the turn goes to an oxygen (HO) or to the next hydrogen (HH).
H0 == <<W("h_sem"), Molecule!Count("count_h"), Molecule!Test("count_h"), W("h2o_mutex")>>
H1 == <<Molecule!Count("count_h"), Molecule!Test("count_h"), W("h2o_mutex")>>
H2 == <<Molecule!Test("count_h"), W("h2o_mutex")>>
HO == <<P("o_sem"), W("h2o_mutex")>>
HH == <<P("h_sem"), W("h2o_mutex")>>
H3 == <<W("h2o_mutex")>>

O0 == <<W("o_sem"), P("h_sem"), P("h2o_mutex"), P("h2o_mutex")>>
O1 == <<P("h_sem"), P("h2o_mutex"), P("h2o_mutex")>>
O2 == <<P("h2o_mutex"), P("h2o_mutex")>>
O3 == <<P("h2o_mutex")>>

\* The same in sulphuric acid: the turn goes to the sulphur (hS) or to a hydrogen (hH).
h0 == <<W("h__sem"), Molecule!Count("count__h"), Molecule!Test("count__h"), W("h2_mutex")>>
h1 == <<Molecule!Count("count__h"), Molecule!Test("count__h"), W("h2_mutex")>>
h2 == <<Molecule!Test("count__h"), W("h2_mutex")>>
hS == <<P("s_sem"), W("h2_mutex")>>
hH == <<P("h__sem"), W("h2_mutex")>>
h3 == <<W("h2_mutex")>>

S0 == <<W("s_sem"), P("o__sem"), W("s_mutex")>>
S1 == <<P("o__sem"), W("s_mutex")>>
S2 == <<W("s_mutex")>>

\* The turn goes to the next oxygen (oO), or the molecule is complete: c1 to c7.
o0 == <<W("o__sem"), Molecule!Count("count_o"), Molecule!Test("count_o")>>
o1 == <<Molecule!Count("count_o"), Molecule!Test("count_o")>>
o2 == <<Molecule!Test("count_o")>>
oO == <<P("o__sem"), W("o_mutex")>>
o3 == <<W("o_mutex")>>
c1 == Molecule!Complete
c2 == <<P("h2_mutex"), P("s_mutex"), P("o_mutex"), P("o_mutex"), P("o_mutex"), P("h__sem")>>
c3 == <<P("s_mutex"), P("o_mutex"), P("o_mutex"), P("o_mutex"), P("h__sem")>>
c4 == <<P("o_mutex"), P("o_mutex"), P("o_mutex"), P("h__sem")>>
c5 == <<P("o_mutex"), P("o_mutex"), P("h__sem")>>
c6 == <<P("o_mutex"), P("h__sem")>>
c7 == <<P("h__sem")>>

PlacesOf ==
    [Na |-> {Na0, Na1, Na2, Na3, End}, Cl |-> {Cl0, Cl1, Cl2, Cl3, End},
     H |-> {H0, H1, H2, HO, HH, H3, End}, O |-> {O0, O1, O2, O3, End},
     H_ |-> {h0, h1, h2, hS, hH, h3, End}, S |-> {S0, S1, S2, End},
     O_ |-> {o0, o1, o2, oO, o3, c1, c2, c3, c4, c5, c6, c7, End}]

MoleculeTypes ==
    /\ phase \in Molecule!Phases
    /\ m_sem \in [DOMAIN Molecule!Initial -> Nat]
    /\ m_count \in [{"count_h", "count__h", "count_o"} -> Nat]
    /\ todo = [a \in Molecule!AllAtoms |-> todo[a]]
    /\ \A a \in Molecule!AllAtoms : todo[a] \in PlacesOf[a[1]]
    /\ m_created \subseteq Molecule!AllAtoms
    /\ \A a \in Molecule!AllAtoms \ m_created : todo[a] = Molecule!Code[a[1]]

\* How many atoms of element e are at the place x.
AtPlace(e, x) == {a \in Molecule!AllAtoms : a[1] = e /\ todo[a] = x}
Num(e, x) == Cardinality(AtPlace(e, x))

\* How many of the first k atoms of a recipe, repeated, are of element e.
Needs(recipe, e, k) == Cardinality({j \in 0 .. k - 1 : recipe[(j % Len(recipe)) + 1] = e})
Water == <<"H", "H", "O">>
Acid == <<"H_", "H_", "S", "O_", "O_", "O_", "O_">>

\* The numbers of atoms, the semaphores, the counters and how many atoms have begun, by name.
nNa1 == Num("Na", Na1)
nNa2 == Num("Na", Na2)
nNa3 == Num("Na", Na3)
nNaEnd == Num("Na", End)
nCl1 == Num("Cl", Cl1)
nCl2 == Num("Cl", Cl2)
nCl3 == Num("Cl", Cl3)
nClEnd == Num("Cl", End)
nH1 == Num("H", H1)
nH2 == Num("H", H2)
nHO == Num("H", HO)
nHH == Num("H", HH)
nHEnd == Num("H", End)
nO1 == Num("O", O1)
nO2 == Num("O", O2)
nO3 == Num("O", O3)
nOEnd == Num("O", End)
nh1 == Num("H_", h1)
nh2 == Num("H_", h2)
nhS == Num("H_", hS)
nhH == Num("H_", hH)
nhEnd == Num("H_", End)
nS1 == Num("S", S1)
nSEnd == Num("S", End)
no1 == Num("O_", o1)
no2 == Num("O_", o2)
noO == Num("O_", oO)
nc1 == Num("O_", c1)
nc2 == Num("O_", c2)
nc3 == Num("O_", c3)
nc4 == Num("O_", c4)
nc5 == Num("O_", c5)
nc6 == Num("O_", c6)
nc7 == Num("O_", c7)
noEnd == Num("O_", End)

na_mutex == m_sem["na_mutex"]
cl_mutex == m_sem["cl_mutex"]
na_sem == m_sem["na_sem"]
cl_sem == m_sem["cl_sem"]
h_sem == m_sem["h_sem"]
o_sem == m_sem["o_sem"]
h2o_mutex == m_sem["h2o_mutex"]
h__sem == m_sem["h__sem"]
s_sem == m_sem["s_sem"]
o__sem == m_sem["o__sem"]
h2_mutex == m_sem["h2_mutex"]
s_mutex == m_sem["s_mutex"]
o_mutex == m_sem["o_mutex"]
count_h == m_count["count_h"]
count__h == m_count["count__h"]
count_o == m_count["count_o"]

bH == Molecule!Begun("H")
bO == Molecule!Begun("O")
bh == Molecule!Begun("H_")
bS == Molecule!Begun("S")
bo == Molecule!Begun("O_")

\* One sodium and one chlorine couple at a time.
SaltInv ==
    /\ na_mutex + nNa1 + nNa2 + nNa3 = 1
    /\ cl_mutex + nCl1 + nCl2 + nCl3 = 1
    /\ na_sem + nCl3 + nClEnd = nNa2 + nNa3 + nNaEnd
    /\ cl_sem + nNa3 + nNaEnd = nCl2 + nCl3 + nClEnd

\* There is one turn; where it is tells how many hydrogens of the next molecule, nextH,
\* have had it.
nextH == bH - 2 * bO
WaterInv ==
    /\ h_sem + o_sem + nH1 + nH2 + nHO + nHH + nO1 = 1
    /\ count_h = bH - nH1
    /\ nH1 + nH2 + nHH + 2 * nHO + 2 * o_sem <= nextH
    /\ nextH <= 2 - h_sem - nHH - 2 * nO1
    /\ h2o_mutex + nHEnd = 2 + 2 * nOEnd + nO3
    /\ nO1 + nO2 + nO3 + nOEnd = bO

\* The same in the acid; the oxygens of a molecule are open from the turn of the sulphur on
\* until the last of them completes the molecule.
open == nS1 + o__sem + no1 + no2 + noO
made == bS - open
left == nc1 + nc2 + nc3 + nc4
nexth == bh - 2 * bS
nexto == bo - 4 * made
AcidInv ==
    /\ h__sem + s_sem + nh1 + nh2 + nhS + nhH + open + left + nc5 + nc6 + nc7 = 1
    /\ count__h = bh - nh1 /\ count_o = bo - no1
    /\ nh1 + nh2 + nhH + 2 * nhS + 2 * s_sem <= nexth
    /\ nexth <= 2 - h__sem - nhH - 2 * (open + left + nc5 + nc6 + nc7)
    /\ no1 + no2 + noO <= nexto
    /\ nexto <= 4 * (open - nS1) - o__sem - noO
    /\ h2_mutex + nhEnd = 2 * made - 2 * nc1 - nc2
    /\ s_mutex + nSEnd = made - nc1 - nc2 - nc3
    /\ o_mutex + noEnd = 4 * made - 4 * left - 3 * nc5 - 2 * nc6 - nc7
    /\ made - left - nc5 - nc6 - nc7 <= noEnd

\* The atoms that have begun are the first ones of the recipe.
WaterOrder == bH = Needs(Water, "H", bH + bO) /\ bO = Needs(Water, "O", bH + bO)
AcidOrder ==
    LET k == bh + bS + bo
    IN  bh = Needs(Acid, "H_", k) /\ bS = Needs(Acid, "S", k) /\ bo = Needs(Acid, "O_", k)

MoleculeInv ==
    /\ MoleculeTypes
    /\ phase = "NaCl" => SaltInv
    /\ phase = "H2O" => WaterInv /\ WaterOrder
    /\ phase = "H2SO4" => AcidInv /\ AcidOrder
------------------------------------------------------------------------------
(* What an atom does at its places.                                        *)

\* At place x an atom makes this call, and is then at place y.
Calls(x, kind, on, y) == x # <<>> /\ Head(x)[1] = kind /\ Head(x)[2] = on /\ Tail(x) = y

LEMMA SaltCode ==
    /\ Calls(Na0, "wait", "na_mutex", Na1) /\ Calls(Na1, "post", "na_sem", Na2)
    /\ Calls(Na2, "wait", "cl_sem", Na3) /\ Calls(Na3, "post", "na_mutex", End)
    /\ Calls(Cl0, "wait", "cl_mutex", Cl1) /\ Calls(Cl1, "post", "cl_sem", Cl2)
    /\ Calls(Cl2, "wait", "na_sem", Cl3) /\ Calls(Cl3, "post", "cl_mutex", End)
    /\ Molecule!Code["Na"] = Na0 /\ Molecule!Code["Cl"] = Cl0
  BY DEF Calls, Na0, Na1, Na2, Na3, Cl0, Cl1, Cl2, Cl3, End, W, P, Molecule!Code,
         Molecule!Wait, Molecule!Post

LEMMA WaterCode ==
    /\ Calls(H0, "wait", "h_sem", H1) /\ Calls(H1, "count", "count_h", H2)
    /\ Calls(H2, "test", "count_h", H3)
    /\ Calls(HO, "post", "o_sem", H3) /\ Calls(HH, "post", "h_sem", H3)
    /\ Calls(H3, "wait", "h2o_mutex", End)
    /\ Calls(O0, "wait", "o_sem", O1) /\ Calls(O1, "post", "h_sem", O2)
    /\ Calls(O2, "post", "h2o_mutex", O3) /\ Calls(O3, "post", "h2o_mutex", End)
    /\ Molecule!Code["H"] = H0 /\ Molecule!Code["O"] = O0
  BY DEF Calls, H0, H1, H2, HO, HH, H3, O0, O1, O2, O3, End, W, P, Molecule!Code,
         Molecule!Wait, Molecule!Post, Molecule!Count, Molecule!Test

LEMMA AcidCode ==
    /\ Calls(h0, "wait", "h__sem", h1) /\ Calls(h1, "count", "count__h", h2)
    /\ Calls(h2, "test", "count__h", h3)
    /\ Calls(hS, "post", "s_sem", h3) /\ Calls(hH, "post", "h__sem", h3)
    /\ Calls(h3, "wait", "h2_mutex", End)
    /\ Calls(S0, "wait", "s_sem", S1) /\ Calls(S1, "post", "o__sem", S2)
    /\ Calls(S2, "wait", "s_mutex", End)
    /\ Molecule!Code["H_"] = h0 /\ Molecule!Code["S"] = S0 /\ Molecule!Code["O_"] = o0
  BY DEF Calls, h0, h1, h2, hS, hH, h3, S0, S1, S2, o0, End, W, P, Molecule!Code,
         Molecule!Wait, Molecule!Post, Molecule!Count, Molecule!Test

LEMMA OxygenCode ==
    /\ Calls(o0, "wait", "o__sem", o1) /\ Calls(o1, "count", "count_o", o2)
    /\ Calls(o2, "test", "count_o", End)
    /\ Calls(oO, "post", "o__sem", o3) /\ Calls(o3, "wait", "o_mutex", End)
    /\ Calls(c1, "post", "h2_mutex", c2) /\ Calls(c2, "post", "h2_mutex", c3)
    /\ Calls(c3, "post", "s_mutex", c4) /\ Calls(c4, "post", "o_mutex", c5)
    /\ Calls(c5, "post", "o_mutex", c6) /\ Calls(c6, "post", "o_mutex", c7)
    /\ Calls(c7, "post", "h__sem", End)
  BY DEF Calls, o0, o1, o2, oO, o3, c1, c2, c3, c4, c5, c6, c7, End, W, P, Molecule!Complete,
         Molecule!Wait, Molecule!Post, Molecule!Count, Molecule!Test

Goes(a, x, y) == todo[a] = x /\ todo' = [todo EXCEPT ![a] = y]

Waits(a, x, s, y) ==
    Goes(a, x, y) /\ m_sem[s] > 0 /\ m_sem' = [m_sem EXCEPT ![s] = @ - 1] /\ UNCHANGED m_count
Posts(a, x, s, y) ==
    Goes(a, x, y) /\ m_sem' = [m_sem EXCEPT ![s] = @ + 1] /\ UNCHANGED m_count
CountsUp(a, x, c, y) ==
    Goes(a, x, y) /\ m_count' = [m_count EXCEPT ![c] = @ + 1] /\ UNCHANGED m_sem
Tests(a, x, y) == Goes(a, x, y) /\ UNCHANGED <<m_sem, m_count>>

LEMMA AtomCalls ==
    ASSUME NEW a, Molecule!AtomStep(a), NEW kind, NEW on, NEW y, Calls(todo[a], kind, on, y)
    PROVE  /\ kind = "wait" => Waits(a, todo[a], on, y)
           /\ kind = "post" => Posts(a, todo[a], on, y)
           /\ kind = "count" => CountsUp(a, todo[a], on, y)
           /\ kind = "test" => Tests(a, todo[a], Molecule!Chosen(on) \o y)
           /\ a \in m_created /\ todo[a] # <<>> /\ UNCHANGED <<phase, m_created>>
  BY DEF Molecule!AtomStep, Molecule!WaitStep, Molecule!PostStep, Molecule!CountStep,
         Molecule!TestStep, Molecule!Doing, Molecule!On, Molecule!Advance, Calls, Waits, Posts,
         CountsUp, Tests, Goes, Molecule!SemWaitAt, Molecule!SemPostAt

\* An atom that has done everything does nothing more.
LEMMA NotEnded == ASSUME NEW a, Molecule!AtomStep(a) PROVE todo[a] # End
  BY DEF Molecule!AtomStep, Molecule!WaitStep, Molecule!PostStep, Molecule!CountStep,
         Molecule!TestStep, Molecule!Doing, End

LEMMA SodiumSteps ==
    ASSUME NEW a, Molecule!AtomStep(a), todo[a] \in PlacesOf["Na"]
    PROVE  \/ Waits(a, Na0, "na_mutex", Na1) \/ Posts(a, Na1, "na_sem", Na2)
           \/ Waits(a, Na2, "cl_sem", Na3) \/ Posts(a, Na3, "na_mutex", End)
  BY NotEnded, AtomCalls, SaltCode DEF PlacesOf

LEMMA HydrogenSteps ==
    ASSUME NEW a, Molecule!AtomStep(a), todo[a] \in PlacesOf["H"]
    PROVE  \/ Waits(a, H0, "h_sem", H1) \/ CountsUp(a, H1, "count_h", H2)
           \/ Tests(a, H2, IF m_count["count_h"] % 2 = 0 THEN HO ELSE HH)
           \/ Posts(a, HO, "o_sem", H3) \/ Posts(a, HH, "h_sem", H3)
           \/ Waits(a, H3, "h2o_mutex", End)
  <1>1. CASE todo[a] = H2
    <2>1. Molecule!Chosen("count_h") \o H3 = IF m_count["count_h"] % 2 = 0 THEN HO ELSE HH
      BY DEF Molecule!Chosen, Molecule!AfterH, HO, HH, H3, W, P
    <2> QED
      BY <1>1, <2>1, AtomCalls, WaterCode
  <1> QED
    BY <1>1, NotEnded, AtomCalls, WaterCode DEF PlacesOf

LEMMA ChlorineSteps ==
    ASSUME NEW a, Molecule!AtomStep(a), todo[a] \in PlacesOf["Cl"]
    PROVE  \/ Waits(a, Cl0, "cl_mutex", Cl1) \/ Posts(a, Cl1, "cl_sem", Cl2)
           \/ Waits(a, Cl2, "na_sem", Cl3) \/ Posts(a, Cl3, "cl_mutex", End)
  BY NotEnded, AtomCalls, SaltCode DEF PlacesOf

LEMMA OxygenSteps ==
    ASSUME NEW a, Molecule!AtomStep(a), todo[a] \in PlacesOf["O"]
    PROVE  \/ Waits(a, O0, "o_sem", O1) \/ Posts(a, O1, "h_sem", O2)
           \/ Posts(a, O2, "h2o_mutex", O3) \/ Posts(a, O3, "h2o_mutex", End)
  BY NotEnded, AtomCalls, WaterCode DEF PlacesOf

LEMMA AcidHydrogenSteps ==
    ASSUME NEW a, Molecule!AtomStep(a), todo[a] \in PlacesOf["H_"]
    PROVE  \/ Waits(a, h0, "h__sem", h1) \/ CountsUp(a, h1, "count__h", h2)
           \/ Tests(a, h2, IF m_count["count__h"] % 2 = 0 THEN hS ELSE hH)
           \/ Posts(a, hS, "s_sem", h3) \/ Posts(a, hH, "h__sem", h3)
           \/ Waits(a, h3, "h2_mutex", End)
  <1>1. CASE todo[a] = h2
    <2>1. Molecule!Chosen("count__h") \o h3 = IF m_count["count__h"] % 2 = 0 THEN hS ELSE hH
      BY DEF Molecule!Chosen, Molecule!AfterH_, hS, hH, h3, W, P
    <2> QED
      BY <1>1, <2>1, AtomCalls, AcidCode
  <1> QED
    BY <1>1, NotEnded, AtomCalls, AcidCode DEF PlacesOf

LEMMA SulphurSteps ==
    ASSUME NEW a, Molecule!AtomStep(a), todo[a] \in PlacesOf["S"]
    PROVE  \/ Waits(a, S0, "s_sem", S1) \/ Posts(a, S1, "o__sem", S2)
           \/ Waits(a, S2, "s_mutex", End)
  BY NotEnded, AtomCalls, AcidCode DEF PlacesOf

LEMMA AcidOxygenSteps ==
    ASSUME NEW a, Molecule!AtomStep(a), todo[a] \in PlacesOf["O_"]
    PROVE  \/ Waits(a, o0, "o__sem", o1) \/ CountsUp(a, o1, "count_o", o2)
           \/ Tests(a, o2, IF m_count["count_o"] % 4 = 0 THEN c1 ELSE oO)
           \/ Posts(a, oO, "o__sem", o3) \/ Waits(a, o3, "o_mutex", End)
           \/ Posts(a, c1, "h2_mutex", c2) \/ Posts(a, c2, "h2_mutex", c3)
           \/ Posts(a, c3, "s_mutex", c4) \/ Posts(a, c4, "o_mutex", c5)
           \/ Posts(a, c5, "o_mutex", c6) \/ Posts(a, c6, "o_mutex", c7)
           \/ Posts(a, c7, "h__sem", End)
  <1>1. CASE todo[a] = o2
    <2>1. Molecule!Chosen("count_o") \o End = IF m_count["count_o"] % 4 = 0 THEN c1 ELSE oO
      BY DEF Molecule!Chosen, Molecule!AfterO_, Molecule!Complete, c1, oO, o3, End, W, P,
             Molecule!Wait, Molecule!Post
    <2> QED
      BY <1>1, <2>1, AtomCalls, OxygenCode
  <1>2. todo[a] \in {o0, o1, o2, oO, o3, c1, c2, c3, c4, c5, c6, c7}
    BY NotEnded DEF PlacesOf
  <1>3. CASE todo[a] \in {o0, o1, oO, o3}
    BY <1>3, AtomCalls, OxygenCode
  <1>4. CASE todo[a] \in {c1, c2, c3, c4, c5, c6, c7}
    BY <1>4, AtomCalls, OxygenCode
  <1> QED
    BY <1>1, <1>2, <1>3, <1>4
------------------------------------------------------------------------------
(* Counting atoms.                                                         *)

\* Cardinality is the same in the instance.
LEMMA SameCardinality == ASSUME NEW X PROVE Molecule!Cardinality(X) = Cardinality(X)
  BY DEF Cardinality, Molecule!Cardinality

LEMMA UpToFinite == ASSUME NEW n \in Int PROVE IsFiniteSet(1 .. n)
  BY FS_Interval

\* Phases, elements and atoms are finitely many.
LEMMA AtomsFinite ==
    ASSUME phase \in Molecule!Phases
    PROVE  /\ IsFiniteSet(Molecule!AllAtoms)
           /\ \A a \in Molecule!AllAtoms : a[1] \in Molecule!Elements
  <1> DEFINE L == DOMAIN Molecule!Recipe
             A(e) == {e} \X (1 .. Molecule!HowMany(e))
  <1>1. L \in {1 .. 2, 1 .. 3, 1 .. 7}
    BY DEF Molecule!Phases, Molecule!Recipe
  <1>2. IsFiniteSet(L)
    <2>1. 2 \in Int /\ 3 \in Int /\ 7 \in Int
      OBVIOUS
    <2>2. IsFiniteSet(1 .. 2) /\ IsFiniteSet(1 .. 3) /\ IsFiniteSet(1 .. 7)
      BY <2>1, UpToFinite, Zenon
    <2> HIDE DEF L
    <2> QED
      BY <1>1, <2>2
  <1>3. ASSUME NEW e PROVE IsFiniteSet(A(e))
    <2> DEFINE J == {j \in L : Molecule!Recipe[j] = e}
               n == Cardinality(J)
    <2>1. J \in SUBSET L
      OBVIOUS
    <2> HIDE DEF J, L
    <2>2. IsFiniteSet(J)
      BY <1>2, <2>1, FS_Subset
    <2>3. n \in Nat
      BY <2>2, FS_CardinalityType
    <2>4. Amount[phase] \in Nat
      BY AmountAssumption DEF Molecule!Phases
    <2> HIDE DEF n
    <2>5. Amount[phase] * n \in Nat
      BY <2>3, <2>4
    <2>6. Molecule!HowMany(e) = Amount[phase] * n
      BY SameCardinality DEF Molecule!HowMany, n, J, L
    <2>7. Molecule!HowMany(e) \in Nat
      BY <2>5, <2>6
    <2>8. IsFiniteSet({e})
      BY FS_Singleton
    <2>9. Molecule!HowMany(e) \in Int
      BY <2>7
    <2>10. IsFiniteSet(1 .. Molecule!HowMany(e))
      BY <2>9, UpToFinite, Zenon
    <2> QED
      BY <2>8, <2>10, FS_Product
  <1>4. Molecule!Elements \subseteq {"Na", "Cl", "H", "O", "H_", "S", "O_"}
    BY DEF Molecule!Elements, Molecule!Recipe, Molecule!Phases
  <1>5. Molecule!AllAtoms \subseteq
           A("Na") \cup (A("Cl") \cup (A("H") \cup (A("O") \cup (A("H_") \cup
               (A("S") \cup A("O_"))))))
    BY <1>4 DEF Molecule!AllAtoms
  <1>6. \A a \in Molecule!AllAtoms : a[1] \in Molecule!Elements
    BY DEF Molecule!AllAtoms
  <1> HIDE DEF A
  <1>7. IsFiniteSet(A("S") \cup A("O_"))
    BY <1>3, FS_Union
  <1>8. IsFiniteSet(A("H_") \cup (A("S") \cup A("O_")))
    BY <1>3, <1>7, FS_Union
  <1>9. IsFiniteSet(A("O") \cup (A("H_") \cup (A("S") \cup A("O_"))))
    BY <1>3, <1>8, FS_Union
  <1>10. IsFiniteSet(A("H") \cup (A("O") \cup (A("H_") \cup (A("S") \cup A("O_")))))
    BY <1>3, <1>9, FS_Union
  <1>11. IsFiniteSet(A("Cl") \cup (A("H") \cup (A("O") \cup (A("H_") \cup (A("S") \cup A("O_"))))))
    BY <1>3, <1>10, FS_Union
  <1>12. IsFiniteSet(A("Na") \cup (A("Cl") \cup (A("H") \cup (A("O") \cup (A("H_") \cup
             (A("S") \cup A("O_")))))))
    BY <1>3, <1>11, FS_Union
  <1> QED
    BY <1>5, <1>6, <1>12, FS_Subset

LEMMA PlacesCounted ==
    ASSUME MoleculeTypes, NEW e, NEW x
    PROVE  IsFiniteSet(AtPlace(e, x)) /\ Num(e, x) \in Nat
  <1>1. AtPlace(e, x) \in SUBSET Molecule!AllAtoms
    BY DEF AtPlace
  <1> QED
    BY <1>1, AtomsFinite, FS_Subset, FS_CardinalityType DEF MoleculeTypes, Num

\* An atom that goes on is counted where it comes to and no longer where it was.
LEMMA GoingCounts ==
    ASSUME MoleculeTypes, NEW a \in Molecule!AllAtoms, NEW x, NEW y, Goes(a, x, y), x # y,
           UNCHANGED phase, NEW e, NEW z
    PROVE  /\ Num(e, z)' \in Nat
           /\ Num(e, z)' = IF a[1] # e THEN Num(e, z)
                           ELSE IF z = x THEN Num(e, z) - 1
                           ELSE IF z = y THEN Num(e, z) + 1 ELSE Num(e, z)
  <1>1. Molecule!AllAtoms' = Molecule!AllAtoms
    BY DEF Molecule!AllAtoms, Molecule!Elements, Molecule!HowMany, Molecule!Recipe
  <1>2. todo'[a] = y /\ todo[a] = x /\ \A b \in Molecule!AllAtoms \ {a} : todo'[b] = todo[b]
    BY DEF Goes, MoleculeTypes
  <1>3. IsFiniteSet(AtPlace(e, z)) /\ Num(e, z) \in Nat
    BY PlacesCounted
  <1>4. CASE a[1] # e \/ z \notin {x, y}
    <2>1. AtPlace(e, z)' = AtPlace(e, z)
      BY <1>1, <1>2, <1>4 DEF AtPlace
    <2> QED
      BY <1>3, <1>4, <2>1 DEF Num
  <1>5. CASE a[1] = e /\ z = x
    <2>1. AtPlace(e, z)' = AtPlace(e, z) \ {a} /\ a \in AtPlace(e, z)
      BY <1>1, <1>2, <1>5 DEF AtPlace
    <2> QED
      BY <1>3, <1>5, <2>1, FS_RemoveElement, FS_CardinalityType DEF Num
  <1>6. CASE a[1] = e /\ z = y
    <2>1. AtPlace(e, z)' = AtPlace(e, z) \cup {a} /\ a \notin AtPlace(e, z)
      BY <1>1, <1>2, <1>6 DEF AtPlace
    <2> QED
      BY <1>3, <1>6, <2>1, FS_AddElement DEF Num
  <1> QED
    BY <1>4, <1>5, <1>6

\* An atom has begun when it has made its first call.
LEMMA BeginningCounts ==
    ASSUME MoleculeTypes, NEW a \in m_created, NEW x, NEW y, Goes(a, x, y),
           y # Molecule!Code[a[1]], UNCHANGED <<phase, m_created>>, NEW e
    PROVE  /\ Molecule!Begun(e) \in Nat
           /\ Molecule!Begun(e)' = IF a[1] = e /\ x = Molecule!Code[e] THEN Molecule!Begun(e) + 1
                                   ELSE Molecule!Begun(e)
  <1> DEFINE B == {b \in m_created : b[1] = e /\ todo[b] # Molecule!Code[e]}
  <1>1. B \in SUBSET Molecule!AllAtoms
    BY DEF MoleculeTypes
  <1>2. IsFiniteSet(B) /\ Cardinality(B) \in Nat
    BY <1>1, AtomsFinite, FS_Subset, FS_CardinalityType DEF MoleculeTypes
  <1>3. todo'[a] = y /\ todo[a] = x /\ \A b \in m_created \ {a} : todo'[b] = todo[b]
    BY DEF Goes, MoleculeTypes
  <1>4. CASE a[1] = e /\ x = Molecule!Code[e]
    <2>1. B' = B \cup {a} /\ a \notin B
      BY <1>3, <1>4
    <2> QED
      BY <1>2, <1>4, <2>1, FS_AddElement, SameCardinality DEF Molecule!Begun
  <1>5. CASE ~(a[1] = e /\ x = Molecule!Code[e])
    <2>1. B' = B
      BY <1>3, <1>5
    <2> QED
      BY <1>2, <1>5, <2>1, SameCardinality DEF Molecule!Begun
  <1> QED
    BY <1>4, <1>5

LEMMA SaltPlaces ==
    /\ Na0 \notin {Na1, Na2, Na3, End} /\ Na1 \notin {Na2, Na3, End}
    /\ Na2 \notin {Na3, End} /\ Na3 # End
    /\ Cl0 \notin {Cl1, Cl2, Cl3, End} /\ Cl1 \notin {Cl2, Cl3, End}
    /\ Cl2 \notin {Cl3, End} /\ Cl3 # End
  BY DEF Na0, Na1, Na2, Na3, Cl0, Cl1, Cl2, Cl3, End, W, P, Molecule!Wait, Molecule!Post

LEMMA WaterPlaces ==
    /\ H0 \notin {H1, H2, HO, HH, H3, End} /\ H1 \notin {H2, HO, HH, H3, End}
    /\ H2 \notin {HO, HH, H3, End} /\ HO \notin {HH, H3, End}
    /\ HH \notin {H3, End} /\ H3 # End
    /\ O0 \notin {O1, O2, O3, End} /\ O1 \notin {O2, O3, End}
    /\ O2 \notin {O3, End} /\ O3 # End
  BY DEF H0, H1, H2, HO, HH, H3, O0, O1, O2, O3, End, W, P,
         Molecule!Wait, Molecule!Post, Molecule!Count, Molecule!Test

LEMMA AcidPlaces ==
    /\ h0 \notin {h1, h2, hS, hH, h3, End} /\ h1 \notin {h2, hS, hH, h3, End}
    /\ h2 \notin {hS, hH, h3, End} /\ hS \notin {hH, h3, End}
    /\ hH \notin {h3, End} /\ h3 # End
    /\ S0 \notin {S1, S2, End} /\ S1 \notin {S2, End} /\ S2 # End
  BY DEF h0, h1, h2, hS, hH, h3, S0, S1, S2, End, W, P,
         Molecule!Wait, Molecule!Post, Molecule!Count, Molecule!Test

LEMMA OxygenPlaces ==
    /\ o0 \notin {o1, o2, oO, o3, c1, c2, c3, c4, c5, c6, c7, End}
    /\ o1 \notin {o2, oO, o3, c1, c2, c3, c4, c5, c6, c7, End}
    /\ o2 \notin {oO, o3, c1, c2, c3, c4, c5, c6, c7, End}
    /\ oO \notin {o3, c1, c2, c3, c4, c5, c6, c7, End}
    /\ o3 \notin {c1, c2, c3, c4, c5, c6, c7, End}
    /\ c1 \notin {c2, c3, c4, c5, c6, c7, End} /\ c2 \notin {c3, c4, c5, c6, c7, End}
    /\ c3 \notin {c4, c5, c6, c7, End} /\ c4 \notin {c5, c6, c7, End}
    /\ c5 \notin {c6, c7, End} /\ c6 \notin {c7, End} /\ c7 # End
  BY DEF o0, o1, o2, oO, o3, c1, c2, c3, c4, c5, c6, c7, End, W, P, Molecule!Complete,
         Molecule!Wait, Molecule!Post, Molecule!Count, Molecule!Test

\* Atom a goes from x to y with a call that changes a semaphore or a counter, on, by d.
Makes(a, x, on, d, y) ==
    /\ x # y /\ y \in PlacesOf[a[1]] /\ y # Molecule!Code[a[1]]
    /\ UNCHANGED <<phase, m_created>>
    /\ \/ on \in DOMAIN Molecule!Initial /\ Waits(a, x, on, y) /\ d = -1
       \/ on \in DOMAIN Molecule!Initial /\ Posts(a, x, on, y) /\ d = 1
       \/ on \in {"count_h", "count__h", "count_o"} /\ CountsUp(a, x, on, y) /\ d = 1
       \/ on = "nothing" /\ Tests(a, x, y) /\ d = 0

\* What that changes of the number n of atoms of e at z, of the value v of a semaphore or
\* a counter s, and of the number n of atoms of e that have begun.
Moved(e, z, n, new, a, x, y) ==
    /\ n \in Nat /\ new \in Nat
    /\ a[1] = e /\ z = x => new = n - 1
    /\ a[1] = e /\ z # x /\ z = y => new = n + 1
    /\ a[1] # e \/ (z # x /\ z # y) => new = n
Called(s, v, new, on, d) ==
    v \in Nat /\ new \in Nat /\ (s = on => new = v + d) /\ (s # on => new = v)
Started(e, n, new, a, x) ==
    /\ n \in Nat /\ new \in Nat
    /\ a[1] = e /\ x = Molecule!Code[e] => new = n + 1
    /\ a[1] # e \/ x # Molecule!Code[e] => new = n

LEMMA GoingTypes ==
    ASSUME MoleculeTypes, NEW a \in m_created, NEW x, NEW y, Goes(a, x, y),
           x # y, y \in PlacesOf[a[1]], y # Molecule!Code[a[1]], UNCHANGED <<phase, m_created>>,
           m_sem' \in [DOMAIN Molecule!Initial -> Nat],
           m_count' \in [{"count_h", "count__h", "count_o"} -> Nat]
    PROVE  /\ MoleculeTypes'
           /\ \A e, z : Moved(e, z, Num(e, z), Num(e, z)', a, x, y)
           /\ \A e : Started(e, Molecule!Begun(e), Molecule!Begun(e)', a, x)
  <1>1. Molecule!AllAtoms' = Molecule!AllAtoms
    BY DEF Molecule!AllAtoms, Molecule!Elements, Molecule!HowMany, Molecule!Recipe
  <1>2. MoleculeTypes'
    BY <1>1 DEF MoleculeTypes, Goes
  <1>3. a \in Molecule!AllAtoms
    BY DEF MoleculeTypes
  <1>4. \A e, z : Moved(e, z, Num(e, z), Num(e, z)', a, x, y)
    BY <1>3, GoingCounts, PlacesCounted DEF Moved
  <1>5. \A e : Started(e, Molecule!Begun(e), Molecule!Begun(e)', a, x)
    BY BeginningCounts DEF Started
  <1> QED
    BY <1>2, <1>4, <1>5

LEMMA Changes ==
    ASSUME MoleculeTypes, NEW a \in m_created, NEW x, NEW on, NEW y, NEW d,
           Makes(a, x, on, d, y)
    PROVE  /\ MoleculeTypes'
           /\ \A e, z : Moved(e, z, Num(e, z), Num(e, z)', a, x, y)
           /\ \A e : Started(e, Molecule!Begun(e), Molecule!Begun(e)', a, x)
           /\ \A s \in DOMAIN Molecule!Initial : Called(s, m_sem[s], m_sem'[s], on, d)
           /\ \A c \in {"count_h", "count__h", "count_o"} :
                  Called(c, m_count[c], m_count'[c], on, d)
  <1>1. Goes(a, x, y)
    BY DEF Makes, Waits, Posts, CountsUp, Tests
  <1>2. /\ m_sem' \in [DOMAIN Molecule!Initial -> Nat]
        /\ m_count' \in [{"count_h", "count__h", "count_o"} -> Nat]
    BY DEF MoleculeTypes, Makes, Waits, Posts, CountsUp, Tests
  <1>3. \A s \in DOMAIN Molecule!Initial : Called(s, m_sem[s], m_sem'[s], on, d)
    BY <1>2 DEF MoleculeTypes, Called, Makes, Waits, Posts, CountsUp, Tests,
                Molecule!Initial
  <1>4. \A c \in {"count_h", "count__h", "count_o"} :
            Called(c, m_count[c], m_count'[c], on, d)
    BY <1>2 DEF MoleculeTypes, Called, Makes, Waits, Posts, CountsUp, Tests,
                Molecule!Initial
  <1> QED
    BY <1>1, <1>2, <1>3, <1>4, GoingTypes DEF Makes

LEMMA SemaphoreNames ==
    DOMAIN Molecule!Initial =
        {"na_sem", "cl_sem", "na_mutex", "cl_mutex", "h_sem", "o_sem", "h2o_mutex", "h__sem",
         "o__sem", "s_sem", "h2_mutex", "s_mutex", "o_mutex"}
  BY DEF Molecule!Initial
------------------------------------------------------------------------------
(* Salt.                                                                   *)

\* The steps of the atoms.
LEMMA SaltSteps ==
    ASSUME MoleculeTypes, phase = "NaCl", NEW a \in m_created, Molecule!AtomStep(a)
    PROVE  \/ /\ a[1] = "Na"
              /\ \/ Makes(a, Na0, "na_mutex", -1, Na1)
                 \/ Makes(a, Na1, "na_sem", 1, Na2)
                 \/ Makes(a, Na2, "cl_sem", -1, Na3)
                 \/ Makes(a, Na3, "na_mutex", 1, End)
           \/ /\ a[1] = "Cl"
              /\ \/ Makes(a, Cl0, "cl_mutex", -1, Cl1)
                 \/ Makes(a, Cl1, "cl_sem", 1, Cl2)
                 \/ Makes(a, Cl2, "na_sem", -1, Cl3)
                 \/ Makes(a, Cl3, "cl_mutex", 1, End)
  <1>1. a \in Molecule!AllAtoms /\ a[1] \in {"Na", "Cl"}
    BY AtomsFinite DEF MoleculeTypes, Molecule!Elements, Molecule!Recipe
  <1>2. todo[a] \in PlacesOf[a[1]]
    BY <1>1 DEF MoleculeTypes
  <1>3. UNCHANGED <<phase, m_created>>
    BY DEF Molecule!AtomStep
  <1>4. CASE a[1] = "Na"
    BY <1>2, <1>3, <1>4, SodiumSteps, SaltCode, SaltPlaces, SemaphoreNames
    DEF Makes, PlacesOf
  <1>5. CASE a[1] = "Cl"
    BY <1>2, <1>3, <1>5, ChlorineSteps, SaltCode, SaltPlaces, SemaphoreNames
    DEF Makes, PlacesOf
  <1> QED
    BY <1>1, <1>4, <1>5

\* The numbers of the invariant.
Sodiums == <<nNa1, nNa2, nNa3, nNaEnd>>
Chlorines == <<nCl1, nCl2, nCl3, nClEnd>>
SaltValues == <<na_mutex, cl_mutex, na_sem, cl_sem>>
SaltNumbers ==
    /\ nNa1 \in Nat /\ nNa2 \in Nat /\ nNa3 \in Nat /\ nNaEnd \in Nat /\ nCl1 \in Nat
    /\ nCl2 \in Nat /\ nCl3 \in Nat /\ nClEnd \in Nat /\ na_mutex \in Nat
    /\ cl_mutex \in Nat /\ na_sem \in Nat /\ cl_sem \in Nat
SaltChange(a, x, on, d, y) ==
    /\ Moved("Na", Na1, nNa1, nNa1', a, x, y) /\ Moved("Na", Na2, nNa2, nNa2', a, x, y)
    /\ Moved("Na", Na3, nNa3, nNa3', a, x, y) /\ Moved("Na", End, nNaEnd, nNaEnd', a, x, y)
    /\ Moved("Cl", Cl1, nCl1, nCl1', a, x, y) /\ Moved("Cl", Cl2, nCl2, nCl2', a, x, y)
    /\ Moved("Cl", Cl3, nCl3, nCl3', a, x, y) /\ Moved("Cl", End, nClEnd, nClEnd', a, x, y)
    /\ Called("na_mutex", na_mutex, na_mutex', on, d)
    /\ Called("cl_mutex", cl_mutex, cl_mutex', on, d)
    /\ Called("na_sem", na_sem, na_sem', on, d) /\ Called("cl_sem", cl_sem, cl_sem', on, d)

LEMMA SaltChanges ==
    ASSUME MoleculeTypes, NEW a \in m_created, NEW x, NEW on, NEW d, NEW y,
           Makes(a, x, on, d, y)
    PROVE  MoleculeTypes' /\ SaltChange(a, x, on, d, y)
  BY Changes, SemaphoreNames
  DEF SaltChange, nNa1, nNa2, nNa3, nNaEnd, nCl1, nCl2, nCl3, nClEnd, na_mutex, cl_mutex,
      na_sem, cl_sem

LEMMA SaltKept ==
    ASSUME MoleculeTypes, SaltInv, phase = "NaCl", NEW a \in m_created,
           Molecule!AtomStep(a)
    PROVE  MoleculeTypes' /\ SaltInv'
  <1>1. CASE a[1] = "Na" /\ Makes(a, Na0, "na_mutex", -1, Na1)
    <2>1. MoleculeTypes' /\ SaltChange(a, Na0, "na_mutex", -1, Na1)
      BY <1>1, SaltChanges
    <2>2. /\ SaltNumbers /\ SaltNumbers' /\ nNa1' = nNa1 + 1 /\ na_mutex' = na_mutex - 1
          /\ UNCHANGED <<nNa2, nNa3, nNaEnd, Chlorines, cl_mutex, na_sem, cl_sem>>
      BY <1>1, <2>1, SaltPlaces, SaltCode
      DEF SaltChange, Sodiums, Chlorines, SaltValues, SaltNumbers, Moved, Called
    <2> QED
      BY <2>1, <2>2 DEF Sodiums, Chlorines, SaltValues, SaltNumbers, SaltInv
  <1>2. CASE a[1] = "Na" /\ Makes(a, Na1, "na_sem", 1, Na2)
    <2>1. MoleculeTypes' /\ SaltChange(a, Na1, "na_sem", 1, Na2)
      BY <1>2, SaltChanges
    <2>2. /\ SaltNumbers /\ SaltNumbers' /\ nNa1' = nNa1 - 1 /\ nNa2' = nNa2 + 1
          /\ na_sem' = na_sem + 1
          /\ UNCHANGED <<nNa3, nNaEnd, Chlorines, na_mutex, cl_mutex, cl_sem>>
      BY <1>2, <2>1, SaltPlaces, SaltCode
      DEF SaltChange, Sodiums, Chlorines, SaltValues, SaltNumbers, Moved, Called
    <2> QED
      BY <2>1, <2>2 DEF Sodiums, Chlorines, SaltValues, SaltNumbers, SaltInv
  <1>3. CASE a[1] = "Na" /\ Makes(a, Na2, "cl_sem", -1, Na3)
    <2>1. MoleculeTypes' /\ SaltChange(a, Na2, "cl_sem", -1, Na3)
      BY <1>3, SaltChanges
    <2>2. /\ SaltNumbers /\ SaltNumbers' /\ nNa2' = nNa2 - 1 /\ nNa3' = nNa3 + 1
          /\ cl_sem' = cl_sem - 1
          /\ UNCHANGED <<nNa1, nNaEnd, Chlorines, na_mutex, cl_mutex, na_sem>>
      BY <1>3, <2>1, SaltPlaces, SaltCode
      DEF SaltChange, Sodiums, Chlorines, SaltValues, SaltNumbers, Moved, Called
    <2> QED
      BY <2>1, <2>2 DEF Sodiums, Chlorines, SaltValues, SaltNumbers, SaltInv
  <1>4. CASE a[1] = "Na" /\ Makes(a, Na3, "na_mutex", 1, End)
    <2>1. MoleculeTypes' /\ SaltChange(a, Na3, "na_mutex", 1, End)
      BY <1>4, SaltChanges
    <2>2. /\ SaltNumbers /\ SaltNumbers' /\ nNa3' = nNa3 - 1 /\ nNaEnd' = nNaEnd + 1
          /\ na_mutex' = na_mutex + 1
          /\ UNCHANGED <<nNa1, nNa2, Chlorines, cl_mutex, na_sem, cl_sem>>
      BY <1>4, <2>1, SaltPlaces, SaltCode
      DEF SaltChange, Sodiums, Chlorines, SaltValues, SaltNumbers, Moved, Called
    <2> QED
      BY <2>1, <2>2 DEF Sodiums, Chlorines, SaltValues, SaltNumbers, SaltInv
  <1>5. CASE a[1] = "Cl" /\ Makes(a, Cl0, "cl_mutex", -1, Cl1)
    <2>1. MoleculeTypes' /\ SaltChange(a, Cl0, "cl_mutex", -1, Cl1)
      BY <1>5, SaltChanges
    <2>2. /\ SaltNumbers /\ SaltNumbers' /\ nCl1' = nCl1 + 1 /\ cl_mutex' = cl_mutex - 1
          /\ UNCHANGED <<Sodiums, nCl2, nCl3, nClEnd, na_mutex, na_sem, cl_sem>>
      BY <1>5, <2>1, SaltPlaces, SaltCode
      DEF SaltChange, Sodiums, Chlorines, SaltValues, SaltNumbers, Moved, Called
    <2> QED
      BY <2>1, <2>2 DEF Sodiums, Chlorines, SaltValues, SaltNumbers, SaltInv
  <1>6. CASE a[1] = "Cl" /\ Makes(a, Cl1, "cl_sem", 1, Cl2)
    <2>1. MoleculeTypes' /\ SaltChange(a, Cl1, "cl_sem", 1, Cl2)
      BY <1>6, SaltChanges
    <2>2. /\ SaltNumbers /\ SaltNumbers' /\ nCl1' = nCl1 - 1 /\ nCl2' = nCl2 + 1
          /\ cl_sem' = cl_sem + 1
          /\ UNCHANGED <<Sodiums, nCl3, nClEnd, na_mutex, cl_mutex, na_sem>>
      BY <1>6, <2>1, SaltPlaces, SaltCode
      DEF SaltChange, Sodiums, Chlorines, SaltValues, SaltNumbers, Moved, Called
    <2> QED
      BY <2>1, <2>2 DEF Sodiums, Chlorines, SaltValues, SaltNumbers, SaltInv
  <1>7. CASE a[1] = "Cl" /\ Makes(a, Cl2, "na_sem", -1, Cl3)
    <2>1. MoleculeTypes' /\ SaltChange(a, Cl2, "na_sem", -1, Cl3)
      BY <1>7, SaltChanges
    <2>2. /\ SaltNumbers /\ SaltNumbers' /\ nCl2' = nCl2 - 1 /\ nCl3' = nCl3 + 1
          /\ na_sem' = na_sem - 1
          /\ UNCHANGED <<Sodiums, nCl1, nClEnd, na_mutex, cl_mutex, cl_sem>>
      BY <1>7, <2>1, SaltPlaces, SaltCode
      DEF SaltChange, Sodiums, Chlorines, SaltValues, SaltNumbers, Moved, Called
    <2> QED
      BY <2>1, <2>2 DEF Sodiums, Chlorines, SaltValues, SaltNumbers, SaltInv
  <1>8. CASE a[1] = "Cl" /\ Makes(a, Cl3, "cl_mutex", 1, End)
    <2>1. MoleculeTypes' /\ SaltChange(a, Cl3, "cl_mutex", 1, End)
      BY <1>8, SaltChanges
    <2>2. /\ SaltNumbers /\ SaltNumbers' /\ nCl3' = nCl3 - 1 /\ nClEnd' = nClEnd + 1
          /\ cl_mutex' = cl_mutex + 1
          /\ UNCHANGED <<Sodiums, nCl1, nCl2, na_mutex, na_sem, cl_sem>>
      BY <1>8, <2>1, SaltPlaces, SaltCode
      DEF SaltChange, Sodiums, Chlorines, SaltValues, SaltNumbers, Moved, Called
    <2> QED
      BY <2>1, <2>2 DEF Sodiums, Chlorines, SaltValues, SaltNumbers, SaltInv
  <1> QED
    BY SaltSteps, <1>1, <1>2, <1>3, <1>4, <1>5, <1>6, <1>7, <1>8
------------------------------------------------------------------------------
(* The order of the recipe.                                                *)

LEMMA NeedsTypes ==
    ASSUME NEW recipe, NEW e, NEW k \in Nat
    PROVE  IsFiniteSet({j \in 0 .. k - 1 : recipe[(j % Len(recipe)) + 1] = e})
  <1>1. {j \in 0 .. k - 1 : recipe[(j % Len(recipe)) + 1] = e} \in SUBSET (0 .. k - 1)
    OBVIOUS
  <1>2. k - 1 \in Int
    OBVIOUS
  <1>3. IsFiniteSet(0 .. k - 1)
    BY <1>2, FS_Interval
  <1> QED
    BY <1>1, <1>3, FS_Subset

\* The atom after the first k is one more of its element.
LEMMA NeedsNext ==
    ASSUME NEW recipe, NEW e, NEW k \in Nat
    PROVE  Needs(recipe, e, k + 1) =
               Needs(recipe, e, k) + IF recipe[(k % Len(recipe)) + 1] = e THEN 1 ELSE 0
  <1> DEFINE J == {j \in 0 .. k - 1 : recipe[(j % Len(recipe)) + 1] = e}
             K == {j \in 0 .. k : recipe[(j % Len(recipe)) + 1] = e}
  <1>1. IsFiniteSet(J) /\ Cardinality(J) \in Nat
    BY NeedsTypes, FS_CardinalityType
  <1>2. Needs(recipe, e, k) = Cardinality(J) /\ Needs(recipe, e, k + 1) = Cardinality(K)
    BY DEF Needs
  <1>3. k \notin J
    OBVIOUS
  <1>4. CASE recipe[(k % Len(recipe)) + 1] = e
    <2>1. K = J \cup {k}
      BY <1>4
    <2> HIDE DEF J, K
    <2>2. Cardinality(K) = Cardinality(J) + 1
      BY <1>1, <1>3, <2>1, FS_AddElement
    <2> QED
      BY <1>2, <1>4, <2>2
  <1>5. CASE recipe[(k % Len(recipe)) + 1] # e
    <2>1. K = J
      BY <1>5
    <2> HIDE DEF J, K
    <2> QED
      BY <1>1, <1>2, <1>5, <2>1
  <1> QED
    BY <1>4, <1>5

\* Two hydrogens and an oxygen, in this order.
LEMMA WaterNeeds ==
    ASSUME NEW q \in Nat, NEW r \in 0 .. 2
    PROVE  /\ Needs(Water, "H", 3 * q + r + 1) =
                  Needs(Water, "H", 3 * q + r) + IF r = 2 THEN 0 ELSE 1
           /\ Needs(Water, "O", 3 * q + r + 1) =
                  Needs(Water, "O", 3 * q + r) + IF r = 2 THEN 1 ELSE 0
  <1>1. 3 * q + r \in Nat /\ (3 * q + r) % 3 = r
    OBVIOUS
  <1>2. Len(Water) = 3 /\ Water[1] = "H" /\ Water[2] = "H" /\ Water[3] = "O"
    BY DEF Water
  <1>3. Water[r + 1] = IF r = 2 THEN "O" ELSE "H"
    BY <1>2
  <1> DEFINE k == 3 * q + r
  <1>4. k \in Nat /\ Water[(k % Len(Water)) + 1] = IF r = 2 THEN "O" ELSE "H"
    BY <1>1, <1>2, <1>3
  <1> HIDE DEF k
  <1>5. \A e : Needs(Water, e, k + 1) =
                   Needs(Water, e, k) + IF Water[(k % Len(Water)) + 1] = e THEN 1 ELSE 0
    BY <1>4, NeedsNext
  <1> QED
    BY <1>4, <1>5 DEF k

------------------------------------------------------------------------------
(* Water.                                                                  *)

\* The steps of the atoms.
LEMMA WaterSteps ==
    ASSUME MoleculeTypes, phase = "H2O", NEW a \in m_created, Molecule!AtomStep(a)
    PROVE  \/ /\ a[1] = "H"
              /\ \/ Makes(a, H0, "h_sem", -1, H1)
                 \/ Makes(a, H1, "count_h", 1, H2)
                 \/ Makes(a, H2, "nothing", 0, HO) /\ count_h % 2 = 0
                 \/ Makes(a, H2, "nothing", 0, HH) /\ count_h % 2 # 0
                 \/ Makes(a, HO, "o_sem", 1, H3)
                 \/ Makes(a, HH, "h_sem", 1, H3)
                 \/ Makes(a, H3, "h2o_mutex", -1, End)
           \/ /\ a[1] = "O"
              /\ \/ Makes(a, O0, "o_sem", -1, O1)
                 \/ Makes(a, O1, "h_sem", 1, O2)
                 \/ Makes(a, O2, "h2o_mutex", 1, O3)
                 \/ Makes(a, O3, "h2o_mutex", 1, End)
  <1>1. a \in Molecule!AllAtoms /\ a[1] \in {"H", "O"}
    BY AtomsFinite DEF MoleculeTypes, Molecule!Elements, Molecule!Recipe
  <1>2. todo[a] \in PlacesOf[a[1]]
    BY <1>1 DEF MoleculeTypes
  <1>3. UNCHANGED <<phase, m_created>>
    BY DEF Molecule!AtomStep
  <1>4. CASE a[1] = "H"
    BY <1>2, <1>3, <1>4, HydrogenSteps, WaterCode, WaterPlaces, SemaphoreNames
    DEF Makes, PlacesOf, count_h
  <1>5. CASE a[1] = "O"
    BY <1>2, <1>3, <1>5, OxygenSteps, WaterCode, WaterPlaces, SemaphoreNames
    DEF Makes, PlacesOf, count_h
  <1> QED
    BY <1>1, <1>4, <1>5

\* The numbers of the invariant.
Hydrogens == <<nH1, nH2, nHO, nHH, nHEnd>>
Oxygens == <<nO1, nO2, nO3, nOEnd>>
WaterValues == <<h_sem, o_sem, h2o_mutex, count_h>>
WaterBegun == <<bH, bO>>
WaterNumbers ==
    /\ nH1 \in Nat /\ nH2 \in Nat /\ nHO \in Nat /\ nHH \in Nat /\ nHEnd \in Nat
    /\ nO1 \in Nat /\ nO2 \in Nat /\ nO3 \in Nat /\ nOEnd \in Nat /\ h_sem \in Nat
    /\ o_sem \in Nat /\ h2o_mutex \in Nat /\ count_h \in Nat /\ bH \in Nat /\ bO \in Nat
WaterChange(a, x, on, d, y) ==
    /\ Moved("H", H1, nH1, nH1', a, x, y) /\ Moved("H", H2, nH2, nH2', a, x, y)
    /\ Moved("H", HO, nHO, nHO', a, x, y) /\ Moved("H", HH, nHH, nHH', a, x, y)
    /\ Moved("H", End, nHEnd, nHEnd', a, x, y) /\ Moved("O", O1, nO1, nO1', a, x, y)
    /\ Moved("O", O2, nO2, nO2', a, x, y) /\ Moved("O", O3, nO3, nO3', a, x, y)
    /\ Moved("O", End, nOEnd, nOEnd', a, x, y) /\ Called("h_sem", h_sem, h_sem', on, d)
    /\ Called("o_sem", o_sem, o_sem', on, d)
    /\ Called("h2o_mutex", h2o_mutex, h2o_mutex', on, d)
    /\ Called("count_h", count_h, count_h', on, d) /\ Started("H", bH, bH', a, x)
    /\ Started("O", bO, bO', a, x)

LEMMA WaterChanges ==
    ASSUME MoleculeTypes, NEW a \in m_created, NEW x, NEW on, NEW d, NEW y,
           Makes(a, x, on, d, y)
    PROVE  MoleculeTypes' /\ WaterChange(a, x, on, d, y)
  BY Changes, SemaphoreNames
  DEF WaterChange, nH1, nH2, nHO, nHH, nHEnd, nO1, nO2, nO3, nOEnd, h_sem, o_sem,
      h2o_mutex, count_h, bH, bO

LEMMA WaterOrderKept ==
    ASSUME WaterInv, WaterOrder, WaterNumbers,
           \/ UNCHANGED <<bH, bO>>
           \/ bH' = bH + 1 /\ UNCHANGED bO /\ nextH # 2
           \/ bO' = bO + 1 /\ UNCHANGED bH /\ nextH = 2
    PROVE  WaterOrder'
  <1>1. bH \in Nat /\ bO \in Nat
    BY DEF WaterNumbers
  <1>2. nextH \in 0 .. 2 /\ bH + bO = 3 * bO + nextH
    BY <1>1 DEF WaterInv, WaterNumbers, nextH
  <1>3. CASE UNCHANGED <<bH, bO>>
    BY <1>3 DEF WaterOrder
  <1>4. CASE ~UNCHANGED <<bH, bO>>
    <2>1. /\ bH' = bH + IF nextH = 2 THEN 0 ELSE 1
          /\ bO' = bO + IF nextH = 2 THEN 1 ELSE 0
      BY <1>1, <1>4
    <2>2. bH' + bO' = 3 * bO + nextH + 1
      BY <1>1, <1>2, <2>1
    <2>3. /\ Needs(Water, "H", 3 * bO + nextH + 1) = bH'
          /\ Needs(Water, "O", 3 * bO + nextH + 1) = bO'
      BY <1>1, <1>2, <2>1, WaterNeeds DEF WaterOrder
    <2> QED
      BY <2>2, <2>3 DEF WaterOrder
  <1> QED
    BY <1>3, <1>4

LEMMA WaterKept ==
    ASSUME MoleculeTypes, WaterInv, WaterOrder, phase = "H2O", NEW a \in m_created,
           Molecule!AtomStep(a)
    PROVE  MoleculeTypes' /\ WaterInv' /\ WaterOrder'
  <1>1. CASE a[1] = "H" /\ Makes(a, H0, "h_sem", -1, H1)
    <2>1. MoleculeTypes' /\ WaterChange(a, H0, "h_sem", -1, H1)
      BY <1>1, WaterChanges
    <2>2. /\ WaterNumbers /\ WaterNumbers' /\ nH1' = nH1 + 1 /\ h_sem' = h_sem - 1
          /\ bH' = bH + 1
          /\ UNCHANGED <<nH2, nHO, nHH, nHEnd, Oxygens, o_sem, h2o_mutex, count_h, bO>>
      BY <1>1, <2>1, WaterPlaces, WaterCode
      DEF WaterChange, Hydrogens, Oxygens, WaterValues, WaterBegun, WaterNumbers, Moved, Called,
          Started
    <2>3. WaterInv' /\ nextH # 2
      BY <2>2 DEF Hydrogens, Oxygens, WaterValues, WaterBegun, WaterNumbers, nextH,
                    WaterInv
    <2> QED
      BY <2>1, <2>2, <2>3, WaterOrderKept DEF WaterBegun
  <1>2. CASE a[1] = "H" /\ Makes(a, H1, "count_h", 1, H2)
    <2>1. MoleculeTypes' /\ WaterChange(a, H1, "count_h", 1, H2)
      BY <1>2, WaterChanges
    <2>2. /\ WaterNumbers /\ WaterNumbers' /\ nH1' = nH1 - 1 /\ nH2' = nH2 + 1
          /\ count_h' = count_h + 1
          /\ UNCHANGED <<nHO, nHH, nHEnd, Oxygens, h_sem, o_sem, h2o_mutex, WaterBegun>>
      BY <1>2, <2>1, WaterPlaces, WaterCode
      DEF WaterChange, Hydrogens, Oxygens, WaterValues, WaterBegun, WaterNumbers, Moved, Called,
          Started
    <2>3. WaterInv'
      BY <2>2 DEF Hydrogens, Oxygens, WaterValues, WaterBegun, WaterNumbers, nextH,
                    WaterInv
    <2> QED
      BY <2>1, <2>2, <2>3, WaterOrderKept DEF WaterBegun
  <1>3. CASE a[1] = "H" /\ Makes(a, H2, "nothing", 0, HO) /\ count_h % 2 = 0
    <2>1. MoleculeTypes' /\ WaterChange(a, H2, "nothing", 0, HO)
      BY <1>3, WaterChanges
    <2>2. /\ WaterNumbers /\ WaterNumbers' /\ nH2' = nH2 - 1 /\ nHO' = nHO + 1
          /\ UNCHANGED <<nH1, nHH, nHEnd, Oxygens, WaterValues, WaterBegun>>
      BY <1>3, <2>1, WaterPlaces, WaterCode
      DEF WaterChange, Hydrogens, Oxygens, WaterValues, WaterBegun, WaterNumbers, Moved, Called,
          Started
    <2>3. count_h = bH /\ nextH \in 1 .. 2
      BY <2>2 DEF WaterNumbers, WaterInv, nextH
    <2>4. bH \in Nat /\ bO \in Nat /\ bH = 2 * bO + nextH
      BY <2>2 DEF WaterNumbers, nextH
    <2>5. nextH = 2
      BY <1>3, <2>3, <2>4
    <2>6. WaterInv'
      BY <2>2, <2>5 DEF Hydrogens, Oxygens, WaterValues, WaterBegun, WaterNumbers, nextH,
                    WaterInv
    <2> QED
      BY <2>1, <2>2, <2>6, WaterOrderKept DEF WaterBegun
  <1>4. CASE a[1] = "H" /\ Makes(a, H2, "nothing", 0, HH) /\ count_h % 2 # 0
    <2>1. MoleculeTypes' /\ WaterChange(a, H2, "nothing", 0, HH)
      BY <1>4, WaterChanges
    <2>2. /\ WaterNumbers /\ WaterNumbers' /\ nH2' = nH2 - 1 /\ nHH' = nHH + 1
          /\ UNCHANGED <<nH1, nHO, nHEnd, Oxygens, WaterValues, WaterBegun>>
      BY <1>4, <2>1, WaterPlaces, WaterCode
      DEF WaterChange, Hydrogens, Oxygens, WaterValues, WaterBegun, WaterNumbers, Moved, Called,
          Started
    <2>3. count_h = bH /\ nextH \in 1 .. 2
      BY <2>2 DEF WaterNumbers, WaterInv, nextH
    <2>4. bH \in Nat /\ bO \in Nat /\ bH = 2 * bO + nextH
      BY <2>2 DEF WaterNumbers, nextH
    <2>5. nextH = 1
      BY <1>4, <2>3, <2>4
    <2>6. WaterInv'
      BY <2>2, <2>5 DEF Hydrogens, Oxygens, WaterValues, WaterBegun, WaterNumbers, nextH,
                    WaterInv
    <2> QED
      BY <2>1, <2>2, <2>6, WaterOrderKept DEF WaterBegun
  <1>5. CASE a[1] = "H" /\ Makes(a, HO, "o_sem", 1, H3)
    <2>1. MoleculeTypes' /\ WaterChange(a, HO, "o_sem", 1, H3)
      BY <1>5, WaterChanges
    <2>2. /\ WaterNumbers /\ WaterNumbers' /\ nHO' = nHO - 1 /\ o_sem' = o_sem + 1
          /\ UNCHANGED <<nH1, nH2, nHH, nHEnd, Oxygens, h_sem, h2o_mutex, count_h,
                         WaterBegun>>
      BY <1>5, <2>1, WaterPlaces, WaterCode
      DEF WaterChange, Hydrogens, Oxygens, WaterValues, WaterBegun, WaterNumbers, Moved, Called,
          Started
    <2>3. WaterInv'
      BY <2>2 DEF Hydrogens, Oxygens, WaterValues, WaterBegun, WaterNumbers, nextH,
                    WaterInv
    <2> QED
      BY <2>1, <2>2, <2>3, WaterOrderKept DEF WaterBegun
  <1>6. CASE a[1] = "H" /\ Makes(a, HH, "h_sem", 1, H3)
    <2>1. MoleculeTypes' /\ WaterChange(a, HH, "h_sem", 1, H3)
      BY <1>6, WaterChanges
    <2>2. /\ WaterNumbers /\ WaterNumbers' /\ nHH' = nHH - 1 /\ h_sem' = h_sem + 1
          /\ UNCHANGED <<nH1, nH2, nHO, nHEnd, Oxygens, o_sem, h2o_mutex, count_h,
                         WaterBegun>>
      BY <1>6, <2>1, WaterPlaces, WaterCode
      DEF WaterChange, Hydrogens, Oxygens, WaterValues, WaterBegun, WaterNumbers, Moved, Called,
          Started
    <2>3. WaterInv'
      BY <2>2 DEF Hydrogens, Oxygens, WaterValues, WaterBegun, WaterNumbers, nextH,
                    WaterInv
    <2> QED
      BY <2>1, <2>2, <2>3, WaterOrderKept DEF WaterBegun
  <1>7. CASE a[1] = "H" /\ Makes(a, H3, "h2o_mutex", -1, End)
    <2>1. MoleculeTypes' /\ WaterChange(a, H3, "h2o_mutex", -1, End)
      BY <1>7, WaterChanges
    <2>2. /\ WaterNumbers /\ WaterNumbers' /\ nHEnd' = nHEnd + 1
          /\ h2o_mutex' = h2o_mutex - 1
          /\ UNCHANGED <<nH1, nH2, nHO, nHH, Oxygens, h_sem, o_sem, count_h, WaterBegun>>
      BY <1>7, <2>1, WaterPlaces, WaterCode
      DEF WaterChange, Hydrogens, Oxygens, WaterValues, WaterBegun, WaterNumbers, Moved, Called,
          Started
    <2>3. WaterInv'
      BY <2>2 DEF Hydrogens, Oxygens, WaterValues, WaterBegun, WaterNumbers, nextH,
                    WaterInv
    <2> QED
      BY <2>1, <2>2, <2>3, WaterOrderKept DEF WaterBegun
  <1>8. CASE a[1] = "O" /\ Makes(a, O0, "o_sem", -1, O1)
    <2>1. MoleculeTypes' /\ WaterChange(a, O0, "o_sem", -1, O1)
      BY <1>8, WaterChanges
    <2>2. /\ WaterNumbers /\ WaterNumbers' /\ nO1' = nO1 + 1 /\ o_sem' = o_sem - 1
          /\ bO' = bO + 1
          /\ UNCHANGED <<Hydrogens, nO2, nO3, nOEnd, h_sem, h2o_mutex, count_h, bH>>
      BY <1>8, <2>1, WaterPlaces, WaterCode
      DEF WaterChange, Hydrogens, Oxygens, WaterValues, WaterBegun, WaterNumbers, Moved, Called,
          Started
    <2>3. WaterInv' /\ nextH = 2
      BY <2>2 DEF Hydrogens, Oxygens, WaterValues, WaterBegun, WaterNumbers, nextH,
                    WaterInv
    <2> QED
      BY <2>1, <2>2, <2>3, WaterOrderKept DEF WaterBegun
  <1>9. CASE a[1] = "O" /\ Makes(a, O1, "h_sem", 1, O2)
    <2>1. MoleculeTypes' /\ WaterChange(a, O1, "h_sem", 1, O2)
      BY <1>9, WaterChanges
    <2>2. /\ WaterNumbers /\ WaterNumbers' /\ nO1' = nO1 - 1 /\ nO2' = nO2 + 1
          /\ h_sem' = h_sem + 1
          /\ UNCHANGED <<Hydrogens, nO3, nOEnd, o_sem, h2o_mutex, count_h, WaterBegun>>
      BY <1>9, <2>1, WaterPlaces, WaterCode
      DEF WaterChange, Hydrogens, Oxygens, WaterValues, WaterBegun, WaterNumbers, Moved, Called,
          Started
    <2>3. WaterInv'
      BY <2>2 DEF Hydrogens, Oxygens, WaterValues, WaterBegun, WaterNumbers, nextH,
                    WaterInv
    <2> QED
      BY <2>1, <2>2, <2>3, WaterOrderKept DEF WaterBegun
  <1>10. CASE a[1] = "O" /\ Makes(a, O2, "h2o_mutex", 1, O3)
    <2>1. MoleculeTypes' /\ WaterChange(a, O2, "h2o_mutex", 1, O3)
      BY <1>10, WaterChanges
    <2>2. /\ WaterNumbers /\ WaterNumbers' /\ nO2' = nO2 - 1 /\ nO3' = nO3 + 1
          /\ h2o_mutex' = h2o_mutex + 1
          /\ UNCHANGED <<Hydrogens, nO1, nOEnd, h_sem, o_sem, count_h, WaterBegun>>
      BY <1>10, <2>1, WaterPlaces, WaterCode
      DEF WaterChange, Hydrogens, Oxygens, WaterValues, WaterBegun, WaterNumbers, Moved, Called,
          Started
    <2>3. WaterInv'
      BY <2>2 DEF Hydrogens, Oxygens, WaterValues, WaterBegun, WaterNumbers, nextH,
                    WaterInv
    <2> QED
      BY <2>1, <2>2, <2>3, WaterOrderKept DEF WaterBegun
  <1>11. CASE a[1] = "O" /\ Makes(a, O3, "h2o_mutex", 1, End)
    <2>1. MoleculeTypes' /\ WaterChange(a, O3, "h2o_mutex", 1, End)
      BY <1>11, WaterChanges
    <2>2. /\ WaterNumbers /\ WaterNumbers' /\ nO3' = nO3 - 1 /\ nOEnd' = nOEnd + 1
          /\ h2o_mutex' = h2o_mutex + 1
          /\ UNCHANGED <<Hydrogens, nO1, nO2, h_sem, o_sem, count_h, WaterBegun>>
      BY <1>11, <2>1, WaterPlaces, WaterCode
      DEF WaterChange, Hydrogens, Oxygens, WaterValues, WaterBegun, WaterNumbers, Moved, Called,
          Started
    <2>3. WaterInv'
      BY <2>2 DEF Hydrogens, Oxygens, WaterValues, WaterBegun, WaterNumbers, nextH,
                    WaterInv
    <2> QED
      BY <2>1, <2>2, <2>3, WaterOrderKept DEF WaterBegun
  <1> QED
    BY WaterSteps, <1>1, <1>2, <1>3, <1>4, <1>5, <1>6, <1>7, <1>8, <1>9, <1>10, <1>11
------------------------------------------------------------------------------
(* Acid.                                                                   *)

\* Two hydrogens, a sulphur and four oxygens, in this order.
LEMMA AcidNeeds ==
    ASSUME NEW q \in Nat, NEW r \in 0 .. 6
    PROVE  /\ Needs(Acid, "H_", 7 * q + r + 1) =
                  Needs(Acid, "H_", 7 * q + r) + IF r < 2 THEN 1 ELSE 0
           /\ Needs(Acid, "S", 7 * q + r + 1) =
                  Needs(Acid, "S", 7 * q + r) + IF r = 2 THEN 1 ELSE 0
           /\ Needs(Acid, "O_", 7 * q + r + 1) =
                  Needs(Acid, "O_", 7 * q + r) + IF r > 2 THEN 1 ELSE 0
  <1>1. 7 * q + r \in Nat /\ (7 * q + r) % 7 = r
    OBVIOUS
  <1>2. /\ Len(Acid) = 7 /\ Acid[1] = "H_" /\ Acid[2] = "H_" /\ Acid[3] = "S"
        /\ Acid[4] = "O_" /\ Acid[5] = "O_" /\ Acid[6] = "O_" /\ Acid[7] = "O_"
    BY DEF Acid
  <1>3. Acid[r + 1] = IF r < 2 THEN "H_" ELSE IF r = 2 THEN "S" ELSE "O_"
    <2>1. r \in {0, 1, 2, 3, 4, 5, 6}
      OBVIOUS
    <2> QED
      BY <1>2, <2>1
  <1> DEFINE k == 7 * q + r
  <1>4. /\ k \in Nat
        /\ Acid[(k % Len(Acid)) + 1] = IF r < 2 THEN "H_" ELSE IF r = 2 THEN "S" ELSE "O_"
    BY <1>1, <1>2, <1>3
  <1> HIDE DEF k
  <1>5. \A e : Needs(Acid, e, k + 1) =
                   Needs(Acid, e, k) + IF Acid[(k % Len(Acid)) + 1] = e THEN 1 ELSE 0
    BY <1>4, NeedsNext
  <1> QED
    BY <1>4, <1>5 DEF k

\* The steps of the atoms.
LEMMA AcidSteps ==
    ASSUME MoleculeTypes, phase = "H2SO4", NEW a \in m_created, Molecule!AtomStep(a)
    PROVE  \/ /\ a[1] = "H_"
              /\ \/ Makes(a, h0, "h__sem", -1, h1)
                 \/ Makes(a, h1, "count__h", 1, h2)
                 \/ Makes(a, h2, "nothing", 0, hS) /\ count__h % 2 = 0
                 \/ Makes(a, h2, "nothing", 0, hH) /\ count__h % 2 # 0
                 \/ Makes(a, hS, "s_sem", 1, h3)
                 \/ Makes(a, hH, "h__sem", 1, h3)
                 \/ Makes(a, h3, "h2_mutex", -1, End)
           \/ /\ a[1] = "S"
              /\ \/ Makes(a, S0, "s_sem", -1, S1)
                 \/ Makes(a, S1, "o__sem", 1, S2)
                 \/ Makes(a, S2, "s_mutex", -1, End)
           \/ /\ a[1] = "O_"
              /\ \/ Makes(a, o0, "o__sem", -1, o1)
                 \/ Makes(a, o1, "count_o", 1, o2)
                 \/ Makes(a, o2, "nothing", 0, c1) /\ count_o % 4 = 0
                 \/ Makes(a, o2, "nothing", 0, oO) /\ count_o % 4 # 0
                 \/ Makes(a, oO, "o__sem", 1, o3)
                 \/ Makes(a, o3, "o_mutex", -1, End)
                 \/ Makes(a, c1, "h2_mutex", 1, c2)
                 \/ Makes(a, c2, "h2_mutex", 1, c3)
                 \/ Makes(a, c3, "s_mutex", 1, c4)
                 \/ Makes(a, c4, "o_mutex", 1, c5)
                 \/ Makes(a, c5, "o_mutex", 1, c6)
                 \/ Makes(a, c6, "o_mutex", 1, c7)
                 \/ Makes(a, c7, "h__sem", 1, End)
  <1>1. a \in Molecule!AllAtoms /\ a[1] \in {"H_", "S", "O_"}
    BY AtomsFinite DEF MoleculeTypes, Molecule!Elements, Molecule!Recipe
  <1>2. todo[a] \in PlacesOf[a[1]]
    BY <1>1 DEF MoleculeTypes
  <1>3. UNCHANGED <<phase, m_created>>
    BY DEF Molecule!AtomStep
  <1>4. CASE a[1] = "H_"
    BY <1>2, <1>3, <1>4, AcidHydrogenSteps, AcidCode, AcidPlaces, SemaphoreNames
    DEF Makes, PlacesOf, count__h, count_o
  <1>5. CASE a[1] = "S"
    BY <1>2, <1>3, <1>5, SulphurSteps, AcidCode, AcidPlaces, SemaphoreNames
    DEF Makes, PlacesOf, count__h, count_o
  <1>6. CASE a[1] = "O_"
    BY <1>2, <1>3, <1>6, AcidOxygenSteps, OxygenCode, OxygenPlaces, AcidCode, SemaphoreNames
    DEF Makes, PlacesOf, count__h, count_o
  <1> QED
    BY <1>1, <1>4, <1>5, <1>6

\* The numbers of the invariant.
AcidHydrogens == <<nh1, nh2, nhS, nhH, nhEnd>>
Sulphurs == <<nS1, nSEnd>>
AcidOxygens == <<no1, no2, noO, nc1, nc2, nc3, nc4, nc5, nc6, nc7, noEnd>>
AcidValues == <<h__sem, s_sem, o__sem, h2_mutex, s_mutex, o_mutex, count__h, count_o>>
AcidBegun == <<bh, bS, bo>>
AcidNumbers ==
    /\ nh1 \in Nat /\ nh2 \in Nat /\ nhS \in Nat /\ nhH \in Nat /\ nhEnd \in Nat
    /\ nS1 \in Nat /\ nSEnd \in Nat /\ no1 \in Nat /\ no2 \in Nat /\ noO \in Nat
    /\ nc1 \in Nat /\ nc2 \in Nat /\ nc3 \in Nat /\ nc4 \in Nat /\ nc5 \in Nat
    /\ nc6 \in Nat /\ nc7 \in Nat /\ noEnd \in Nat /\ h__sem \in Nat /\ s_sem \in Nat
    /\ o__sem \in Nat /\ h2_mutex \in Nat /\ s_mutex \in Nat /\ o_mutex \in Nat
    /\ count__h \in Nat /\ count_o \in Nat /\ bh \in Nat /\ bS \in Nat /\ bo \in Nat
AcidChange(a, x, on, d, y) ==
    /\ Moved("H_", h1, nh1, nh1', a, x, y) /\ Moved("H_", h2, nh2, nh2', a, x, y)
    /\ Moved("H_", hS, nhS, nhS', a, x, y) /\ Moved("H_", hH, nhH, nhH', a, x, y)
    /\ Moved("H_", End, nhEnd, nhEnd', a, x, y) /\ Moved("S", S1, nS1, nS1', a, x, y)
    /\ Moved("S", End, nSEnd, nSEnd', a, x, y) /\ Moved("O_", o1, no1, no1', a, x, y)
    /\ Moved("O_", o2, no2, no2', a, x, y) /\ Moved("O_", oO, noO, noO', a, x, y)
    /\ Moved("O_", c1, nc1, nc1', a, x, y) /\ Moved("O_", c2, nc2, nc2', a, x, y)
    /\ Moved("O_", c3, nc3, nc3', a, x, y) /\ Moved("O_", c4, nc4, nc4', a, x, y)
    /\ Moved("O_", c5, nc5, nc5', a, x, y) /\ Moved("O_", c6, nc6, nc6', a, x, y)
    /\ Moved("O_", c7, nc7, nc7', a, x, y) /\ Moved("O_", End, noEnd, noEnd', a, x, y)
    /\ Called("h__sem", h__sem, h__sem', on, d) /\ Called("s_sem", s_sem, s_sem', on, d)
    /\ Called("o__sem", o__sem, o__sem', on, d)
    /\ Called("h2_mutex", h2_mutex, h2_mutex', on, d)
    /\ Called("s_mutex", s_mutex, s_mutex', on, d)
    /\ Called("o_mutex", o_mutex, o_mutex', on, d)
    /\ Called("count__h", count__h, count__h', on, d)
    /\ Called("count_o", count_o, count_o', on, d) /\ Started("H_", bh, bh', a, x)
    /\ Started("S", bS, bS', a, x) /\ Started("O_", bo, bo', a, x)

LEMMA AcidChanges ==
    ASSUME MoleculeTypes, NEW a \in m_created, NEW x, NEW on, NEW d, NEW y,
           Makes(a, x, on, d, y)
    PROVE  MoleculeTypes' /\ AcidChange(a, x, on, d, y)
  BY Changes, SemaphoreNames
  DEF AcidChange, nh1, nh2, nhS, nhH, nhEnd, nS1, nSEnd, no1, no2, noO, nc1, nc2, nc3, nc4,
      nc5, nc6, nc7, noEnd, h__sem, s_sem, o__sem, h2_mutex, s_mutex, o_mutex, count__h,
      count_o, bh, bS, bo

LEMMA AcidOrderKept ==
    ASSUME AcidOrder, AcidNumbers,
           \/ UNCHANGED <<bh, bS, bo>>
           \/ /\ bh' = bh + 1 /\ UNCHANGED <<bS, bo>>
              /\ nexth \in 0 .. 1 /\ bh + bS + bo = 7 * bS + nexth
           \/ bS' = bS + 1 /\ UNCHANGED <<bh, bo>> /\ bh + bS + bo = 7 * bS + 2
           \/ /\ bo' = bo + 1 /\ UNCHANGED <<bh, bS>>
              /\ bS > 0 /\ nexto \in 0 .. 3 /\ bh + bS + bo = 7 * (bS - 1) + 3 + nexto
    PROVE  AcidOrder'
  <1>1. bh \in Nat /\ bS \in Nat /\ bo \in Nat
    BY DEF AcidNumbers
  <1>2. CASE UNCHANGED <<bh, bS, bo>>
    BY <1>2 DEF AcidOrder
  <1>3. ASSUME NEW q \in Nat, NEW r \in 0 .. 6, bh + bS + bo = 7 * q + r,
               bh' = bh + IF r < 2 THEN 1 ELSE 0, bS' = bS + IF r = 2 THEN 1 ELSE 0,
               bo' = bo + IF r > 2 THEN 1 ELSE 0
        PROVE  AcidOrder'
    <2>1. bh' + bS' + bo' = 7 * q + r + 1
      BY <1>1, <1>3
    <2>2. /\ Needs(Acid, "H_", 7 * q + r + 1) = bh'
          /\ Needs(Acid, "S", 7 * q + r + 1) = bS'
          /\ Needs(Acid, "O_", 7 * q + r + 1) = bo'
      BY <1>3, AcidNeeds DEF AcidOrder
    <2> QED
      BY <2>1, <2>2 DEF AcidOrder
  <1>4. CASE /\ bh' = bh + 1 /\ UNCHANGED <<bS, bo>>
             /\ nexth \in 0 .. 1 /\ bh + bS + bo = 7 * bS + nexth
    BY <1>1, <1>3, <1>4
  <1>5. CASE bS' = bS + 1 /\ UNCHANGED <<bh, bo>> /\ bh + bS + bo = 7 * bS + 2
    BY <1>1, <1>3, <1>5
  <1>6. CASE /\ bo' = bo + 1 /\ UNCHANGED <<bh, bS>>
             /\ bS > 0 /\ nexto \in 0 .. 3 /\ bh + bS + bo = 7 * (bS - 1) + 3 + nexto
    <2> DEFINE q == bS - 1
               r == 3 + nexto
    <2>1. q \in Nat /\ r \in 0 .. 6 /\ r > 2 /\ bh + bS + bo = 7 * q + r
      BY <1>1, <1>6
    <2>2. /\ bh' = bh + IF r < 2 THEN 1 ELSE 0
          /\ bS' = bS + IF r = 2 THEN 1 ELSE 0
          /\ bo' = bo + IF r > 2 THEN 1 ELSE 0
      BY <1>1, <1>6, <2>1
    <2> HIDE DEF q, r
    <2> QED
      BY <1>3, <2>1, <2>2
  <1> QED
    BY <1>2, <1>4, <1>5, <1>6

LEMMA AcidKept ==
    ASSUME MoleculeTypes, AcidInv, AcidOrder, phase = "H2SO4", NEW a \in m_created,
           Molecule!AtomStep(a)
    PROVE  MoleculeTypes' /\ AcidInv' /\ AcidOrder'
  <1>1. CASE a[1] = "H_" /\ Makes(a, h0, "h__sem", -1, h1)
    <2>1. MoleculeTypes' /\ AcidChange(a, h0, "h__sem", -1, h1)
      BY <1>1, AcidChanges
    <2>2. /\ AcidNumbers /\ AcidNumbers' /\ nh1' = nh1 + 1 /\ h__sem' = h__sem - 1
          /\ bh' = bh + 1
          /\ UNCHANGED <<nh2, nhS, nhH, nhEnd, Sulphurs, AcidOxygens, s_sem, o__sem,
                         h2_mutex, s_mutex, o_mutex, count__h, count_o, bS, bo>>
      BY <1>1, <2>1, AcidPlaces, AcidCode
      DEF AcidChange, AcidHydrogens, Sulphurs, AcidOxygens, AcidValues, AcidBegun,
          AcidNumbers, Moved, Called, Started
    <2>3. AcidInv'
      BY <2>2 DEF AcidHydrogens, Sulphurs, AcidOxygens, AcidValues, AcidBegun,
                    AcidNumbers, open, made, left, nexth, nexto, AcidInv
    <2>4. nexth \in 0 .. 1 /\ bh + bS + bo = 7 * bS + nexth
      BY <2>2 DEF AcidHydrogens, Sulphurs, AcidOxygens, AcidValues, AcidBegun,
                    AcidNumbers, open, made, left, nexth, nexto, AcidInv
    <2> QED
      BY <2>1, <2>2, <2>3, <2>4, AcidOrderKept DEF AcidBegun
  <1>2. CASE a[1] = "H_" /\ Makes(a, h1, "count__h", 1, h2)
    <2>1. MoleculeTypes' /\ AcidChange(a, h1, "count__h", 1, h2)
      BY <1>2, AcidChanges
    <2>2. /\ AcidNumbers /\ AcidNumbers' /\ nh1' = nh1 - 1 /\ nh2' = nh2 + 1
          /\ count__h' = count__h + 1
          /\ UNCHANGED <<nhS, nhH, nhEnd, Sulphurs, AcidOxygens, h__sem, s_sem, o__sem,
                         h2_mutex, s_mutex, o_mutex, count_o, AcidBegun>>
      BY <1>2, <2>1, AcidPlaces, AcidCode
      DEF AcidChange, AcidHydrogens, Sulphurs, AcidOxygens, AcidValues, AcidBegun,
          AcidNumbers, Moved, Called, Started
    <2>3. AcidInv'
      BY <2>2 DEF AcidHydrogens, Sulphurs, AcidOxygens, AcidValues, AcidBegun,
                    AcidNumbers, open, made, left, nexth, nexto, AcidInv
    <2> QED
      BY <2>1, <2>2, <2>3, AcidOrderKept DEF AcidBegun
  <1>3. CASE a[1] = "H_" /\ Makes(a, h2, "nothing", 0, hS) /\ count__h % 2 = 0
    <2>1. MoleculeTypes' /\ AcidChange(a, h2, "nothing", 0, hS)
      BY <1>3, AcidChanges
    <2>2. /\ AcidNumbers /\ AcidNumbers' /\ nh2' = nh2 - 1 /\ nhS' = nhS + 1
          /\ UNCHANGED <<nh1, nhH, nhEnd, Sulphurs, AcidOxygens, AcidValues, AcidBegun>>
      BY <1>3, <2>1, AcidPlaces, AcidCode
      DEF AcidChange, AcidHydrogens, Sulphurs, AcidOxygens, AcidValues, AcidBegun,
          AcidNumbers, Moved, Called, Started
    <2>3. count__h = bh /\ nexth \in 1 .. 2
      BY <2>2 DEF AcidNumbers, open, made, left, nexth, nexto, AcidInv
    <2>4. bh \in Nat /\ bS \in Nat /\ bh = 2 * bS + nexth
      BY <2>2 DEF AcidNumbers, nexth
    <2>5. nexth = 2
      BY <1>3, <2>3, <2>4
    <2>6. AcidInv'
      BY <2>2, <2>5 DEF AcidHydrogens, Sulphurs, AcidOxygens, AcidValues, AcidBegun,
                    AcidNumbers, open, made, left, nexth, nexto, AcidInv
    <2> QED
      BY <2>1, <2>2, <2>6, AcidOrderKept DEF AcidBegun
  <1>4. CASE a[1] = "H_" /\ Makes(a, h2, "nothing", 0, hH) /\ count__h % 2 # 0
    <2>1. MoleculeTypes' /\ AcidChange(a, h2, "nothing", 0, hH)
      BY <1>4, AcidChanges
    <2>2. /\ AcidNumbers /\ AcidNumbers' /\ nh2' = nh2 - 1 /\ nhH' = nhH + 1
          /\ UNCHANGED <<nh1, nhS, nhEnd, Sulphurs, AcidOxygens, AcidValues, AcidBegun>>
      BY <1>4, <2>1, AcidPlaces, AcidCode
      DEF AcidChange, AcidHydrogens, Sulphurs, AcidOxygens, AcidValues, AcidBegun,
          AcidNumbers, Moved, Called, Started
    <2>3. count__h = bh /\ nexth \in 1 .. 2
      BY <2>2 DEF AcidNumbers, open, made, left, nexth, nexto, AcidInv
    <2>4. bh \in Nat /\ bS \in Nat /\ bh = 2 * bS + nexth
      BY <2>2 DEF AcidNumbers, nexth
    <2>5. nexth = 1
      BY <1>4, <2>3, <2>4
    <2>6. AcidInv'
      BY <2>2, <2>5 DEF AcidHydrogens, Sulphurs, AcidOxygens, AcidValues, AcidBegun,
                    AcidNumbers, open, made, left, nexth, nexto, AcidInv
    <2> QED
      BY <2>1, <2>2, <2>6, AcidOrderKept DEF AcidBegun
  <1>5. CASE a[1] = "H_" /\ Makes(a, hS, "s_sem", 1, h3)
    <2>1. MoleculeTypes' /\ AcidChange(a, hS, "s_sem", 1, h3)
      BY <1>5, AcidChanges
    <2>2. /\ AcidNumbers /\ AcidNumbers' /\ nhS' = nhS - 1 /\ s_sem' = s_sem + 1
          /\ UNCHANGED <<nh1, nh2, nhH, nhEnd, Sulphurs, AcidOxygens, h__sem, o__sem,
                         h2_mutex, s_mutex, o_mutex, count__h, count_o, AcidBegun>>
      BY <1>5, <2>1, AcidPlaces, AcidCode
      DEF AcidChange, AcidHydrogens, Sulphurs, AcidOxygens, AcidValues, AcidBegun,
          AcidNumbers, Moved, Called, Started
    <2>3. AcidInv'
      BY <2>2 DEF AcidHydrogens, Sulphurs, AcidOxygens, AcidValues, AcidBegun,
                    AcidNumbers, open, made, left, nexth, nexto, AcidInv
    <2> QED
      BY <2>1, <2>2, <2>3, AcidOrderKept DEF AcidBegun
  <1>6. CASE a[1] = "H_" /\ Makes(a, hH, "h__sem", 1, h3)
    <2>1. MoleculeTypes' /\ AcidChange(a, hH, "h__sem", 1, h3)
      BY <1>6, AcidChanges
    <2>2. /\ AcidNumbers /\ AcidNumbers' /\ nhH' = nhH - 1 /\ h__sem' = h__sem + 1
          /\ UNCHANGED <<nh1, nh2, nhS, nhEnd, Sulphurs, AcidOxygens, s_sem, o__sem,
                         h2_mutex, s_mutex, o_mutex, count__h, count_o, AcidBegun>>
      BY <1>6, <2>1, AcidPlaces, AcidCode
      DEF AcidChange, AcidHydrogens, Sulphurs, AcidOxygens, AcidValues, AcidBegun,
          AcidNumbers, Moved, Called, Started
    <2>3. AcidInv'
      BY <2>2 DEF AcidHydrogens, Sulphurs, AcidOxygens, AcidValues, AcidBegun,
                    AcidNumbers, open, made, left, nexth, nexto, AcidInv
    <2> QED
      BY <2>1, <2>2, <2>3, AcidOrderKept DEF AcidBegun
  <1>7. CASE a[1] = "H_" /\ Makes(a, h3, "h2_mutex", -1, End)
    <2>1. MoleculeTypes' /\ AcidChange(a, h3, "h2_mutex", -1, End)
      BY <1>7, AcidChanges
    <2>2. /\ AcidNumbers /\ AcidNumbers' /\ nhEnd' = nhEnd + 1 /\ h2_mutex' = h2_mutex - 1
          /\ UNCHANGED <<nh1, nh2, nhS, nhH, Sulphurs, AcidOxygens, h__sem, s_sem, o__sem,
                         s_mutex, o_mutex, count__h, count_o, AcidBegun>>
      BY <1>7, <2>1, AcidPlaces, AcidCode
      DEF AcidChange, AcidHydrogens, Sulphurs, AcidOxygens, AcidValues, AcidBegun,
          AcidNumbers, Moved, Called, Started
    <2>3. AcidInv'
      BY <2>2 DEF AcidHydrogens, Sulphurs, AcidOxygens, AcidValues, AcidBegun,
                    AcidNumbers, open, made, left, nexth, nexto, AcidInv
    <2> QED
      BY <2>1, <2>2, <2>3, AcidOrderKept DEF AcidBegun
  <1>8. CASE a[1] = "S" /\ Makes(a, S0, "s_sem", -1, S1)
    <2>1. MoleculeTypes' /\ AcidChange(a, S0, "s_sem", -1, S1)
      BY <1>8, AcidChanges
    <2>2. /\ AcidNumbers /\ AcidNumbers' /\ nS1' = nS1 + 1 /\ s_sem' = s_sem - 1
          /\ bS' = bS + 1
          /\ UNCHANGED <<AcidHydrogens, nSEnd, AcidOxygens, h__sem, o__sem, h2_mutex,
                         s_mutex, o_mutex, count__h, count_o, bh, bo>>
      BY <1>8, <2>1, AcidPlaces, AcidCode
      DEF AcidChange, AcidHydrogens, Sulphurs, AcidOxygens, AcidValues, AcidBegun,
          AcidNumbers, Moved, Called, Started
    <2>3. AcidInv'
      BY <2>2 DEF AcidHydrogens, Sulphurs, AcidOxygens, AcidValues, AcidBegun,
                    AcidNumbers, open, made, left, nexth, nexto, AcidInv
    <2>4. bh + bS + bo = 7 * bS + 2
      BY <2>2 DEF AcidHydrogens, Sulphurs, AcidOxygens, AcidValues, AcidBegun,
                    AcidNumbers, open, made, left, nexth, nexto, AcidInv
    <2> QED
      BY <2>1, <2>2, <2>3, <2>4, AcidOrderKept DEF AcidBegun
  <1>9. CASE a[1] = "S" /\ Makes(a, S1, "o__sem", 1, S2)
    <2>1. MoleculeTypes' /\ AcidChange(a, S1, "o__sem", 1, S2)
      BY <1>9, AcidChanges
    <2>2. /\ AcidNumbers /\ AcidNumbers' /\ nS1' = nS1 - 1 /\ o__sem' = o__sem + 1
          /\ UNCHANGED <<AcidHydrogens, nSEnd, AcidOxygens, h__sem, s_sem, h2_mutex,
                         s_mutex, o_mutex, count__h, count_o, AcidBegun>>
      BY <1>9, <2>1, AcidPlaces, AcidCode
      DEF AcidChange, AcidHydrogens, Sulphurs, AcidOxygens, AcidValues, AcidBegun,
          AcidNumbers, Moved, Called, Started
    <2>3. AcidInv'
      BY <2>2 DEF AcidHydrogens, Sulphurs, AcidOxygens, AcidValues, AcidBegun,
                    AcidNumbers, open, made, left, nexth, nexto, AcidInv
    <2> QED
      BY <2>1, <2>2, <2>3, AcidOrderKept DEF AcidBegun
  <1>10. CASE a[1] = "S" /\ Makes(a, S2, "s_mutex", -1, End)
    <2>1. MoleculeTypes' /\ AcidChange(a, S2, "s_mutex", -1, End)
      BY <1>10, AcidChanges
    <2>2. /\ AcidNumbers /\ AcidNumbers' /\ nSEnd' = nSEnd + 1 /\ s_mutex' = s_mutex - 1
          /\ UNCHANGED <<AcidHydrogens, nS1, AcidOxygens, h__sem, s_sem, o__sem, h2_mutex,
                         o_mutex, count__h, count_o, AcidBegun>>
      BY <1>10, <2>1, AcidPlaces, AcidCode
      DEF AcidChange, AcidHydrogens, Sulphurs, AcidOxygens, AcidValues, AcidBegun,
          AcidNumbers, Moved, Called, Started
    <2>3. AcidInv'
      BY <2>2 DEF AcidHydrogens, Sulphurs, AcidOxygens, AcidValues, AcidBegun,
                    AcidNumbers, open, made, left, nexth, nexto, AcidInv
    <2> QED
      BY <2>1, <2>2, <2>3, AcidOrderKept DEF AcidBegun
  <1>11. CASE a[1] = "O_" /\ Makes(a, o0, "o__sem", -1, o1)
    <2>1. MoleculeTypes' /\ AcidChange(a, o0, "o__sem", -1, o1)
      BY <1>11, AcidChanges
    <2>2. /\ AcidNumbers /\ AcidNumbers' /\ no1' = no1 + 1 /\ o__sem' = o__sem - 1
          /\ bo' = bo + 1
          /\ UNCHANGED <<AcidHydrogens, Sulphurs, no2, noO, nc1, nc2, nc3, nc4, nc5, nc6,
                         nc7, noEnd, h__sem, s_sem, h2_mutex, s_mutex, o_mutex, count__h,
                         count_o, bh, bS>>
      BY <1>11, <2>1, AcidPlaces, OxygenPlaces, OxygenCode, AcidCode
      DEF AcidChange, AcidHydrogens, Sulphurs, AcidOxygens, AcidValues, AcidBegun,
          AcidNumbers, Moved, Called, Started
    <2>3. AcidInv'
      BY <2>2 DEF AcidHydrogens, Sulphurs, AcidOxygens, AcidValues, AcidBegun,
                    AcidNumbers, open, made, left, nexth, nexto, AcidInv
    <2>4. bS > 0 /\ nexto \in 0 .. 3 /\ bh + bS + bo = 7 * (bS - 1) + 3 + nexto
      BY <2>2 DEF AcidHydrogens, Sulphurs, AcidOxygens, AcidValues, AcidBegun,
                    AcidNumbers, open, made, left, nexth, nexto, AcidInv
    <2> QED
      BY <2>1, <2>2, <2>3, <2>4, AcidOrderKept DEF AcidBegun
  <1>12. CASE a[1] = "O_" /\ Makes(a, o1, "count_o", 1, o2)
    <2>1. MoleculeTypes' /\ AcidChange(a, o1, "count_o", 1, o2)
      BY <1>12, AcidChanges
    <2>2. /\ AcidNumbers /\ AcidNumbers' /\ no1' = no1 - 1 /\ no2' = no2 + 1
          /\ count_o' = count_o + 1
          /\ UNCHANGED <<AcidHydrogens, Sulphurs, noO, nc1, nc2, nc3, nc4, nc5, nc6, nc7,
                         noEnd, h__sem, s_sem, o__sem, h2_mutex, s_mutex, o_mutex,
                         count__h, AcidBegun>>
      BY <1>12, <2>1, AcidPlaces, OxygenPlaces, OxygenCode, AcidCode
      DEF AcidChange, AcidHydrogens, Sulphurs, AcidOxygens, AcidValues, AcidBegun,
          AcidNumbers, Moved, Called, Started
    <2>3. AcidInv'
      BY <2>2 DEF AcidHydrogens, Sulphurs, AcidOxygens, AcidValues, AcidBegun,
                    AcidNumbers, open, made, left, nexth, nexto, AcidInv
    <2> QED
      BY <2>1, <2>2, <2>3, AcidOrderKept DEF AcidBegun
  <1>13. CASE a[1] = "O_" /\ Makes(a, o2, "nothing", 0, c1) /\ count_o % 4 = 0
    <2>1. MoleculeTypes' /\ AcidChange(a, o2, "nothing", 0, c1)
      BY <1>13, AcidChanges
    <2>2. /\ AcidNumbers /\ AcidNumbers' /\ no2' = no2 - 1 /\ nc1' = nc1 + 1
          /\ UNCHANGED <<AcidHydrogens, Sulphurs, no1, noO, nc2, nc3, nc4, nc5, nc6, nc7,
                         noEnd, AcidValues, AcidBegun>>
      BY <1>13, <2>1, AcidPlaces, OxygenPlaces, OxygenCode, AcidCode
      DEF AcidChange, AcidHydrogens, Sulphurs, AcidOxygens, AcidValues, AcidBegun,
          AcidNumbers, Moved, Called, Started
    <2>3. count_o = bo /\ nexto \in 1 .. 4 /\ made \in Nat
      BY <2>2 DEF AcidNumbers, open, made, left, nexth, nexto, AcidInv
    <2>4. bo \in Nat /\ bo = 4 * made + nexto
      BY <2>2, <2>3 DEF AcidNumbers, nexto
    <2>5. nexto = 4
      BY <1>13, <2>3, <2>4
    <2>6. AcidInv'
      BY <2>2, <2>5 DEF AcidHydrogens, Sulphurs, AcidOxygens, AcidValues, AcidBegun,
                    AcidNumbers, open, made, left, nexth, nexto, AcidInv
    <2> QED
      BY <2>1, <2>2, <2>6, AcidOrderKept DEF AcidBegun
  <1>14. CASE a[1] = "O_" /\ Makes(a, o2, "nothing", 0, oO) /\ count_o % 4 # 0
    <2>1. MoleculeTypes' /\ AcidChange(a, o2, "nothing", 0, oO)
      BY <1>14, AcidChanges
    <2>2. /\ AcidNumbers /\ AcidNumbers' /\ no2' = no2 - 1 /\ noO' = noO + 1
          /\ UNCHANGED <<AcidHydrogens, Sulphurs, no1, nc1, nc2, nc3, nc4, nc5, nc6, nc7,
                         noEnd, AcidValues, AcidBegun>>
      BY <1>14, <2>1, AcidPlaces, OxygenPlaces, OxygenCode, AcidCode
      DEF AcidChange, AcidHydrogens, Sulphurs, AcidOxygens, AcidValues, AcidBegun,
          AcidNumbers, Moved, Called, Started
    <2>3. count_o = bo /\ nexto \in 1 .. 4 /\ made \in Nat
      BY <2>2 DEF AcidNumbers, open, made, left, nexth, nexto, AcidInv
    <2>4. bo \in Nat /\ bo = 4 * made + nexto
      BY <2>2, <2>3 DEF AcidNumbers, nexto
    <2>5. nexto < 4
      BY <1>14, <2>3, <2>4
    <2>6. AcidInv'
      BY <2>2, <2>5 DEF AcidHydrogens, Sulphurs, AcidOxygens, AcidValues, AcidBegun,
                    AcidNumbers, open, made, left, nexth, nexto, AcidInv
    <2> QED
      BY <2>1, <2>2, <2>6, AcidOrderKept DEF AcidBegun
  <1>15. CASE a[1] = "O_" /\ Makes(a, oO, "o__sem", 1, o3)
    <2>1. MoleculeTypes' /\ AcidChange(a, oO, "o__sem", 1, o3)
      BY <1>15, AcidChanges
    <2>2. /\ AcidNumbers /\ AcidNumbers' /\ noO' = noO - 1 /\ o__sem' = o__sem + 1
          /\ UNCHANGED <<AcidHydrogens, Sulphurs, no1, no2, nc1, nc2, nc3, nc4, nc5, nc6,
                         nc7, noEnd, h__sem, s_sem, h2_mutex, s_mutex, o_mutex, count__h,
                         count_o, AcidBegun>>
      BY <1>15, <2>1, AcidPlaces, OxygenPlaces, OxygenCode, AcidCode
      DEF AcidChange, AcidHydrogens, Sulphurs, AcidOxygens, AcidValues, AcidBegun,
          AcidNumbers, Moved, Called, Started
    <2>3. AcidInv'
      BY <2>2 DEF AcidHydrogens, Sulphurs, AcidOxygens, AcidValues, AcidBegun,
                    AcidNumbers, open, made, left, nexth, nexto, AcidInv
    <2> QED
      BY <2>1, <2>2, <2>3, AcidOrderKept DEF AcidBegun
  <1>16. CASE a[1] = "O_" /\ Makes(a, o3, "o_mutex", -1, End)
    <2>1. MoleculeTypes' /\ AcidChange(a, o3, "o_mutex", -1, End)
      BY <1>16, AcidChanges
    <2>2. /\ AcidNumbers /\ AcidNumbers' /\ noEnd' = noEnd + 1 /\ o_mutex' = o_mutex - 1
          /\ UNCHANGED <<AcidHydrogens, Sulphurs, no1, no2, noO, nc1, nc2, nc3, nc4, nc5,
                         nc6, nc7, h__sem, s_sem, o__sem, h2_mutex, s_mutex, count__h,
                         count_o, AcidBegun>>
      BY <1>16, <2>1, AcidPlaces, OxygenPlaces, OxygenCode, AcidCode
      DEF AcidChange, AcidHydrogens, Sulphurs, AcidOxygens, AcidValues, AcidBegun,
          AcidNumbers, Moved, Called, Started
    <2>3. AcidInv'
      BY <2>2 DEF AcidHydrogens, Sulphurs, AcidOxygens, AcidValues, AcidBegun,
                    AcidNumbers, open, made, left, nexth, nexto, AcidInv
    <2> QED
      BY <2>1, <2>2, <2>3, AcidOrderKept DEF AcidBegun
  <1>17. CASE a[1] = "O_" /\ Makes(a, c1, "h2_mutex", 1, c2)
    <2>1. MoleculeTypes' /\ AcidChange(a, c1, "h2_mutex", 1, c2)
      BY <1>17, AcidChanges
    <2>2. /\ AcidNumbers /\ AcidNumbers' /\ nc1' = nc1 - 1 /\ nc2' = nc2 + 1
          /\ h2_mutex' = h2_mutex + 1
          /\ UNCHANGED <<AcidHydrogens, Sulphurs, no1, no2, noO, nc3, nc4, nc5, nc6, nc7,
                         noEnd, h__sem, s_sem, o__sem, s_mutex, o_mutex, count__h, count_o,
                         AcidBegun>>
      BY <1>17, <2>1, AcidPlaces, OxygenPlaces, OxygenCode, AcidCode
      DEF AcidChange, AcidHydrogens, Sulphurs, AcidOxygens, AcidValues, AcidBegun,
          AcidNumbers, Moved, Called, Started
    <2>3. AcidInv'
      BY <2>2 DEF AcidHydrogens, Sulphurs, AcidOxygens, AcidValues, AcidBegun,
                    AcidNumbers, open, made, left, nexth, nexto, AcidInv
    <2> QED
      BY <2>1, <2>2, <2>3, AcidOrderKept DEF AcidBegun
  <1>18. CASE a[1] = "O_" /\ Makes(a, c2, "h2_mutex", 1, c3)
    <2>1. MoleculeTypes' /\ AcidChange(a, c2, "h2_mutex", 1, c3)
      BY <1>18, AcidChanges
    <2>2. /\ AcidNumbers /\ AcidNumbers' /\ nc2' = nc2 - 1 /\ nc3' = nc3 + 1
          /\ h2_mutex' = h2_mutex + 1
          /\ UNCHANGED <<AcidHydrogens, Sulphurs, no1, no2, noO, nc1, nc4, nc5, nc6, nc7,
                         noEnd, h__sem, s_sem, o__sem, s_mutex, o_mutex, count__h, count_o,
                         AcidBegun>>
      BY <1>18, <2>1, AcidPlaces, OxygenPlaces, OxygenCode, AcidCode
      DEF AcidChange, AcidHydrogens, Sulphurs, AcidOxygens, AcidValues, AcidBegun,
          AcidNumbers, Moved, Called, Started
    <2>3. AcidInv'
      BY <2>2 DEF AcidHydrogens, Sulphurs, AcidOxygens, AcidValues, AcidBegun,
                    AcidNumbers, open, made, left, nexth, nexto, AcidInv
    <2> QED
      BY <2>1, <2>2, <2>3, AcidOrderKept DEF AcidBegun
  <1>19. CASE a[1] = "O_" /\ Makes(a, c3, "s_mutex", 1, c4)
    <2>1. MoleculeTypes' /\ AcidChange(a, c3, "s_mutex", 1, c4)
      BY <1>19, AcidChanges
    <2>2. /\ AcidNumbers /\ AcidNumbers' /\ nc3' = nc3 - 1 /\ nc4' = nc4 + 1
          /\ s_mutex' = s_mutex + 1
          /\ UNCHANGED <<AcidHydrogens, Sulphurs, no1, no2, noO, nc1, nc2, nc5, nc6, nc7,
                         noEnd, h__sem, s_sem, o__sem, h2_mutex, o_mutex, count__h,
                         count_o, AcidBegun>>
      BY <1>19, <2>1, AcidPlaces, OxygenPlaces, OxygenCode, AcidCode
      DEF AcidChange, AcidHydrogens, Sulphurs, AcidOxygens, AcidValues, AcidBegun,
          AcidNumbers, Moved, Called, Started
    <2>3. AcidInv'
      BY <2>2 DEF AcidHydrogens, Sulphurs, AcidOxygens, AcidValues, AcidBegun,
                    AcidNumbers, open, made, left, nexth, nexto, AcidInv
    <2> QED
      BY <2>1, <2>2, <2>3, AcidOrderKept DEF AcidBegun
  <1>20. CASE a[1] = "O_" /\ Makes(a, c4, "o_mutex", 1, c5)
    <2>1. MoleculeTypes' /\ AcidChange(a, c4, "o_mutex", 1, c5)
      BY <1>20, AcidChanges
    <2>2. /\ AcidNumbers /\ AcidNumbers' /\ nc4' = nc4 - 1 /\ nc5' = nc5 + 1
          /\ o_mutex' = o_mutex + 1
          /\ UNCHANGED <<AcidHydrogens, Sulphurs, no1, no2, noO, nc1, nc2, nc3, nc6, nc7,
                         noEnd, h__sem, s_sem, o__sem, h2_mutex, s_mutex, count__h,
                         count_o, AcidBegun>>
      BY <1>20, <2>1, AcidPlaces, OxygenPlaces, OxygenCode, AcidCode
      DEF AcidChange, AcidHydrogens, Sulphurs, AcidOxygens, AcidValues, AcidBegun,
          AcidNumbers, Moved, Called, Started
    <2>3. AcidInv'
      BY <2>2 DEF AcidHydrogens, Sulphurs, AcidOxygens, AcidValues, AcidBegun,
                    AcidNumbers, open, made, left, nexth, nexto, AcidInv
    <2> QED
      BY <2>1, <2>2, <2>3, AcidOrderKept DEF AcidBegun
  <1>21. CASE a[1] = "O_" /\ Makes(a, c5, "o_mutex", 1, c6)
    <2>1. MoleculeTypes' /\ AcidChange(a, c5, "o_mutex", 1, c6)
      BY <1>21, AcidChanges
    <2>2. /\ AcidNumbers /\ AcidNumbers' /\ nc5' = nc5 - 1 /\ nc6' = nc6 + 1
          /\ o_mutex' = o_mutex + 1
          /\ UNCHANGED <<AcidHydrogens, Sulphurs, no1, no2, noO, nc1, nc2, nc3, nc4, nc7,
                         noEnd, h__sem, s_sem, o__sem, h2_mutex, s_mutex, count__h,
                         count_o, AcidBegun>>
      BY <1>21, <2>1, AcidPlaces, OxygenPlaces, OxygenCode, AcidCode
      DEF AcidChange, AcidHydrogens, Sulphurs, AcidOxygens, AcidValues, AcidBegun,
          AcidNumbers, Moved, Called, Started
    <2>3. AcidInv'
      BY <2>2 DEF AcidHydrogens, Sulphurs, AcidOxygens, AcidValues, AcidBegun,
                    AcidNumbers, open, made, left, nexth, nexto, AcidInv
    <2> QED
      BY <2>1, <2>2, <2>3, AcidOrderKept DEF AcidBegun
  <1>22. CASE a[1] = "O_" /\ Makes(a, c6, "o_mutex", 1, c7)
    <2>1. MoleculeTypes' /\ AcidChange(a, c6, "o_mutex", 1, c7)
      BY <1>22, AcidChanges
    <2>2. /\ AcidNumbers /\ AcidNumbers' /\ nc6' = nc6 - 1 /\ nc7' = nc7 + 1
          /\ o_mutex' = o_mutex + 1
          /\ UNCHANGED <<AcidHydrogens, Sulphurs, no1, no2, noO, nc1, nc2, nc3, nc4, nc5,
                         noEnd, h__sem, s_sem, o__sem, h2_mutex, s_mutex, count__h,
                         count_o, AcidBegun>>
      BY <1>22, <2>1, AcidPlaces, OxygenPlaces, OxygenCode, AcidCode
      DEF AcidChange, AcidHydrogens, Sulphurs, AcidOxygens, AcidValues, AcidBegun,
          AcidNumbers, Moved, Called, Started
    <2>3. AcidInv'
      BY <2>2 DEF AcidHydrogens, Sulphurs, AcidOxygens, AcidValues, AcidBegun,
                    AcidNumbers, open, made, left, nexth, nexto, AcidInv
    <2> QED
      BY <2>1, <2>2, <2>3, AcidOrderKept DEF AcidBegun
  <1>23. CASE a[1] = "O_" /\ Makes(a, c7, "h__sem", 1, End)
    <2>1. MoleculeTypes' /\ AcidChange(a, c7, "h__sem", 1, End)
      BY <1>23, AcidChanges
    <2>2. /\ AcidNumbers /\ AcidNumbers' /\ nc7' = nc7 - 1 /\ noEnd' = noEnd + 1
          /\ h__sem' = h__sem + 1
          /\ UNCHANGED <<AcidHydrogens, Sulphurs, no1, no2, noO, nc1, nc2, nc3, nc4, nc5,
                         nc6, s_sem, o__sem, h2_mutex, s_mutex, o_mutex, count__h, count_o,
                         AcidBegun>>
      BY <1>23, <2>1, AcidPlaces, OxygenPlaces, OxygenCode, AcidCode
      DEF AcidChange, AcidHydrogens, Sulphurs, AcidOxygens, AcidValues, AcidBegun,
          AcidNumbers, Moved, Called, Started
    <2>3. AcidInv'
      BY <2>2 DEF AcidHydrogens, Sulphurs, AcidOxygens, AcidValues, AcidBegun,
                    AcidNumbers, open, made, left, nexth, nexto, AcidInv
    <2> QED
      BY <2>1, <2>2, <2>3, AcidOrderKept DEF AcidBegun
  <1> QED
    BY AcidSteps, <1>1, <1>2, <1>3, <1>4, <1>5, <1>6, <1>7, <1>8, <1>9, <1>10, <1>11,
       <1>12, <1>13, <1>14, <1>15, <1>16, <1>17, <1>18, <1>19, <1>20, <1>21, <1>22, <1>23
------------------------------------------------------------------------------
(* main, and the first state.                                              *)

LEMMA EverythingSame ==
    ASSUME MoleculeInv, MoleculeTypes', UNCHANGED <<phase, m_sem, m_count>>,
           \A e, x : Num(e, x)' = Num(e, x), \A e : Molecule!Begun(e)' = Molecule!Begun(e)
    PROVE  MoleculeInv'
  <1>1. UNCHANGED <<Sodiums, Chlorines, SaltValues>>
    BY DEF Sodiums, Chlorines, SaltValues, nNa1, nNa2, nNa3, nNaEnd, nCl1, nCl2, nCl3, nClEnd,
           na_mutex, cl_mutex, na_sem, cl_sem
  <1>2. UNCHANGED <<Hydrogens, Oxygens, WaterValues, WaterBegun>>
    BY DEF Hydrogens, Oxygens, WaterValues, WaterBegun, nH1, nH2, nHO, nHH, nHEnd, nO1, nO2,
           nO3, nOEnd, h_sem, o_sem, h2o_mutex, count_h, bH, bO
  <1>3. UNCHANGED <<AcidHydrogens, Sulphurs, AcidOxygens, AcidValues, AcidBegun>>
    BY DEF AcidHydrogens, Sulphurs, AcidOxygens, AcidValues, AcidBegun, nh1, nh2, nhS, nhH,
           nhEnd, nS1, nSEnd, no1, no2, noO, nc1, nc2, nc3, nc4, nc5, nc6, nc7, noEnd, h__sem,
           s_sem, o__sem, h2_mutex, s_mutex, o_mutex, count__h, count_o, bh, bS, bo
  <1>4. SaltInv' = SaltInv
    BY <1>1 DEF Sodiums, Chlorines, SaltValues, SaltInv
  <1>5. WaterInv' = WaterInv /\ WaterOrder' = WaterOrder
    BY <1>2 DEF Hydrogens, Oxygens, WaterValues, WaterBegun, nextH, WaterInv, WaterOrder
  <1>6. AcidInv' = AcidInv /\ AcidOrder' = AcidOrder
    BY <1>3 DEF AcidHydrogens, Sulphurs, AcidOxygens, AcidValues, AcidBegun, open, made, left,
                nexth, nexto, AcidInv, AcidOrder
  <1> QED
    BY <1>4, <1>5, <1>6 DEF MoleculeInv

\* An atom that main creates has not begun.
LEMMA MainKept ==
    ASSUME MoleculeInv, Molecule!MainStep \/ Molecule!EndLater \/ UNCHANGED moleculeVars
    PROVE  MoleculeInv'
  <1>1. UNCHANGED <<phase, m_sem, m_count, todo>>
    BY DEF Molecule!MainStep, Molecule!EndLater, Molecule!Join, Molecule!Create, moleculeVars
  <1>2. Molecule!AllAtoms' = Molecule!AllAtoms
    BY <1>1 DEF Molecule!AllAtoms, Molecule!Elements, Molecule!HowMany, Molecule!Recipe
  <1>3. \/ UNCHANGED m_created
        \/ \E a \in Molecule!Atoms : a \notin m_created /\ m_created' = m_created \cup {a}
    BY DEF Molecule!MainStep, Molecule!EndLater, Molecule!Join, Molecule!Create, moleculeVars
  <1>4. Molecule!Atoms = Molecule!AllAtoms
    BY DEF Molecule!Atoms, MoleculeInv, MoleculeTypes
  <1>5. /\ m_created' \in SUBSET Molecule!AllAtoms
        /\ \A a \in m_created' \ m_created : todo[a] = Molecule!Code[a[1]]
        /\ m_created \subseteq m_created'
    BY <1>3, <1>4 DEF MoleculeInv, MoleculeTypes
  <1>6. MoleculeTypes'
    BY <1>1, <1>2, <1>5 DEF MoleculeInv, MoleculeTypes
  <1>7. \A e, x : Num(e, x)' = Num(e, x)
    BY <1>1, <1>2 DEF Num, AtPlace
  <1>8. ASSUME NEW e PROVE Molecule!Begun(e)' = Molecule!Begun(e)
    <2> DEFINE B == {b \in m_created : b[1] = e /\ todo[b] # Molecule!Code[e]}
    <2>1. B' = B
      BY <1>1, <1>5
    <2> QED
      BY <2>1, SameCardinality DEF Molecule!Begun
  <1> QED
    BY <1>1, <1>6, <1>7, <1>8, EverythingSame

\* Whatever atoms exist when a phase starts, none has begun.
LEMMA MoleculeInit ==
    ASSUME phase \in Molecule!Phases, Molecule!InitialPhase, m_created \subseteq Molecule!Atoms
    PROVE  MoleculeInv
  <1>1. /\ m_sem = Molecule!Initial /\ m_count = [count_h |-> 0, count__h |-> 0, count_o |-> 0]
        /\ todo = [a \in Molecule!AllAtoms |-> Molecule!Code[a[1]]]
        /\ m_created \subseteq Molecule!AllAtoms
    BY DEF Molecule!InitialPhase, Molecule!Atoms
  <1>2. \A a \in Molecule!AllAtoms : a[1] \in {"Na", "Cl", "H", "O", "H_", "S", "O_"}
    BY AtomsFinite DEF Molecule!Phases, Molecule!Elements, Molecule!Recipe
  <1>3. \A e \in {"Na", "Cl", "H", "O", "H_", "S", "O_"} : Molecule!Code[e] \in PlacesOf[e]
    BY SaltCode, WaterCode, AcidCode DEF PlacesOf
  <1>4. MoleculeTypes
    BY <1>1, <1>2, <1>3 DEF MoleculeTypes, Molecule!Initial
  <1>5. ASSUME NEW e, NEW x, x # Molecule!Code[e] PROVE Num(e, x) = 0
    <2>1. AtPlace(e, x) = {}
      BY <1>1, <1>5 DEF AtPlace
    <2> QED
      BY <2>1, FS_EmptySet DEF Num
  <1>6. ASSUME NEW e PROVE Molecule!Begun(e) = 0
    <2>1. {b \in m_created : b[1] = e /\ todo[b] # Molecule!Code[e]} = {}
      BY <1>1
    <2> QED
      BY <2>1, FS_EmptySet, SameCardinality DEF Molecule!Begun
  <1>7. ASSUME NEW recipe, NEW e PROVE Needs(recipe, e, 0) = 0
    <2>1. {j \in 0 .. 0 - 1 : recipe[(j % Len(recipe)) + 1] = e} = {}
      OBVIOUS
    <2> QED
      BY <2>1, FS_EmptySet DEF Needs
  <1>8. SaltInv
    <2>1. /\ nNa1 = 0 /\ nNa2 = 0 /\ nNa3 = 0 /\ nNaEnd = 0
          /\ nCl1 = 0 /\ nCl2 = 0 /\ nCl3 = 0 /\ nClEnd = 0
      BY <1>5, SaltPlaces, SaltCode DEF nNa1, nNa2, nNa3, nNaEnd, nCl1, nCl2, nCl3, nClEnd
    <2>2. na_mutex = 1 /\ cl_mutex = 1 /\ na_sem = 0 /\ cl_sem = 0
      BY <1>1 DEF na_mutex, cl_mutex, na_sem, cl_sem, Molecule!Initial
    <2> QED
      BY <2>1, <2>2 DEF SaltInv
  <1>9. WaterInv /\ WaterOrder
    <2>1. /\ nH1 = 0 /\ nH2 = 0 /\ nHO = 0 /\ nHH = 0 /\ nHEnd = 0
          /\ nO1 = 0 /\ nO2 = 0 /\ nO3 = 0 /\ nOEnd = 0
      BY <1>5, WaterPlaces, WaterCode
      DEF nH1, nH2, nHO, nHH, nHEnd, nO1, nO2, nO3, nOEnd
    <2>2. h_sem = 1 /\ o_sem = 0 /\ h2o_mutex = 2 /\ count_h = 0
      BY <1>1 DEF h_sem, o_sem, h2o_mutex, count_h, Molecule!Initial
    <2>3. bH = 0 /\ bO = 0
      BY <1>6 DEF bH, bO
    <2> QED
      BY <1>7, <2>1, <2>2, <2>3 DEF nextH, WaterInv, WaterOrder
  <1>10. AcidInv /\ AcidOrder
    <2>1. nh1 = 0 /\ nh2 = 0 /\ nhS = 0 /\ nhH = 0 /\ nhEnd = 0 /\ nS1 = 0 /\ nSEnd = 0
      BY <1>5, AcidPlaces, AcidCode DEF nh1, nh2, nhS, nhH, nhEnd, nS1, nSEnd
    <2>2. /\ no1 = 0 /\ no2 = 0 /\ noO = 0 /\ nc1 = 0 /\ nc2 = 0 /\ nc3 = 0 /\ nc4 = 0
          /\ nc5 = 0 /\ nc6 = 0 /\ nc7 = 0 /\ noEnd = 0
      BY <1>5, OxygenPlaces, AcidCode
      DEF no1, no2, noO, nc1, nc2, nc3, nc4, nc5, nc6, nc7, noEnd
    <2>3. /\ h__sem = 1 /\ s_sem = 0 /\ o__sem = 0 /\ h2_mutex = 0 /\ s_mutex = 0
          /\ o_mutex = 0 /\ count__h = 0 /\ count_o = 0
      BY <1>1 DEF h__sem, s_sem, o__sem, h2_mutex, s_mutex, o_mutex, count__h, count_o,
                  Molecule!Initial
    <2>4. bh = 0 /\ bS = 0 /\ bo = 0
      BY <1>6 DEF bh, bS, bo
    <2>5. AcidInv
      BY <2>1, <2>2, <2>3, <2>4 DEF open, made, left, nexth, nexto, AcidInv
    <2> QED
      BY <1>7, <2>4, <2>5 DEF AcidOrder
  <1> QED
    BY <1>4, <1>8, <1>9, <1>10 DEF MoleculeInv

LEMMA MoleculeNext ==
    ASSUME MoleculeInv, [Molecule!Next]_moleculeVars
    PROVE  MoleculeInv'
  <1>1. CASE Molecule!MainStep \/ Molecule!EndLater \/ UNCHANGED moleculeVars
    BY <1>1, MainKept
  <1>2. ASSUME NEW a \in Molecule!Atoms, Molecule!AtomStep(a)
        PROVE  MoleculeInv'
    <2>1. a \in m_created /\ UNCHANGED phase
      BY <1>2 DEF Molecule!AtomStep, Molecule!WaitStep, Molecule!PostStep,
                  Molecule!CountStep, Molecule!TestStep, Molecule!Doing
    <2>2. MoleculeTypes /\ phase \in {"NaCl", "H2O", "H2SO4"}
      BY DEF MoleculeInv, MoleculeTypes, Molecule!Phases
    <2>3. CASE phase = "NaCl"
      BY <1>2, <2>1, <2>2, <2>3, SaltKept DEF MoleculeInv
    <2>4. CASE phase = "H2O"
      BY <1>2, <2>1, <2>2, <2>4, WaterKept DEF MoleculeInv
    <2>5. CASE phase = "H2SO4"
      BY <1>2, <2>1, <2>2, <2>5, AcidKept DEF MoleculeInv
    <2> QED
      BY <2>2, <2>3, <2>4, <2>5
  <1> QED
    BY <1>1, <1>2 DEF Molecule!Next
------------------------------------------------------------------------------
(* What the invariant says of the order and of the molecules.              *)

LEMMA UnionBound ==
    ASSUME NEW X, IsFiniteSet(X), NEW Y, IsFiniteSet(Y), NEW Z \in SUBSET (X \cup Y)
    PROVE  /\ IsFiniteSet(Z) /\ IsFiniteSet(X \cup Y)
           /\ Cardinality(Z) \in Nat /\ Cardinality(X \cup Y) \in Nat
           /\ Cardinality(Z) <= Cardinality(X) + Cardinality(Y)
           /\ Cardinality(X \cup Y) <= Cardinality(X) + Cardinality(Y)
  <1>1. IsFiniteSet(X \cup Y)
    BY FS_Union
  <1>2. Cardinality(X \cup Y) = Cardinality(X) + Cardinality(Y) - Cardinality(X \cap Y)
    BY FS_Union
  <1>3. IsFiniteSet(X \cap Y)
    BY FS_Intersection
  <1>4. /\ Cardinality(X) \in Nat /\ Cardinality(Y) \in Nat
        /\ Cardinality(X \cap Y) \in Nat /\ Cardinality(X \cup Y) \in Nat
    BY <1>1, <1>3, FS_CardinalityType
  <1>5. IsFiniteSet(Z) /\ Cardinality(Z) <= Cardinality(X \cup Y)
    BY <1>1, FS_Subset
  <1>6. Cardinality(Z) \in Nat
    BY <1>5, FS_CardinalityType
  <1> QED
    BY <1>1, <1>2, <1>4, <1>5, <1>6

LEMMA DisjointUnion ==
    ASSUME NEW X, IsFiniteSet(X), NEW Y, IsFiniteSet(Y), X \cap Y = {}
    PROVE  /\ IsFiniteSet(X \cup Y)
           /\ Cardinality(X \cup Y) = Cardinality(X) + Cardinality(Y)
  <1>1. IsFiniteSet(X \cup Y)
    BY FS_Union
  <1>2. Cardinality(X \cup Y) = Cardinality(X) + Cardinality(Y) - Cardinality(X \cap Y)
    BY FS_Union
  <1>3. Cardinality(X) \in Nat /\ Cardinality(Y) \in Nat /\ Cardinality(X \cap Y) = 0
    BY FS_CardinalityType, FS_EmptySet
  <1> QED
    BY <1>1, <1>2, <1>3

\* The numbers are numbers.
LEMMA NumbersTypes ==
    ASSUME MoleculeTypes
    PROVE  SaltNumbers /\ WaterNumbers /\ AcidNumbers
  <1>1. \A e, x : Num(e, x) \in Nat
    BY PlacesCounted
  <1>2. \A s \in DOMAIN Molecule!Initial : m_sem[s] \in Nat
    BY DEF MoleculeTypes
  <1>3. \A c \in {"count_h", "count__h", "count_o"} : m_count[c] \in Nat
    BY DEF MoleculeTypes
  <1>4. ASSUME NEW e PROVE Molecule!Begun(e) \in Nat
    <2> DEFINE B == {b \in m_created : b[1] = e /\ todo[b] # Molecule!Code[e]}
    <2>1. B \in SUBSET Molecule!AllAtoms
      BY DEF MoleculeTypes
    <2>2. IsFiniteSet(B) /\ Cardinality(B) \in Nat
      BY <2>1, AtomsFinite, FS_Subset, FS_CardinalityType DEF MoleculeTypes
    <2> QED
      BY <2>2, SameCardinality DEF Molecule!Begun
  <1>5. SaltNumbers
    BY <1>1, <1>2, SemaphoreNames
    DEF SaltNumbers, nNa1, nNa2, nNa3, nNaEnd, nCl1, nCl2, nCl3, nClEnd, na_mutex, cl_mutex,
        na_sem, cl_sem
  <1>6. WaterNumbers
    BY <1>1, <1>2, <1>3, <1>4, SemaphoreNames
    DEF WaterNumbers, nH1, nH2, nHO, nHH, nHEnd, nO1, nO2, nO3, nOEnd, h_sem, o_sem, h2o_mutex,
        count_h, bH, bO
  <1>7. AcidNumbers
    BY <1>1, <1>2, <1>3, <1>4, SemaphoreNames
    DEF AcidNumbers, nh1, nh2, nhS, nhH, nhEnd, nS1, nSEnd, no1, no2, noO, nc1, nc2, nc3, nc4,
        nc5, nc6, nc7, noEnd, h__sem, s_sem, o__sem, h2_mutex, s_mutex, o_mutex, count__h,
        count_o, bh, bS, bo
  <1> QED
    BY <1>5, <1>6, <1>7

\* All that have begun are atoms.
LEMMA BegunAreAtoms ==
    ASSUME MoleculeTypes, NEW e, NEW f, e # f
    PROVE  /\ Molecule!Begun(e) + Molecule!Begun(f) <= Molecule!Cardinality(Molecule!Atoms)
           /\ \A g : e # g /\ f # g =>
                 Molecule!Begun(e) + Molecule!Begun(f) + Molecule!Begun(g)
                     <= Molecule!Cardinality(Molecule!Atoms)
           /\ Molecule!Cardinality(Molecule!Atoms) \in Nat
  <1> DEFINE B(x) == {b \in m_created : b[1] = x /\ todo[b] # Molecule!Code[x]}
             D == B(e) \cup B(f)
  <1>1. \A x : B(x) \in SUBSET Molecule!AllAtoms
    BY DEF MoleculeTypes
  <1>2. IsFiniteSet(Molecule!AllAtoms) /\ Cardinality(Molecule!AllAtoms) \in Nat
    BY AtomsFinite, FS_CardinalityType DEF MoleculeTypes
  <1>3. B(e) \cap B(f) = {} /\ \A g : e # g /\ f # g => D \cap B(g) = {}
    OBVIOUS
  <1>4. \A x : Molecule!Begun(x) = Cardinality(B(x))
    BY SameCardinality DEF Molecule!Begun
  <1>5. Molecule!Cardinality(Molecule!Atoms) = Cardinality(Molecule!AllAtoms)
    BY SameCardinality DEF Molecule!Atoms, MoleculeTypes
  <1> HIDE DEF B
  <1>6. \A x : IsFiniteSet(B(x)) /\ Cardinality(B(x)) \in Nat
    BY <1>1, <1>2, FS_Subset, FS_CardinalityType
  <1>7. IsFiniteSet(D) /\ Cardinality(D) = Cardinality(B(e)) + Cardinality(B(f))
    BY <1>3, <1>6, DisjointUnion DEF D
  <1>8. D \in SUBSET Molecule!AllAtoms
    BY <1>1
  <1> HIDE DEF D
  <1>9. Cardinality(D) <= Cardinality(Molecule!AllAtoms)
    BY <1>2, <1>8, FS_Subset
  <1>10. ASSUME NEW g, e # g, f # g
         PROVE  Cardinality(D) + Cardinality(B(g)) <= Cardinality(Molecule!AllAtoms)
    <2>1. D \cup B(g) \in SUBSET Molecule!AllAtoms
      BY <1>1, <1>8
    <2>2. Cardinality(D \cup B(g)) <= Cardinality(Molecule!AllAtoms)
      BY <1>2, <2>1, FS_Subset
    <2>3. Cardinality(D \cup B(g)) = Cardinality(D) + Cardinality(B(g))
      BY <1>3, <1>6, <1>7, <1>10, DisjointUnion
    <2> QED
      BY <2>2, <2>3
  <1> QED
    BY <1>2, <1>4, <1>5, <1>6, <1>7, <1>9, <1>10

\* The kinds of the calls.
Kind(x) == Head(x)[1]

LEMMA Kinds ==
    /\ \A x \in PlacesOf["H"] : x # End /\ Kind(x) \in {"count", "test"} => x \in {H1, H2}
    /\ \A x \in PlacesOf["O"] : x # End => Kind(x) \notin {"count", "test"}
    /\ \A x \in PlacesOf["H_"] : x # End /\ Kind(x) \in {"count", "test"} => x \in {h1, h2}
    /\ \A x \in PlacesOf["S"] : x # End => Kind(x) \notin {"count", "test"}
    /\ \A x \in PlacesOf["O_"] : x # End /\ Kind(x) \in {"count", "test"} => x \in {o1, o2}
  <1>1. /\ Kind(H0) = "wait" /\ Kind(HO) = "post" /\ Kind(HH) = "post" /\ Kind(H3) = "wait"
        /\ Kind(O0) = "wait" /\ Kind(O1) = "post" /\ Kind(O2) = "post" /\ Kind(O3) = "post"
    BY WaterCode DEF Calls, Kind
  <1>2. /\ Kind(h0) = "wait" /\ Kind(hS) = "post" /\ Kind(hH) = "post" /\ Kind(h3) = "wait"
        /\ Kind(S0) = "wait" /\ Kind(S1) = "post" /\ Kind(S2) = "wait"
    BY AcidCode DEF Calls, Kind
  <1>3. /\ Kind(o0) = "wait" /\ Kind(oO) = "post" /\ Kind(o3) = "wait" /\ Kind(c1) = "post"
        /\ Kind(c2) = "post" /\ Kind(c3) = "post" /\ Kind(c4) = "post" /\ Kind(c5) = "post"
        /\ Kind(c6) = "post" /\ Kind(c7) = "post"
    BY OxygenCode DEF Calls, Kind
  <1> QED
    BY <1>1, <1>2, <1>3 DEF PlacesOf

\* The atoms at the counters.
LEMMA CountersAt ==
    ASSUME MoleculeTypes, NEW a \in Molecule!AtCounter
    PROVE  /\ a \in Molecule!AllAtoms
           /\ a[1] = "H" => todo[a] \in {H1, H2}
           /\ a[1] # "O" /\ a[1] # "S"
           /\ a[1] = "H_" => todo[a] \in {h1, h2}
           /\ a[1] = "O_" => todo[a] \in {o1, o2}
  <1>1. /\ a \in Molecule!AllAtoms /\ todo[a] \in PlacesOf[a[1]] /\ todo[a] # End
        /\ Kind(todo[a]) \in {"count", "test"}
    BY DEF Molecule!AtCounter, Molecule!Doing, MoleculeTypes, End, Kind
  <1> QED
    BY <1>1, Kinds

LEMMA WaterInOrder ==
    ASSUME MoleculeTypes, WaterInv, WaterOrder, phase = "H2O"
    PROVE  InRecipeOrder
  <1>1. /\ Molecule!Recipe = Water /\ Molecule!Elements = {"H", "O"}
        /\ \A a \in Molecule!AllAtoms : a[1] \in {"H", "O"}
    BY AtomsFinite DEF Molecule!Recipe, Molecule!Elements, Molecule!Phases, Water
  <1>2. WaterNumbers
    BY NumbersTypes
  <1>3. Molecule!Cardinality(Molecule!AtCounter) <= 1
    <2>1. Molecule!AtCounter \in SUBSET (AtPlace("H", H1) \cup AtPlace("H", H2))
      BY <1>1, CountersAt DEF AtPlace
    <2>2. Cardinality(Molecule!AtCounter) \in Nat /\ Cardinality(Molecule!AtCounter) <= nH1 + nH2
      BY <2>1, UnionBound, PlacesCounted DEF nH1, nH2, Num
    <2>3. nH1 + nH2 <= 1
      BY <1>2 DEF WaterInv, WaterNumbers
    <2> QED
      BY <1>2, <2>2, <2>3, SameCardinality DEF WaterNumbers
  <1>4. Molecule!Order
    <2> DEFINE k == bH + bO
    <2>1. k \in 0 .. Molecule!Cardinality(Molecule!Atoms)
      <3>1. /\ bH + bO <= Molecule!Cardinality(Molecule!Atoms)
            /\ Molecule!Cardinality(Molecule!Atoms) \in Nat
        BY BegunAreAtoms DEF bH, bO
      <3> QED
        BY <1>2, <3>1 DEF WaterNumbers
    <2>2. Molecule!Begun("H") = Needs(Water, "H", k) /\ Molecule!Begun("O") = Needs(Water, "O", k)
      BY DEF WaterOrder, bH, bO
    <2> HIDE DEF k
    <2> QED
      BY <1>1, <2>1, <2>2, SameCardinality DEF Molecule!Order, Needs
  <1>5. Molecule!MoleculesComplete
    <2> DEFINE G == {a \in Molecule!Gone : a[1] = "H"}
    <2>1. G \in SUBSET AtPlace("H", End)
      BY DEF Molecule!Gone, MoleculeTypes, AtPlace, End
    <2>2. Cardinality(G) \in Nat /\ Cardinality(G) <= nHEnd
      BY <2>1, PlacesCounted, FS_Subset, FS_CardinalityType DEF nHEnd, Num
    <2> HIDE DEF G
    <2>3. Cardinality(G) <= 2 * bO + 2
      BY <1>2, <2>2 DEF WaterInv, WaterNumbers
    <2> QED
      BY <2>3, SameCardinality DEF Molecule!MoleculesComplete, G, bO
  <1> QED
    BY <1>3, <1>4, <1>5 DEF InRecipeOrder, Molecule!InRecipeOrder

LEMMA SaltCoupled ==
    ASSUME MoleculeTypes, SaltInv, phase = "NaCl"
    PROVE  InRecipeOrder
  <1>1. SaltNumbers /\ \A a \in Molecule!AllAtoms : a[1] \in {"Na", "Cl"}
    BY NumbersTypes, AtomsFinite DEF Molecule!Elements, Molecule!Recipe, Molecule!Phases
  <1>2. /\ \A x \in PlacesOf["Na"] : Len(x) <= 1 <=> x \in {Na3, End}
        /\ \A x \in PlacesOf["Cl"] : Len(x) <= 1 <=> x \in {Cl3, End}
        /\ ~(Len(Molecule!Code["Na"]) <= 1) /\ ~(Len(Molecule!Code["Cl"]) <= 1)
    <2> DEFINE Short(x) == Len(x) <= 1
    <2>1. /\ ~Short(Na0) /\ ~Short(Na1) /\ ~Short(Na2) /\ Short(Na3) /\ Short(End)
          /\ ~Short(Cl0) /\ ~Short(Cl1) /\ ~Short(Cl2) /\ Short(Cl3)
      BY DEF Na0, Na1, Na2, Na3, End, Cl0, Cl1, Cl2, Cl3
    <2> HIDE DEF Short
    <2>2. /\ \A x \in PlacesOf["Na"] : Short(x) <=> x \in {Na3, End}
          /\ \A x \in PlacesOf["Cl"] : Short(x) <=> x \in {Cl3, End}
      BY <2>1 DEF PlacesOf
    <2> QED
      BY <2>1, <2>2, SaltCode DEF Short
  <1> DEFINE K(e) == {a \in m_created : a[1] = e /\ Len(todo[a]) <= 1}
  <1>3. /\ K("Na") = AtPlace("Na", Na3) \cup AtPlace("Na", End)
        /\ K("Cl") = AtPlace("Cl", Cl3) \cup AtPlace("Cl", End)
    <2>1. \A a \in Molecule!AllAtoms :
              /\ todo[a] \in PlacesOf[a[1]]
              /\ a \in m_created \/ todo[a] = Molecule!Code[a[1]]
      BY DEF MoleculeTypes
    <2>2. m_created \subseteq Molecule!AllAtoms
      BY DEF MoleculeTypes
    <2>3. \A a \in Molecule!AllAtoms : a[1] = "Na" =>
              (a \in K("Na") <=> a \in AtPlace("Na", Na3) \cup AtPlace("Na", End))
      BY <1>2, <2>1 DEF AtPlace
    <2>4. \A a \in Molecule!AllAtoms : a[1] = "Cl" =>
              (a \in K("Cl") <=> a \in AtPlace("Cl", Cl3) \cup AtPlace("Cl", End))
      BY <1>2, <2>1 DEF AtPlace
    <2> QED
      BY <2>2, <2>3, <2>4 DEF AtPlace
  <1>4. /\ AtPlace("Na", Na3) \cap AtPlace("Na", End) = {}
        /\ AtPlace("Cl", Cl3) \cap AtPlace("Cl", End) = {}
    BY SaltPlaces DEF AtPlace
  <1> HIDE DEF K
  <1>5. Cardinality(K("Na")) = nNa3 + nNaEnd /\ Cardinality(K("Cl")) = nCl3 + nClEnd
    BY <1>3, <1>4, DisjointUnion, PlacesCounted DEF nNa3, nNaEnd, nCl3, nClEnd, Num
  <1>6. (nNa3 + nNaEnd) - (nCl3 + nClEnd) \in -1 .. 1
    BY <1>1 DEF SaltInv, SaltNumbers
  <1> QED
    BY <1>5, <1>6, SameCardinality
    DEF InRecipeOrder, Molecule!InRecipeOrder, Molecule!MoleculesComplete, Molecule!Coupled, K

LEMMA AcidInOrder ==
    ASSUME MoleculeTypes, AcidInv, AcidOrder, phase = "H2SO4"
    PROVE  InRecipeOrder
  <1>1. /\ Molecule!Recipe = Acid /\ Molecule!Elements = {"H_", "S", "O_"}
        /\ \A a \in Molecule!AllAtoms : a[1] \in {"H_", "S", "O_"}
    <2>1. Molecule!Recipe = Acid
      BY DEF Molecule!Recipe, Acid
    <2>2. Molecule!Elements = {"H_", "S", "O_"}
      BY <2>1 DEF Molecule!Elements, Acid
    <2> QED
      BY <2>1, <2>2, AtomsFinite DEF Molecule!Phases
  <1>2. AcidNumbers
    BY NumbersTypes
  <1>3. Molecule!Cardinality(Molecule!AtCounter) <= 1
    <2> DEFINE X == AtPlace("H_", h1) \cup AtPlace("H_", h2)
               Y == AtPlace("O_", o1) \cup AtPlace("O_", o2)
    <2>1. Molecule!AtCounter \in SUBSET (X \cup Y)
      BY <1>1, CountersAt DEF AtPlace
    <2>2. IsFiniteSet(X) /\ Cardinality(X) \in Nat /\ Cardinality(X) <= nh1 + nh2
      BY UnionBound, PlacesCounted DEF nh1, nh2, Num
    <2>3. IsFiniteSet(Y) /\ Cardinality(Y) \in Nat /\ Cardinality(Y) <= no1 + no2
      BY UnionBound, PlacesCounted DEF no1, no2, Num
    <2> HIDE DEF X, Y
    <2>4. /\ Cardinality(Molecule!AtCounter) \in Nat
          /\ Cardinality(Molecule!AtCounter) <= Cardinality(X) + Cardinality(Y)
      BY <2>1, <2>2, <2>3, UnionBound
    <2>5. nh1 + nh2 + no1 + no2 <= 1
      BY <1>2 DEF AcidInv, AcidNumbers, open, made, left, nexth, nexto
    <2> QED
      BY <1>2, <2>2, <2>3, <2>4, <2>5, SameCardinality DEF AcidNumbers
  <1>4. Molecule!Order
    <2> DEFINE k == bh + bS + bo
    <2>1. k \in 0 .. Molecule!Cardinality(Molecule!Atoms)
      <3>1. /\ bh + bS + bo <= Molecule!Cardinality(Molecule!Atoms)
            /\ Molecule!Cardinality(Molecule!Atoms) \in Nat
        BY BegunAreAtoms DEF bh, bS, bo
      <3> QED
        BY <1>2, <3>1 DEF AcidNumbers
    <2>2. /\ Molecule!Begun("H_") = Needs(Acid, "H_", k)
          /\ Molecule!Begun("S") = Needs(Acid, "S", k)
          /\ Molecule!Begun("O_") = Needs(Acid, "O_", k)
      BY DEF AcidOrder, bh, bS, bo
    <2> HIDE DEF k
    <2>3. \A e \in Molecule!Elements : Molecule!Begun(e) = Needs(Molecule!Recipe, e, k)
      BY <1>1, <2>2
    <2>4. \A e : Needs(Molecule!Recipe, e, k) = Molecule!Cardinality(
              {j \in 0 .. k - 1 : Molecule!Recipe[(j % Len(Molecule!Recipe)) + 1] = e})
      BY SameCardinality DEF Needs
    <2> QED
      BY <2>1, <2>3, <2>4 DEF Molecule!Order
  <1>5. Molecule!MoleculesComplete
    <2> DEFINE X == AtPlace("H_", End) \cup AtPlace("S", End)
               Y == AtPlace("O_", End)
    <2>1. Molecule!Gone \in SUBSET (X \cup Y)
      BY <1>1 DEF Molecule!Gone, MoleculeTypes, AtPlace, End
    <2>2. IsFiniteSet(X) /\ Cardinality(X) \in Nat /\ Cardinality(X) <= nhEnd + nSEnd
      BY UnionBound, PlacesCounted DEF nhEnd, nSEnd, Num
    <2>3. IsFiniteSet(Y) /\ Cardinality(Y) = noEnd
      BY PlacesCounted DEF noEnd, Num
    <2> HIDE DEF X, Y
    <2>4. /\ Cardinality(Molecule!Gone) \in Nat
          /\ Cardinality(Molecule!Gone) <= Cardinality(X) + Cardinality(Y)
      BY <2>1, <2>2, <2>3, UnionBound
    <2>5. nhEnd + nSEnd + noEnd <= 7 * made /\ 4 * made <= bo /\ made \in Int
      BY <1>2 DEF AcidInv, AcidNumbers, open, made, left, nexth, nexto
    <2>6. made <= bo \div 4 /\ bo \div 4 \in Int
      <3>1. \A m \in Int, b \in Nat : 4 * m <= b => m <= b \div 4 /\ b \div 4 \in Int
        OBVIOUS
      <3> QED
        BY <1>2, <2>5, <3>1 DEF AcidNumbers
    <2>7. Cardinality(Molecule!Gone) <= 7 * (bo \div 4)
      BY <1>2, <2>2, <2>3, <2>4, <2>5, <2>6 DEF AcidNumbers
    <2>8. Len(Molecule!Recipe) = 7
      BY <1>1 DEF Acid
    <2> QED
      BY <2>7, <2>8, SameCardinality DEF Molecule!MoleculesComplete, bo
  <1> QED
    BY <1>3, <1>4, <1>5 DEF InRecipeOrder, Molecule!InRecipeOrder

------------------------------------------------------------------------------
(* The types.  Semaphores and counters of the other phases are not touched, and atoms that *)
(* have gone on are atoms of their element.                                *)

SemsOf ==
    [NaCl |-> {"na_sem", "cl_sem", "na_mutex", "cl_mutex"},
     H2O |-> {"h_sem", "o_sem", "h2o_mutex"},
     H2SO4 |-> {"h__sem", "o__sem", "s_sem", "h2_mutex", "s_mutex", "o_mutex"}]
CountsOf == [NaCl |-> {}, H2O |-> {"count_h"}, H2SO4 |-> {"count__h", "count_o"}]

OthersRest ==
    /\ \A s \in DOMAIN Molecule!Initial : s \notin SemsOf[phase] => m_sem[s] = Molecule!Initial[s]
    /\ \A c \in {"count_h", "count__h", "count_o"} : c \notin CountsOf[phase] => m_count[c] = 0

MainTypes ==
    /\ m_count = [c \in {"count_h", "count__h", "count_o"} |-> m_count[c]]
    /\ last \in m_created \cup {<<>>}
    /\ m_main \in {"creating", "joining", "next phase", "ended"}

\* An atom touches what its phase has.
LEMMA OwnCalls ==
    ASSUME MoleculeTypes, NEW a \in m_created, Molecule!AtomStep(a)
    PROVE  \E x, y, on, d : /\ Makes(a, x, on, d, y)
                            /\ on \in SemsOf[phase] \cup CountsOf[phase] \cup {"nothing"}
  <1>1. phase \in {"NaCl", "H2O", "H2SO4"}
    BY DEF MoleculeTypes, Molecule!Phases
  <1>2. CASE phase = "NaCl"
    <2>1. /\ SemsOf[phase] = {"na_sem", "cl_sem", "na_mutex", "cl_mutex"}
          /\ CountsOf[phase] = {}
      BY <1>2 DEF SemsOf, CountsOf
    <2> QED
      BY <1>2, <2>1, SaltSteps
  <1>3. CASE phase = "H2O"
    <2>1. SemsOf[phase] = {"h_sem", "o_sem", "h2o_mutex"} /\ CountsOf[phase] = {"count_h"}
      BY <1>3 DEF SemsOf, CountsOf
    <2> QED
      BY <1>3, <2>1, WaterSteps
  <1>4. CASE phase = "H2SO4"
    <2>1. /\ SemsOf[phase] = {"h__sem", "o__sem", "s_sem", "h2_mutex", "s_mutex", "o_mutex"}
          /\ CountsOf[phase] = {"count__h", "count_o"}
      BY <1>4 DEF SemsOf, CountsOf
    <2> QED
      BY <1>4, <2>1, AcidSteps
  <1> QED
    BY <1>1, <1>2, <1>3, <1>4

LEMMA OthersKept ==
    ASSUME MoleculeTypes, OthersRest, MainTypes, [Molecule!Next]_moleculeVars
    PROVE  OthersRest' /\ MainTypes'
  <1>1. CASE UNCHANGED moleculeVars
    BY <1>1 DEF moleculeVars, OthersRest, MainTypes
  <1>2. CASE Molecule!MainStep \/ Molecule!EndLater
    <2>1. UNCHANGED <<phase, m_sem, m_count>>
      BY <1>2 DEF Molecule!MainStep, Molecule!EndLater, Molecule!Create, Molecule!Join
    <2>2. OthersRest'
      BY <2>1 DEF OthersRest
    <2>3. MainTypes'
      BY <1>2, <2>1
      DEF MainTypes, Molecule!MainStep, Molecule!EndLater, Molecule!Create, Molecule!Join
    <2> QED
      BY <2>2, <2>3
  <1>3. ASSUME NEW a \in Molecule!Atoms, Molecule!AtomStep(a)
        PROVE  OthersRest' /\ MainTypes'
    <2>1. a \in m_created /\ UNCHANGED <<phase, m_created, last, m_main>>
      BY <1>3 DEF Molecule!AtomStep, Molecule!WaitStep, Molecule!PostStep,
                  Molecule!CountStep, Molecule!TestStep, Molecule!Doing
    <2>2. PICK x, y, on, d : /\ Makes(a, x, on, d, y)
                             /\ on \in SemsOf[phase] \cup CountsOf[phase] \cup {"nothing"}
      BY <1>3, <2>1, OwnCalls
    <2>3. /\ \A s \in DOMAIN Molecule!Initial : Called(s, m_sem[s], m_sem'[s], on, d)
          /\ \A c \in {"count_h", "count__h", "count_o"} :
                 Called(c, m_count[c], m_count'[c], on, d)
          /\ MoleculeTypes'
      BY <2>1, <2>2, Changes
    <2>4. phase \in {"NaCl", "H2O", "H2SO4"}
      BY DEF MoleculeTypes, Molecule!Phases
    <2>5. /\ \A s \in DOMAIN Molecule!Initial : s \notin CountsOf[phase] \cup {"nothing"}
          /\ \A c \in {"count_h", "count__h", "count_o"} : c \notin SemsOf[phase] \cup {"nothing"}
      BY <2>4, SemaphoreNames DEF SemsOf, CountsOf
    <2>6. OthersRest'
      <3>1. ASSUME NEW s \in DOMAIN Molecule!Initial, s \notin SemsOf[phase]
            PROVE  m_sem'[s] = m_sem[s]
        BY <2>2, <2>3, <2>5, <3>1 DEF Called
      <3>2. ASSUME NEW c \in {"count_h", "count__h", "count_o"}, c \notin CountsOf[phase]
            PROVE  m_count'[c] = m_count[c]
        BY <2>2, <2>3, <2>5, <3>2 DEF Called
      <3> QED
        BY <2>1, <3>1, <3>2 DEF OthersRest
    <2>7. m_count' = [c \in {"count_h", "count__h", "count_o"} |-> m_count'[c]]
      BY <2>3 DEF MoleculeTypes
    <2> QED
      BY <2>1, <2>6, <2>7 DEF MainTypes
  <1> QED
    BY <1>1, <1>2, <1>3 DEF Molecule!Next

\* How many atoms an element has: as often as the recipe has it for each molecule.
LEMMA Pieces ==
    /\ Cardinality(1 .. 1) = 1 /\ Cardinality(1 .. 2) = 2 /\ Cardinality(2 .. 2) = 1
    /\ Cardinality(3 .. 3) = 1 /\ Cardinality(4 .. 7) = 4
  <1>1. ASSUME NEW i \in Int, NEW j \in Int, i <= j PROVE Cardinality(i .. j) = j - i + 1
    BY <1>1, FS_Interval
  <1>2. /\ 1 \in Int /\ 2 \in Int /\ 3 \in Int /\ 4 \in Int /\ 7 \in Int
        /\ 1 <= 1 /\ 1 <= 2 /\ 2 <= 2 /\ 3 <= 3 /\ 4 <= 7
    OBVIOUS
  <1>3. /\ Cardinality(1 .. 1) = 1 - 1 + 1 /\ Cardinality(1 .. 2) = 2 - 1 + 1
        /\ Cardinality(2 .. 2) = 2 - 2 + 1 /\ Cardinality(3 .. 3) = 3 - 3 + 1
        /\ Cardinality(4 .. 7) = 7 - 4 + 1
    BY <1>1, <1>2, Zenon
  <1> QED
    BY <1>3

LEMMA AmountOf ==
    /\ phase = "NaCl" => /\ Molecule!HowMany("Na") = Amount[phase]
                         /\ Molecule!HowMany("Cl") = Amount[phase]
    /\ phase = "H2O" => /\ Molecule!HowMany("H") = 2 * Amount[phase]
                        /\ Molecule!HowMany("O") = Amount[phase]
    /\ phase = "H2SO4" => /\ Molecule!HowMany("H_") = 2 * Amount[phase]
                          /\ Molecule!HowMany("S") = Amount[phase]
                          /\ Molecule!HowMany("O_") = 4 * Amount[phase]
    /\ phase \in Molecule!Phases => Amount[phase] \in Nat
  <1> DEFINE J(e) == {j \in DOMAIN Molecule!Recipe : Molecule!Recipe[j] = e}
  <1>1. \A e : Molecule!HowMany(e) = Amount[phase] * Cardinality(J(e))
    BY SameCardinality DEF Molecule!HowMany
  <1>2. phase \in Molecule!Phases => Amount[phase] \in Nat
    BY AmountAssumption DEF Molecule!Phases
  <1>3. ASSUME phase = "NaCl"
        PROVE  Cardinality(J("Na")) = 1 /\ Cardinality(J("Cl")) = 1
    <2>1. J("Na") = 1 .. 1 /\ J("Cl") = 2 .. 2
      BY <1>3 DEF Molecule!Recipe
    <2> HIDE DEF J
    <2> QED
      BY <2>1, Pieces
  <1>4. ASSUME phase = "H2O"
        PROVE  Cardinality(J("H")) = 2 /\ Cardinality(J("O")) = 1
    <2>1. J("H") = 1 .. 2 /\ J("O") = 3 .. 3
      BY <1>4 DEF Molecule!Recipe
    <2> HIDE DEF J
    <2> QED
      BY <2>1, Pieces
  <1>5. ASSUME phase = "H2SO4"
        PROVE  /\ Cardinality(J("H_")) = 2 /\ Cardinality(J("S")) = 1
               /\ Cardinality(J("O_")) = 4
    <2>1. Molecule!Recipe = Acid
      BY <1>5 DEF Molecule!Recipe, Acid
    <2>2. J("H_") = 1 .. 2 /\ J("S") = 3 .. 3 /\ J("O_") = 4 .. 7
      BY <2>1 DEF Acid
    <2> HIDE DEF J
    <2> QED
      BY <2>2, Pieces
  <1> HIDE DEF J
  <1>6. \A n : n \in Nat => n * 1 = n /\ n * 2 = 2 * n /\ n * 4 = 4 * n
    OBVIOUS
  <1>7. phase \in {"NaCl", "H2O", "H2SO4"} => Amount[phase] \in Nat
    BY <1>2 DEF Molecule!Phases
  <1> DEFINE n == Amount[phase]
  <1> HIDE DEF n
  <1>8. /\ \A e : Molecule!HowMany(e) = n * Cardinality(J(e))
        /\ phase \in {"NaCl", "H2O", "H2SO4"} => n \in Nat
    BY <1>1, <1>7 DEF n
  <1>9. /\ phase = "NaCl" => Molecule!HowMany("Na") = n /\ Molecule!HowMany("Cl") = n
        /\ phase = "H2O" => Molecule!HowMany("H") = 2 * n /\ Molecule!HowMany("O") = n
        /\ phase = "H2SO4" => /\ Molecule!HowMany("H_") = 2 * n /\ Molecule!HowMany("S") = n
                              /\ Molecule!HowMany("O_") = 4 * n
    BY <1>3, <1>4, <1>5, <1>6, <1>8
  <1> QED
    BY <1>2, <1>9 DEF n

\* No more atoms of an element are anywhere, or have begun, than there are of it.
LEMMA AtMostAll ==
    ASSUME MoleculeTypes, NEW e, Molecule!HowMany(e) \in Nat
    PROVE  /\ Molecule!Begun(e) <= Molecule!HowMany(e)
           /\ \A x : Num(e, x) <= Molecule!HowMany(e)
  <1> DEFINE h == Molecule!HowMany(e)
             E == {e} \X (1 .. h)
             B == {b \in m_created : b[1] = e /\ todo[b] # Molecule!Code[e]}
  <1>1. IsFiniteSet(E) /\ Cardinality(E) = h
    <2>1. h \in Nat /\ 1 \in Int /\ h \in Int
      OBVIOUS
    <2> HIDE DEF h
    <2>2. IsFiniteSet(1 .. h) /\ Cardinality(1 .. h) = h
      BY <2>1, FS_Interval
    <2>3. IsFiniteSet({e}) /\ Cardinality({e}) = 1
      BY FS_Singleton
    <2>4. IsFiniteSet(E) /\ Cardinality(E) = Cardinality({e}) * Cardinality(1 .. h)
      BY <2>2, <2>3, FS_Product
    <2> QED
      BY <2>1, <2>2, <2>3, <2>4
  <1>2. \A a \in Molecule!AllAtoms : a[1] = e => a \in E
    BY DEF Molecule!AllAtoms
  <1> HIDE DEF h, E
  <1>3. ASSUME NEW x PROVE Num(e, x) <= h
    <2>1. AtPlace(e, x) \in SUBSET E
      BY <1>2 DEF AtPlace
    <2> QED
      BY <1>1, <2>1, FS_Subset DEF Num
  <1>4. Molecule!Begun(e) <= h
    <2>1. B \in SUBSET E
      BY <1>2 DEF MoleculeTypes
    <2> HIDE DEF B
    <2>2. Cardinality(B) <= h
      BY <1>1, <2>1, FS_Subset
    <2> QED
      BY <2>2, SameCardinality DEF B, Molecule!Begun
  <1> QED
    BY <1>3, <1>4 DEF h

\* What a value of the type is.
Bounded(s, v) ==
    /\ s \in Molecule!Binary => v \in 0 .. 1
    /\ s \notin Molecule!Binary => v \in 0 .. 3 * Amount[phase] + 2

LEMMA RestBounded ==
    ASSUME MoleculeTypes, OthersRest, NEW s \in DOMAIN Molecule!Initial, s \notin SemsOf[phase]
    PROVE  Bounded(s, m_sem[s])
  <1>1. m_sem[s] = Molecule!Initial[s]
    BY DEF OthersRest
  <1>2. Molecule!Initial[s] \in 0 .. 1 \/ (s = "h2o_mutex" /\ Molecule!Initial[s] = 2)
    BY SemaphoreNames DEF Molecule!Initial
  <1>3. Amount[phase] \in Nat
    BY AmountOf DEF MoleculeTypes
  <1>4. "h2o_mutex" \notin Molecule!Binary
    BY DEF Molecule!Binary
  <1> QED
    BY <1>1, <1>2, <1>3, <1>4 DEF Bounded

\* The semaphores of a turn are never above 1, and the others have no more posts than
\* there are atoms to wait for them.
LEMMA SaltTypes ==
    ASSUME MoleculeTypes, SaltInv, phase = "NaCl", NEW s \in SemsOf[phase]
    PROVE  Bounded(s, m_sem[s])
  <1> DEFINE n == Amount[phase]
  <1>1. n \in Nat /\ Molecule!HowMany("Na") = n /\ Molecule!HowMany("Cl") = n
    BY AmountOf DEF MoleculeTypes
  <1>2. nNaEnd <= n /\ nClEnd <= n
    BY <1>1, AtMostAll DEF nNaEnd, nClEnd
  <1>3. SaltNumbers
    BY NumbersTypes
  <1> HIDE DEF n
  <1>4. /\ na_mutex \in 0 .. 1 /\ cl_mutex \in 0 .. 1
        /\ na_sem \in 0 .. 3 * n + 2 /\ cl_sem \in 0 .. 3 * n + 2
    BY <1>1, <1>2, <1>3 DEF SaltInv, SaltNumbers
  <1>5. s \in {"na_sem", "cl_sem", "na_mutex", "cl_mutex"}
    BY DEF SemsOf
  <1> QED
    BY <1>4, <1>5 DEF Bounded, Molecule!Binary, n, na_mutex, cl_mutex, na_sem, cl_sem

LEMMA WaterTypes ==
    ASSUME MoleculeTypes, WaterInv, phase = "H2O"
    PROVE  /\ \A s \in SemsOf[phase] : Bounded(s, m_sem[s])
           /\ count_h \in 0 .. 4 * Amount[phase]
  <1> DEFINE n == Amount[phase]
  <1>1. n \in Nat /\ Molecule!HowMany("H") = 2 * n /\ Molecule!HowMany("O") = n
    BY AmountOf DEF MoleculeTypes
  <1>2. bH <= 2 * n /\ bO <= n
    BY <1>1, AtMostAll DEF bH, bO
  <1>3. WaterNumbers
    BY NumbersTypes
  <1> HIDE DEF n
  <1>4. /\ h_sem \in 0 .. 1 /\ o_sem \in 0 .. 1 /\ h2o_mutex \in 0 .. 3 * n + 2
        /\ count_h \in 0 .. 4 * n
    BY <1>1, <1>2, <1>3 DEF WaterInv, WaterNumbers
  <1>5. SemsOf[phase] = {"h_sem", "o_sem", "h2o_mutex"}
    BY DEF SemsOf
  <1> QED
    BY <1>4, <1>5 DEF Bounded, Molecule!Binary, n, h_sem, o_sem, h2o_mutex

LEMMA AcidTypes ==
    ASSUME MoleculeTypes, AcidInv, phase = "H2SO4"
    PROVE  /\ \A s \in SemsOf[phase] : Bounded(s, m_sem[s])
           /\ count__h \in 0 .. 4 * Amount[phase] /\ count_o \in 0 .. 4 * Amount[phase]
  <1> DEFINE n == Amount[phase]
  <1>1. /\ n \in Nat /\ Molecule!HowMany("H_") = 2 * n /\ Molecule!HowMany("S") = n
        /\ Molecule!HowMany("O_") = 4 * n
    BY AmountOf DEF MoleculeTypes
  <1>2. bh <= 2 * n /\ bS <= n /\ bo <= 4 * n
    BY <1>1, AtMostAll DEF bh, bS, bo
  <1>3. AcidNumbers
    BY NumbersTypes
  <1> HIDE DEF n
  <1>4. h__sem \in 0 .. 1 /\ s_sem \in 0 .. 1 /\ o__sem \in 0 .. 1
    BY <1>3 DEF AcidInv, AcidNumbers, open, left
  <1>5. h2_mutex \in 0 .. 3 * n + 2 /\ s_mutex \in 0 .. 3 * n + 2
    BY <1>1, <1>2, <1>3 DEF AcidInv, AcidNumbers, open, made
  <1>6. o_mutex \in 0 .. 3 * n + 2
    BY <1>1, <1>2, <1>3 DEF AcidInv, AcidNumbers, open, made, left
  <1>7. count__h \in 0 .. 4 * n /\ count_o \in 0 .. 4 * n
    BY <1>1, <1>2, <1>3 DEF AcidInv, AcidNumbers
  <1>8. SemsOf[phase] = {"h__sem", "o__sem", "s_sem", "h2_mutex", "s_mutex", "o_mutex"}
    BY DEF SemsOf
  <1> QED
    BY <1>4, <1>5, <1>6, <1>7, <1>8
    DEF Bounded, Molecule!Binary, n, h__sem, s_sem, o__sem, h2_mutex, s_mutex, o_mutex

LEMMA MoleculesTyped ==
    ASSUME MoleculeInv, OthersRest, MainTypes
    PROVE  Molecule!TypeOK
  <1>1. /\ MoleculeTypes /\ phase \in {"NaCl", "H2O", "H2SO4"} /\ Amount[phase] \in Nat
        /\ Molecule!Atoms = Molecule!AllAtoms
    BY AmountOf DEF MoleculeInv, MoleculeTypes, Molecule!Phases, Molecule!Atoms
  <1>2. ASSUME NEW s \in DOMAIN Molecule!Initial PROVE Bounded(s, m_sem[s])
    <2>1. CASE s \notin SemsOf[phase]
      BY <1>1, <2>1, RestBounded
    <2>2. CASE s \in SemsOf[phase]
      BY <1>1, <2>2, SaltTypes, WaterTypes, AcidTypes DEF MoleculeInv
    <2> QED
      BY <2>1, <2>2
  <1>3. ASSUME NEW c \in {"count_h", "count__h", "count_o"}
        PROVE  m_count[c] \in 0 .. 4 * Amount[phase]
    <2>1. CASE c \notin CountsOf[phase]
      BY <1>1, <2>1 DEF OthersRest
    <2>2. CASE c \in CountsOf[phase]
      <3>1. \/ phase = "H2O" /\ c = "count_h"
            \/ phase = "H2SO4" /\ c \in {"count__h", "count_o"}
        BY <1>1, <2>2 DEF CountsOf
      <3> QED
        BY <1>1, <3>1, WaterTypes, AcidTypes DEF MoleculeInv, count_h, count__h, count_o
    <2> QED
      BY <2>1, <2>2
  <1>4. ASSUME NEW s \in DOMAIN Molecule!Initial
        PROVE  m_sem[s] \in 0 .. IF s \in Molecule!Binary THEN 1 ELSE 3 * Amount[phase] + 2
    BY <1>2 DEF Bounded
  <1>5. DOMAIN m_count = {"count_h", "count__h", "count_o"}
    BY DEF MainTypes
  <1> QED
    BY <1>1, <1>3, <1>4, <1>5 DEF Molecule!TypeOK, MainTypes, MoleculeTypes, Molecule!Phases

\* The program of the molecules alone; it starts with no atom in any of its phases.
MoleculeSpec == Molecule!Init /\ [][Molecule!Next]_moleculeVars

\* However many molecules, and in whatever order main creates their atoms: the atoms of
\* l8_ex6.c have their turns in the order of the recipe and go with their molecule.  The runs
\* of MCSpec are those of some of these atoms, of H2SO4 from when all but one exist.
THEOREM AtomsInRecipeOrder == MoleculeSpec \/ MCSpec => []InRecipeOrder
  <1>1. MoleculeInv => InRecipeOrder
    <2>1. MoleculeInv => phase \in {"NaCl", "H2O", "H2SO4"}
      BY DEF MoleculeInv, MoleculeTypes, Molecule!Phases
    <2> QED
      BY <2>1, SaltCoupled, WaterInOrder, AcidInOrder DEF MoleculeInv
  <1>2. Molecule!Init => MoleculeInv
    BY MoleculeInit DEF Molecule!Init, Molecule!NothingCreated
  <1>3. MCInit => MoleculeInv
    BY MoleculeInit DEF MCInit, Molecule!Phases, Molecule!NothingCreated, AllButOne
  <1>4. [MCNext]_allVars => [Molecule!Next]_moleculeVars
    BY DEF MCNext, MCMain, MCController, MCPerson, MCAtom, MCEnd, MCStreet, Molecule!Next, allVars
  <1>5. MoleculeInv /\ [Molecule!Next]_moleculeVars => MoleculeInv'
    BY MoleculeNext
  <1> QED
    BY <1>1, <1>2, <1>3, <1>4, <1>5, PTL DEF MoleculeSpec, MCSpec
------------------------------------------------------------------------------
(* The types of the three programs.                                        *)

TypesInv ==
    /\ IInv
    /\ MoleculeInv /\ OthersRest /\ MainTypes
    /\ StreetInv /\ s_created \in 0 .. 3

LEMMA InitTypesInv == ASSUME MCInit, Amount["H2SO4"] > 0 PROVE TypesInv
  <1>1. IInv
    BY InitIInv DEF MCInit
  <1>2. StreetInv /\ s_created \in 0 .. 3
    BY StreetInit
  <1>3. phase \in Molecule!Phases /\ Molecule!InitialPhase
    BY DEF MCInit, Molecule!Phases
  <1>4. m_created \subseteq Molecule!Atoms /\ last \in m_created \cup {<<>>}
    <2>1. CASE phase # "H2SO4"
      BY <2>1 DEF MCInit, Molecule!NothingCreated
    <2>2. CASE phase = "H2SO4"
      <3>1. PICK a \in LastOnes : /\ m_created = Molecule!Atoms \ {a}
                                  /\ last = <<"O_", 4 * Amount["H2SO4"] - 1>>
        BY <2>2 DEF MCInit, AllButOne
      <3>2. Amount[phase] \in Nat /\ Amount[phase] > 0 /\ Molecule!HowMany("O_") = 4 * Amount[phase]
        BY <2>2, <1>3, AmountOf
      <3>3. PICK e \in Molecule!Elements : a = <<e, Molecule!HowMany(e)>>
        BY <3>1 DEF LastOnes
      <3>4. last # a
        <4>1. last = a => e = "O_" /\ Molecule!HowMany(e) = 4 * Amount[phase] - 1
          BY <2>2, <3>1, <3>3
        <4> QED
          BY <3>2, <4>1
      <3>5. last \in Molecule!AllAtoms
        <4>1. "O_" \in Molecule!Elements
          <5>1. Molecule!Recipe = Acid
            BY <2>2 DEF Molecule!Recipe, Acid
          <5>2. 4 \in DOMAIN Acid /\ Acid[4] = "O_"
            BY DEF Acid
          <5> QED
            BY <5>1, <5>2 DEF Molecule!Elements
        <4>2. 4 * Amount[phase] - 1 \in 1 .. Molecule!HowMany("O_")
          BY <3>2
        <4> QED
          BY <2>2, <3>1, <4>1, <4>2 DEF Molecule!AllAtoms
      <3>6. Molecule!Atoms = Molecule!AllAtoms
        BY <1>3 DEF Molecule!InitialPhase, Molecule!Atoms
      <3> QED
        BY <3>1, <3>4, <3>5, <3>6
    <2> QED
      BY <2>1, <2>2
  <1>5. MoleculeInv
    BY <1>3, <1>4, MoleculeInit
  <1>6. OthersRest /\ MainTypes
    BY <1>3, <1>4 DEF Molecule!InitialPhase, OthersRest, MainTypes
  <1> QED
    BY <1>1, <1>2, <1>5, <1>6 DEF TypesInv

LEMMA NextTypesInv == ASSUME TypesInv, [MCNext]_allVars PROVE TypesInv'
  <1>1. [Next]_vars
    BY DEF MCNext, MCMain, MCController, MCPerson, MCAtom, MCEnd, MCStreet, allVars, Next
  <1>2. [Molecule!Next]_moleculeVars
    BY DEF MCNext, MCMain, MCController, MCPerson, MCAtom, MCEnd, MCStreet, Molecule!Next, allVars
  <1>3. IInv'
    BY <1>1, NextIInv DEF TypesInv
  <1>4. MoleculeInv' /\ OthersRest' /\ MainTypes'
    BY <1>2, MoleculeNext, OthersKept DEF TypesInv, MoleculeInv
  <1>5. [Street!Next]_streetVars
    BY DEF MCNext, MCMain, MCController, MCPerson, MCAtom, MCEnd, MCStreet, allVars, streetVars
  <1>6. StreetInv' /\ s_created' \in 0 .. 3
    BY <1>5, StreetNext DEF TypesInv
  <1> QED
    BY <1>3, <1>4, <1>6 DEF TypesInv

\* No semaphore of l8_ex6.c that stands for a turn is ever above 1, and none of the others,
\* nor of the room or the light, is posted more often than there are threads to wait for it;
\* nothing in the code bounds them.  (There is a molecule of H2SO4, as its runs start when
\* there are atoms of it.)
THEOREM SemaphoresTypeCorrect == Amount["H2SO4"] > 0 /\ MCSpec => []MCTypeOK
  <1>1. TypesInv => MCTypeOK
    <2> SUFFICES ASSUME TypesInv PROVE MCTypeOK
      OBVIOUS
    <2>1. TypeOK
      BY IInvTypes DEF TypesInv
    <2>2. Molecule!TypeOK
      BY MoleculesTyped DEF TypesInv
    <2>3. Street!TypeOK
      BY TokensAreBits DEF TypesInv, StreetInv, StreetTypes, OneToken, Bit, Street!TypeOK
    <2> QED
      BY <2>1, <2>2, <2>3 DEF MCTypeOK
  <1>2. Amount["H2SO4"] > 0 /\ MCInit => TypesInv
    BY InitTypesInv
  <1>3. TypesInv /\ [MCNext]_allVars => TypesInv'
    BY NextTypesInv
  <1> QED
    BY <1>1, <1>2, <1>3, PTL DEF MCSpec
==============================================================================
