---------------------------- MODULE MCBoat_proofs ----------------------------
(***************************************************************************)
(* Proofs about BoatTransport, for every number of passengers that main    *)
(* accepts and every mix of kinds: every departure carries NO_SEATS        *)
(* passengers although the boat tests its load without the mutex, nobody   *)
(* sleeps on the shore beside a boat that will not leave, and nobody is    *)
(* lost or carried twice.  The same of the two parts that MCBoat runs.     *)
(***************************************************************************)
EXTENDS MCBoat, FiniteSetTheorems, TLAPS

Types ==
    /\ mutex \in Passengers \cup {Nobody}
    /\ mutex_instantiated \in Passengers \cup {Nobody}
    /\ cond \in SUBSET Passengers
    /\ cond2 \in SUBSET Passengers
    /\ cond_instantiated \in SUBSET Passengers
    /\ all_instantiated \in BOOLEAN
    /\ count \in Nat
    /\ waiting \in [Kinds -> Nat]
    /\ aboard \in [Kinds -> Nat]
    /\ kind \in [Passengers -> Kinds]
    /\ pc \in [Passengers -> Places]
    /\ boat \in BoatPlaces
    /\ main \in {"running", "done"}

\* The load that the boat has seen is there until it leaves: passengers only get in.
Loaded == boat = "load" => Seated >= NO_SEATS

Arrived == {t \in Passengers : pc[t] \notin {"new", "gather", "arrive"}}

\* The boat is created last, and leaves for good when nobody waits.
Order ==
    /\ count = Cardinality(Arrived)
    /\ boat # "new" => \A t \in Passengers : pc[t] # "new"
    /\ boat = "done" => NobodyLeft

\* The inductive invariant.
IInv == Types /\ Loaded /\ NoStrandedPassenger /\ Conservation /\ Order
------------------------------------------------------------------------------
(* Counting.                                                               *)

LEMMA KindsAre == "MISSIONARY" \in Kinds /\ "CANNIBAL" \in Kinds /\ Kinds = {"MISSIONARY", "CANNIBAL"}
  BY DEF Kinds

LEMMA CountPassengers ==
    ASSUME NEW S \in SUBSET Passengers
    PROVE  IsFiniteSet(S) /\ Cardinality(S) \in 0 .. n /\ n \in Nat
  BY BoatAssumption, FS_Subset, FS_CardinalityType DEF n

LEMMA Sets == \A k \in Kinds :
    /\ Ashore(k) \in SUBSET Passengers
    /\ IsFiniteSet(Ashore(k)) /\ Cardinality(Ashore(k)) \in Nat
  <1> SUFFICES ASSUME NEW k \in Kinds PROVE /\ Ashore(k) \in SUBSET Passengers
                                            /\ IsFiniteSet(Ashore(k))
                                            /\ Cardinality(Ashore(k)) \in Nat
    OBVIOUS
  <1>1. Ashore(k) \in SUBSET Passengers
    BY DEF Ashore
  <1> QED
    BY <1>1, CountPassengers

\* Cannibals take the seats first, and the boat takes NO_SEATS of those aboard.
LEMMA LoadOf ==
    ASSUME Types
    PROVE  /\ Load \in [Kinds -> Nat]
           /\ \A k \in Kinds : Load[k] <= aboard[k]
           /\ Seated >= NO_SEATS => Load["MISSIONARY"] + Load["CANNIBAL"] = NO_SEATS
  <1>1. aboard["MISSIONARY"] \in Nat /\ aboard["CANNIBAL"] \in Nat
    BY KindsAre DEF Types
  <1> DEFINE c == IF aboard["CANNIBAL"] < NO_SEATS THEN aboard["CANNIBAL"] ELSE NO_SEATS
             r == NO_SEATS - c
             w == IF aboard["MISSIONARY"] < r THEN aboard["MISSIONARY"] ELSE r
  <1>2. /\ Load = [k \in Kinds |-> IF k = "CANNIBAL" THEN c ELSE w]
        /\ c \in Nat /\ w \in Nat /\ c <= aboard["CANNIBAL"] /\ w <= aboard["MISSIONARY"]
        /\ Seated >= NO_SEATS => w + c = NO_SEATS
    BY <1>1 DEF Load, NO_SEATS, Seated
  <1> HIDE DEF c, w
  <1> QED
    BY <1>2, KindsAre
------------------------------------------------------------------------------
LEMMA InitIInv == Init => IInv
  <1> SUFFICES ASSUME Init PROVE IInv
    OBVIOUS
  <1>1. Types
    BY DEF Init, Types, Kinds, Places, BoatPlaces
  <1>2. Arrived = {} /\ \A k \in Kinds : Ashore(k) = {}
    BY DEF Init, Arrived, Ashore
  <1>3. Cardinality({}) = 0
    BY FS_EmptySet
  <1>4. Conservation /\ Order
    BY <1>2, <1>3 DEF Init, Conservation, Order
  <1>5. Loaded /\ NoStrandedPassenger
    BY DEF Init, Loaded, NoStrandedPassenger
  <1> QED
    BY <1>1, <1>4, <1>5 DEF IInv

\* Whoever stays on the shore is still counted there.
LEMMA StaysAshore ==
    ASSUME Types, NEW t \in Passengers, NEW to \in Places,
           pc[t] \notin {"new", "done"}, to \notin {"new", "done"},
           pc' = [pc EXCEPT ![t] = to], kind' = kind
    PROVE  \A k \in Kinds : Ashore(k)' = Ashore(k)
  BY DEF Types, Ashore

LEMMA StartStepInv == ASSUME IInv, NEW t \in Passengers, StartStep(t) PROVE IInv'
  <1>1. UNCHANGED <<boarding, kind, boat, main>>
    BY DEF StartStep
  <1>2. PICK to \in {"arrive", "test", "drowsy", "asleep", "board"} :
           pc' = [pc EXCEPT ![t] = to]
    BY DEF StartStep, Gather, Arrive, TestStart, Sleep, Awake, PassStart, Move
  <1>3. pc[t] \in {"gather", "arrive", "test", "drowsy", "asleep"}
    BY DEF StartStep, Gather, Arrive, TestStart, Sleep, Awake, PassStart, Move
  <1>4. /\ mutex_instantiated' \in Passengers \cup {Nobody}
        /\ cond_instantiated' \in SUBSET Passengers /\ all_instantiated' = all_instantiated
    BY DEF StartStep, Gather, Arrive, TestStart, Sleep, Awake, PassStart, Lock, Unlock, CondWait,
           start, IInv, Types
  <1>5. count' = Cardinality(Arrived') /\ count' \in Nat
    <2>1. CASE pc[t] = "arrive"
      <3>1. count' = count + 1 /\ to = "test"
        BY <1>2, <2>1 DEF StartStep, Gather, Arrive, TestStart, Sleep, Awake, PassStart, Move, IInv,
                          Types
      <3>2. t \notin Arrived /\ Arrived' = Arrived \cup {t}
        BY <1>2, <2>1, <3>1 DEF IInv, Types, Arrived
      <3>3. Arrived \in SUBSET Passengers
        BY DEF Arrived
      <3> QED
        BY <3>1, <3>2, <3>3, CountPassengers, FS_AddElement DEF IInv, Order
    <2>2. CASE pc[t] # "arrive"
      <3>1. count' = count /\ (to = "arrive" <=> pc[t] = "gather")
        BY <1>2, <2>2 DEF StartStep, Gather, Arrive, TestStart, Sleep, Awake, PassStart, Move, IInv,
                          Types, start
      <3>2. Arrived' = Arrived
        BY <1>2, <1>3, <2>2, <3>1 DEF IInv, Types, Arrived
      <3> QED
        BY <3>1, <3>2 DEF IInv, Types, Order
    <2> QED
      BY <2>1, <2>2
  <1>6. Types'
    BY <1>1, <1>2, <1>4, <1>5 DEF IInv, Types, Places, boarding
  <1>7. \A k \in Kinds : Ashore(k)' = Ashore(k)
    BY <1>1, <1>2, <1>3, StaysAshore DEF IInv, Places
  <1>8. Conservation'
    BY <1>1, <1>7 DEF IInv, Conservation, boarding
  <1>9. Order'
    BY <1>1, <1>2, <1>5 DEF IInv, Types, Order, boarding, NobodyLeft
  <1>10. Loaded' /\ NoStrandedPassenger'
    BY <1>1 DEF IInv, Loaded, NoStrandedPassenger, boarding, Seated
  <1> QED
    BY <1>6, <1>8, <1>9, <1>10 DEF IInv

\* Passengers wait to board only beside a full load, and who gets in leaves the shore.
LEMMA BoardingStepInv == ASSUME IInv, NEW t \in Passengers, BoardingStep(t) PROVE IInv'
  <1>1. UNCHANGED <<start, kind, boat, main>>
    BY DEF BoardingStep
  <1>2. /\ aboard["MISSIONARY"] \in Nat /\ aboard["CANNIBAL"] \in Nat
        /\ kind[t] \in Kinds /\ waiting \in [Kinds -> Nat]
    BY KindsAre DEF IInv, Types
  <1>3. CASE LockToBoard(t) \/ WakeUp(t) \/ Queue(t)
    <2>1. /\ pc[t] \in {"board", "guard", "queue"} /\ UNCHANGED <<waiting, aboard>>
          /\ mutex' \in Passengers \cup {Nobody}
      BY <1>3 DEF LockToBoard, WakeUp, Queue, Move, Lock, CondWait, Unlock
    <2>2. PICK to \in {"guard", "queue"} : pc' = [pc EXCEPT ![t] = to]
      BY <1>3 DEF LockToBoard, WakeUp, Queue, Move
    <2>3. Arrived' = Arrived
      BY <2>1, <2>2 DEF IInv, Types, Arrived
    <2>4. /\ cond' \in SUBSET Passengers /\ cond2' \in SUBSET Passengers
          /\ (cond' # cond \/ cond2' # cond2) => MustWait(t)
      BY <1>3 DEF LockToBoard, WakeUp, Queue, CondWait, IInv, Types
    <2>5. MustWait(t) => Seated >= NO_SEATS
      BY <1>2 DEF MustWait, MissionaryMustWait, CannibalMustWait, Seated, NO_SEATS
    <2>6. NoStrandedPassenger'
      BY <1>1, <2>1, <2>4, <2>5 DEF IInv, NoStrandedPassenger, Seated
    <2>7. Types'
      BY <1>1, <2>1, <2>2, <2>4 DEF IInv, Types, Places, start
    <2>8. \A k \in Kinds : Ashore(k)' = Ashore(k)
      BY <1>1, <2>1, <2>2, StaysAshore DEF IInv, Places
    <2> QED
      BY <1>1, <2>1, <2>2, <2>3, <2>6, <2>7, <2>8
      DEF IInv, Types, Loaded, Conservation, Order, start, NobodyLeft, Seated
  <1>4. CASE GetIn(t)
    <2>1. /\ pc[t] = "guard" /\ pc' = [pc EXCEPT ![t] = "done"] /\ mutex' = Nobody
          /\ aboard' = [aboard EXCEPT ![kind[t]] = @ + 1] /\ UNCHANGED <<cond, cond2, waiting>>
      BY <1>4 DEF GetIn, Move, Unlock
    <2>2. Types'
      BY <1>1, <1>2, <2>1 DEF IInv, Types, Places, start
    <2>3. Seated' = Seated + 1 /\ Seated \in Nat
      BY <1>2, <2>1, KindsAre DEF Seated, IInv, Types
    <2>4. Loaded' /\ NoStrandedPassenger'
      BY <1>1, <2>1, <2>3 DEF IInv, Loaded, NoStrandedPassenger, NO_SEATS
    <2>5. Arrived' = Arrived
      BY <2>1 DEF IInv, Types, Arrived
    <2>6. Order'
      BY <1>1, <2>1, <2>5 DEF IInv, Types, Order, start, NobodyLeft
    <2>7. Conservation'
      <3> SUFFICES ASSUME NEW k \in Kinds
                   PROVE  waiting[k] = Cardinality(Ashore(k)') + aboard'[k]
        BY <2>1 DEF Conservation
      <3>1. waiting[k] = Cardinality(Ashore(k)) + aboard[k] /\ aboard[k] \in Nat
        BY DEF IInv, Types, Conservation
      <3>2. CASE k = kind[t]
        <4>1. t \in Ashore(k) /\ Ashore(k)' = Ashore(k) \ {t}
          BY <1>1, <2>1, <3>2 DEF IInv, Types, Ashore
        <4>2. Cardinality(Ashore(k)') = Cardinality(Ashore(k)) - 1
          BY <4>1, Sets, FS_RemoveElement
        <4>3. aboard'[k] = aboard[k] + 1
          BY <1>2, <2>1, <3>2 DEF IInv, Types
        <4> QED
          BY <3>1, <4>2, <4>3, Sets
      <3>3. CASE k # kind[t]
        <4>1. Ashore(k)' = Ashore(k) /\ aboard'[k] = aboard[k]
          BY <1>1, <1>2, <2>1, <3>3 DEF IInv, Types, Ashore
        <4> QED
          BY <3>1, <4>1
      <3> QED
        BY <3>2, <3>3
    <2> QED
      BY <2>2, <2>4, <2>6, <2>7 DEF IInv
  <1> QED
    BY <1>3, <1>4 DEF BoardingStep
------------------------------------------------------------------------------
\* What changes neither a passenger's place nor the two counters.
LEMMA KeepsCounts ==
    ASSUME IInv, UNCHANGED <<pc, kind, waiting, aboard>>
    PROVE  Conservation' /\ Arrived' = Arrived /\ Seated' = Seated /\ NobodyLeft' = NobodyLeft
  <1>1. \A k \in Kinds : Ashore(k)' = Ashore(k)
    BY DEF Ashore
  <1> QED
    BY <1>1 DEF IInv, Conservation, Arrived, Seated, NobodyLeft

\* A spurious wakeup only takes sleepers away.
LEMMA SpuriousInv == ASSUME IInv, Spurious PROVE IInv'
  <1>1. /\ cond' \in SUBSET cond /\ cond2' \in SUBSET cond2
        /\ cond_instantiated' \in SUBSET cond_instantiated
        /\ UNCHANGED <<mutex, mutex_instantiated, all_instantiated, count, waiting, aboard, kind,
                       pc, boat, main>>
    BY DEF Spurious, SpuriousWakeup
  <1>2. Types'
    BY <1>1 DEF IInv, Types
  <1>3. Conservation' /\ Arrived' = Arrived /\ Seated' = Seated /\ NobodyLeft' = NobodyLeft
    BY <1>1, KeepsCounts
  <1>4. Order'
    BY <1>1, <1>3 DEF IInv, Order
  <1>5. Loaded' /\ NoStrandedPassenger'
    BY <1>1, <1>3 DEF IInv, Loaded, NoStrandedPassenger
  <1> QED
    BY <1>2, <1>3, <1>4, <1>5 DEF IInv

\* The boat takes its load from those aboard and from those it counts as waiting.
LEMMA DepartInv == ASSUME IInv, Depart, UNCHANGED <<kind, pc, main>> PROVE IInv'
  <1>1. /\ boat = "load" /\ boat' = "wake2"
        /\ aboard' = [k \in Kinds |-> aboard[k] - Load[k]]
        /\ waiting' = [k \in Kinds |-> waiting[k] - Load[k]]
        /\ UNCHANGED <<start, mutex, cond, cond2>>
    BY DEF Depart, Sail
  <1>2. \A k \in Kinds : /\ Load[k] \in Nat /\ aboard[k] \in Nat /\ Load[k] <= aboard[k]
                         /\ Cardinality(Ashore(k)) \in Nat
                         /\ waiting[k] = Cardinality(Ashore(k)) + aboard[k]
    BY LoadOf, Sets DEF IInv, Types, Conservation
  <1>3. \A k \in Kinds : Ashore(k)' = Ashore(k)
    BY DEF Ashore
  <1>4. Arrived' = Arrived
    BY DEF Arrived
  <1>5. \A k \in Kinds : /\ aboard[k] - Load[k] \in Nat /\ waiting[k] - Load[k] \in Nat
                         /\ waiting[k] - Load[k] = Cardinality(Ashore(k)) + (aboard[k] - Load[k])
    BY <1>2
  <1>6. aboard' \in [Kinds -> Nat] /\ waiting' \in [Kinds -> Nat]
    BY <1>1, <1>5
  <1>7. Types'
    BY <1>1, <1>6 DEF IInv, Types, start, BoatPlaces
  <1>8. Conservation'
    BY <1>1, <1>3, <1>5 DEF Conservation
  <1>9. Order'
    BY <1>1, <1>4 DEF IInv, Order, start
  <1>10. Loaded' /\ NoStrandedPassenger'
    BY <1>1 DEF Loaded, NoStrandedPassenger
  <1> QED
    BY <1>7, <1>8, <1>9, <1>10 DEF IInv

\* The other steps of the boat change who sleeps and where the boat is.
LEMMA BoatStepInv == ASSUME IInv, BoatStep PROVE IInv'
  <1>1. UNCHANGED <<kind, pc, main>>
    BY DEF BoatStep
  <1>2. CASE Depart
    BY <1>1, <1>2, DepartInv
  <1>3. CASE \/ SeeAllArrived \/ Announce \/ Call \/ SeeFull
             \/ WakeCannibals \/ WakeMissionaries \/ BoatEnds
    <2>1. UNCHANGED <<mutex, mutex_instantiated, count, waiting, aboard>>
      BY <1>3 DEF SeeAllArrived, Announce, Call, SeeFull, WakeCannibals, WakeMissionaries, BoatEnds,
                  start, boarding
    <2>2. cond' \in SUBSET cond /\ cond2' \in SUBSET cond2
      BY <1>3 DEF SeeAllArrived, Announce, Call, SeeFull, WakeCannibals, WakeMissionaries, BoatEnds,
                  boarding, Broadcast
    <2>3. cond_instantiated' \in SUBSET cond_instantiated /\ all_instantiated' \in BOOLEAN
      BY <1>3 DEF SeeAllArrived, Announce, Call, SeeFull, WakeCannibals, WakeMissionaries, BoatEnds,
                  start, Broadcast, IInv, Types
    <2>4. boat' \in BoatPlaces /\ boat' # "new" /\ boat # "new"
      BY <1>3 DEF SeeAllArrived, Announce, Call, SeeFull, WakeCannibals, WakeMissionaries, BoatEnds,
                  Sail, BoatPlaces
    <2>5. Types'
      BY <1>1, <2>1, <2>2, <2>3, <2>4 DEF IInv, Types
    <2>6. Conservation' /\ Arrived' = Arrived /\ Seated' = Seated /\ NobodyLeft' = NobodyLeft
      BY <1>1, <2>1, KeepsCounts
    <2>7. /\ boat' = "done" => NobodyLeft
          /\ boat' = "load" => Seated >= NO_SEATS
          /\ boat = "wake2" => boat' = "wake" /\ cond2' = {}
          /\ boat = "wake" => boat' = "watch" /\ cond' = {}
      BY <1>3 DEF SeeAllArrived, Announce, Call, SeeFull, WakeCannibals, WakeMissionaries, BoatEnds,
                  Sail, Broadcast
    <2>8. Order'
      BY <1>1, <2>1, <2>4, <2>6, <2>7 DEF IInv, Order
    <2>9. Loaded'
      BY <2>6, <2>7 DEF Loaded
    <2>10. NoStrandedPassenger'
      BY <2>2, <2>6, <2>7 DEF IInv, NoStrandedPassenger
    <2> QED
      BY <2>5, <2>6, <2>8, <2>9, <2>10 DEF IInv
  <1> QED
    BY <1>2, <1>3 DEF BoatStep

\* A new passenger is on the shore and counted there; the boat is created last.
LEMMA CreateInv == ASSUME IInv, NEW t \in Passengers, Create(t) PROVE IInv'
  <1>1. PICK j \in Kinds : /\ kind' = [kind EXCEPT ![t] = j]
                           /\ waiting' = [waiting EXCEPT ![j] = @ + 1]
    BY DEF Create
  <1>2. /\ pc[t] = "new" /\ pc' = [pc EXCEPT ![t] = "gather"]
        /\ UNCHANGED <<start, mutex, cond, cond2, aboard, boat, main>>
    BY DEF Create, Move
  <1>3. Types'
    BY <1>1, <1>2 DEF IInv, Types, Places, start
  <1>4. Arrived' = Arrived
    BY <1>2 DEF IInv, Types, Arrived
  <1>5. boat = "new"
    BY <1>2 DEF IInv, Order
  <1>6. Order'
    BY <1>2, <1>4, <1>5 DEF IInv, Order, start
  <1>7. Loaded' /\ NoStrandedPassenger'
    BY <1>2, <1>5 DEF IInv, Loaded, NoStrandedPassenger, Seated
  <1>8. Conservation'
    <2> SUFFICES ASSUME NEW k \in Kinds
                 PROVE  waiting'[k] = Cardinality(Ashore(k)') + aboard[k]
      BY <1>2 DEF Conservation
    <2>1. waiting[k] = Cardinality(Ashore(k)) + aboard[k] /\ aboard[k] \in Nat
      BY DEF IInv, Types, Conservation
    <2>2. CASE k = j
      <3>1. t \notin Ashore(k) /\ Ashore(k)' = Ashore(k) \cup {t}
        BY <1>1, <1>2, <2>2 DEF IInv, Types, Ashore
      <3>2. Cardinality(Ashore(k)') = Cardinality(Ashore(k)) + 1
        BY <3>1, Sets, FS_AddElement
      <3>3. waiting'[k] = waiting[k] + 1
        BY <1>1, <2>2 DEF IInv, Types
      <3> QED
        BY <2>1, <3>2, <3>3, Sets
    <2>3. CASE k # j
      <3>1. Ashore(k)' = Ashore(k) /\ waiting'[k] = waiting[k]
        BY <1>1, <1>2, <2>3 DEF IInv, Types, Ashore
      <3> QED
        BY <2>1, <3>1
    <2> QED
      BY <2>2, <2>3
  <1> QED
    BY <1>3, <1>6, <1>7, <1>8 DEF IInv

LEMMA CreateBoatInv == ASSUME IInv, CreateBoat PROVE IInv'
  <1>1. /\ UNCHANGED <<start, boarding, kind, pc, main>> /\ boat = "new" /\ boat' = "spin"
        /\ \A p \in Passengers : pc[p] # "new"
    BY DEF CreateBoat, Sail
  <1>2. Conservation' /\ Arrived' = Arrived /\ Seated' = Seated /\ NobodyLeft' = NobodyLeft
    BY <1>1, KeepsCounts DEF boarding
  <1>3. Types'
    BY <1>1 DEF IInv, Types, start, boarding, BoatPlaces
  <1>4. Order' /\ Loaded'
    BY <1>1, <1>2 DEF IInv, Order, Loaded, start
  <1>5. NoStrandedPassenger'
    BY <1>1, <1>2 DEF IInv, NoStrandedPassenger, boarding
  <1> QED
    BY <1>2, <1>3, <1>4, <1>5 DEF IInv

LEMMA MainStepInv == ASSUME IInv, MainStep PROVE IInv'
  <1>1. CASE JoinedAll
    <2>1. UNCHANGED <<start, boarding, kind, pc, boat>> /\ main' = "done"
      BY <1>1 DEF JoinedAll
    <2>2. Conservation' /\ Arrived' = Arrived /\ Seated' = Seated /\ NobodyLeft' = NobodyLeft
      BY <2>1, KeepsCounts DEF boarding
    <2>3. Types'
      BY <2>1 DEF IInv, Types, start, boarding
    <2>4. Order' /\ Loaded' /\ NoStrandedPassenger'
      BY <2>1, <2>2 DEF IInv, Order, Loaded, NoStrandedPassenger, start, boarding
    <2> QED
      BY <2>2, <2>3, <2>4 DEF IInv
  <1> QED
    BY <1>1, CreateBoatInv, CreateInv DEF MainStep

LEMMA StutterInv == ASSUME IInv, UNCHANGED vars PROVE IInv'
  <1>1. UNCHANGED <<start, boarding, kind, pc, boat, main>>
    BY DEF vars
  <1>2. Conservation' /\ Arrived' = Arrived /\ Seated' = Seated /\ NobodyLeft' = NobodyLeft
    BY <1>1, KeepsCounts DEF boarding
  <1>3. Types'
    BY <1>1 DEF IInv, Types, start, boarding
  <1>4. Order' /\ Loaded' /\ NoStrandedPassenger'
    BY <1>1, <1>2 DEF IInv, Order, Loaded, NoStrandedPassenger, start, boarding
  <1> QED
    BY <1>2, <1>3, <1>4 DEF IInv

LEMMA NextIInv == IInv /\ [Next]_vars => IInv'
  <1> SUFFICES ASSUME IInv, [Next]_vars PROVE IInv'
    OBVIOUS
  <1>1. CASE MainStep
    BY <1>1, MainStepInv
  <1>2. CASE BoatStep
    BY <1>2, BoatStepInv
  <1>3. CASE Spurious
    BY <1>3, SpuriousInv
  <1>4. CASE \E t \in Passengers : PassengerStep(t)
    BY <1>4, StartStepInv, BoardingStepInv DEF PassengerStep
  <1>5. CASE Terminated \/ UNCHANGED vars
    BY <1>5, StutterInv DEF Terminated
  <1> QED
    BY <1>1, <1>2, <1>3, <1>4, <1>5 DEF Next

LEMMA Invariance == Spec => []IInv
  BY InitIInv, NextIInv, PTL DEF Spec
------------------------------------------------------------------------------
Created(k) == {t \in Passengers : kind[t] = k /\ pc[t] # "new"}

\* Nobody is counted before he is there.
Counted == \A k \in Kinds : waiting[k] <= Cardinality(Created(k))

LEMMA CreatedSets == \A k \in Kinds :
    /\ Created(k) \in SUBSET Passengers
    /\ IsFiniteSet(Created(k)) /\ Cardinality(Created(k)) \in 0 .. n
  <1>1. \A k \in Kinds : Created(k) \in SUBSET Passengers
    BY DEF Created
  <1> QED
    BY <1>1, CountPassengers

LEMMA InitCounted == Init => Counted
  <1> SUFFICES ASSUME Init PROVE Counted
    OBVIOUS
  <1>1. \A k \in Kinds : waiting[k] = 0
    BY DEF Init
  <1> QED
    BY <1>1, CreatedSets DEF Counted

LEMMA NextCounted == IInv /\ Counted /\ [Next]_vars => Counted'
  <1> SUFFICES ASSUME IInv, Counted, [Next]_vars, NEW k \in Kinds
               PROVE  waiting'[k] <= Cardinality(Created(k)')
    BY DEF Counted
  <1>1. waiting[k] \in Nat /\ waiting[k] <= Cardinality(Created(k))
    BY DEF IInv, Types, Counted
  <1>2. CASE \E t \in Passengers : Create(t)
    <2>1. PICK t \in Passengers : Create(t)
      BY <1>2
    <2>2. PICK j \in Kinds : /\ kind' = [kind EXCEPT ![t] = j]
                             /\ waiting' = [waiting EXCEPT ![j] = @ + 1]
      BY <2>1 DEF Create
    <2>3. pc[t] = "new" /\ pc' = [pc EXCEPT ![t] = "gather"]
      BY <2>1 DEF Create, Move
    <2>4. CASE k = j
      <3>1. t \notin Created(k) /\ Created(k)' = Created(k) \cup {t}
        BY <2>2, <2>3, <2>4 DEF IInv, Types, Created
      <3>2. waiting'[k] = waiting[k] + 1
        BY <2>2, <2>4 DEF IInv, Types
      <3>3. Cardinality(Created(k)') = Cardinality(Created(k)) + 1
        BY <3>1, CreatedSets, FS_AddElement
      <3> QED
        BY <1>1, <3>2, <3>3, CreatedSets
    <2>5. CASE k # j
      <3>1. Created(k)' = Created(k) /\ waiting'[k] = waiting[k]
        BY <2>2, <2>3, <2>5 DEF IInv, Types, Created
      <3> QED
        BY <1>1, <3>1
    <2> QED
      BY <2>4, <2>5
  <1>3. CASE BoatStep /\ Depart
    <2>1. UNCHANGED <<kind, pc>> /\ waiting'[k] = waiting[k] - Load[k]
      BY <1>3 DEF BoatStep, Depart
    <2>2. Load[k] \in Nat
      BY LoadOf DEF IInv
    <2>3. Created(k)' = Created(k)
      BY <2>1 DEF Created
    <2> QED
      BY <1>1, <2>1, <2>2, <2>3, CreatedSets
  <1>4. CASE \E t \in Passengers : PassengerStep(t)
    <2>1. PICK t \in Passengers : PassengerStep(t)
      BY <1>4
    <2>2. waiting' = waiting /\ kind' = kind
      BY <2>1 DEF PassengerStep, StartStep, BoardingStep, LockToBoard, Queue, WakeUp, GetIn, boarding
    <2>3. /\ pc[t] # "new"
          /\ \E to \in Places \ {"new"} : pc' = [pc EXCEPT ![t] = to]
      BY <2>1 DEF PassengerStep, StartStep, Gather, Arrive, TestStart, Sleep, Awake, PassStart,
                  BoardingStep, LockToBoard, Queue, WakeUp, GetIn, Move, Places
    <2>4. Created(k)' = Created(k)
      BY <2>2, <2>3 DEF IInv, Types, Created
    <2> QED
      BY <1>1, <2>2, <2>4
  <1>5. CASE \/ CreateBoat \/ JoinedAll \/ Spurious \/ Terminated \/ UNCHANGED vars
             \/ BoatStep /\ ~Depart
    <2>1. UNCHANGED <<waiting, kind, pc>>
      BY <1>5 DEF CreateBoat, JoinedAll, Spurious, Terminated, vars, boarding, BoatStep,
                  SeeAllArrived, Announce, Call, SeeFull, WakeCannibals, WakeMissionaries, BoatEnds
    <2>2. Created(k)' = Created(k)
      BY <2>1 DEF Created
    <2> QED
      BY <1>1, <2>1, <2>2
  <1> QED
    BY <1>2, <1>3, <1>4, <1>5 DEF Next, MainStep

LEMMA CountedAlways == Spec => []Counted
  BY InitCounted, NextCounted, Invariance, PTL DEF Spec

\* TypeOK bounds the counters too: none exceeds the number of passengers.
LEMMA TypesBound == IInv /\ Counted => TypeOK
  <1> SUFFICES ASSUME IInv, Counted PROVE TypeOK
    OBVIOUS
  <1>1. count \in 0 .. n
    <2>1. Arrived \in SUBSET Passengers
      BY DEF Arrived
    <2> QED
      BY <2>1, CountPassengers DEF IInv, Order
  <1>2. n \in Nat
    BY CountPassengers
  <1>3. \A k \in Kinds : waiting[k] \in 0 .. n /\ aboard[k] \in 0 .. n
    <2> SUFFICES ASSUME NEW k \in Kinds PROVE waiting[k] \in 0 .. n /\ aboard[k] \in 0 .. n
      OBVIOUS
    <2>1. waiting[k] \in Nat /\ aboard[k] \in Nat
      BY DEF IInv, Types
    <2>2. Cardinality(Created(k)) \in 0 .. n /\ waiting[k] <= Cardinality(Created(k))
      BY CreatedSets DEF Counted
    <2>3. Cardinality(Ashore(k)) \in Nat /\ waiting[k] = Cardinality(Ashore(k)) + aboard[k]
      BY Sets DEF IInv, Conservation
    <2> QED
      BY <1>2, <2>1, <2>2, <2>3
  <1>4. waiting \in [Kinds -> 0 .. n] /\ aboard \in [Kinds -> 0 .. n]
    BY <1>3 DEF IInv, Types
  <1> QED
    BY <1>1, <1>4 DEF IInv, Types, TypeOK

\* Every variable keeps its type, and no counter exceeds the number of passengers.
THEOREM TypeCorrect == Spec => []TypeOK
  BY TypesBound, Invariance, CountedAlways, PTL

\* Nobody sleeps on the shore beside a boat that will not leave (lines 42-45, 65-68
\* and 88-106): while a passenger waits to board, the boat has its load or has left
\* and is about to wake him.
THEOREM NobodyStranded == Spec => []NoStrandedPassenger
  BY Invariance, PTL DEF IInv

\* Nobody is lost or carried twice, whatever the boat reads without the mutex.
THEOREM PassengersAddUp == Spec => []Conservation
  BY Invariance, PTL DEF IInv

\* "boat won't leave without being fully loaded" (line 23): the boat tests the load
\* before it takes the mutex, and still takes NO_SEATS passengers every time.
THEOREM BoatLeavesFull == Spec => FullBoat
  <1>1. IInv /\ [Next]_vars =>
          [Depart => Load["MISSIONARY"] + Load["CANNIBAL"] = NO_SEATS]_vars
    BY LoadOf DEF IInv, Loaded, Depart, Sail
  <1> QED
    BY <1>1, Invariance, PTL DEF Spec, FullBoat

Across == boat = "done" => Seated = 0 /\ \A t \in Passengers : pc[t] = "done"

\* Nobody is left behind: when the boat stops for good (line 89), every passenger
\* has been taken over, so main's joins (line 162) all return.
THEOREM NobodyLeftBehind == Spec => []Across
  <1>1. ASSUME IInv, boat = "done"
        PROVE  Seated = 0 /\ \A t \in Passengers : pc[t] = "done"
    <2>1. \A k \in Kinds : /\ Cardinality(Ashore(k)) \in Nat /\ aboard[k] \in Nat
                           /\ waiting[k] = Cardinality(Ashore(k)) + aboard[k]
      BY <1>1, Sets DEF IInv, Types, Conservation
    <2>2. waiting["MISSIONARY"] + waiting["CANNIBAL"] = 0
      BY <1>1 DEF IInv, Order, NobodyLeft
    <2>3. /\ aboard["MISSIONARY"] = 0 /\ aboard["CANNIBAL"] = 0
          /\ Cardinality(Ashore("MISSIONARY")) = 0 /\ Cardinality(Ashore("CANNIBAL")) = 0
      <3>1. /\ aboard["MISSIONARY"] \in Nat /\ Cardinality(Ashore("MISSIONARY")) \in Nat
            /\ waiting["MISSIONARY"] = Cardinality(Ashore("MISSIONARY")) + aboard["MISSIONARY"]
        BY <2>1, KindsAre
      <3>2. /\ aboard["CANNIBAL"] \in Nat /\ Cardinality(Ashore("CANNIBAL")) \in Nat
            /\ waiting["CANNIBAL"] = Cardinality(Ashore("CANNIBAL")) + aboard["CANNIBAL"]
        BY <2>1, KindsAre
      <3>3. (Cardinality(Ashore("MISSIONARY")) + aboard["MISSIONARY"])
              + (Cardinality(Ashore("CANNIBAL")) + aboard["CANNIBAL"]) = 0
        BY <2>2, <3>1, <3>2
      <3>4. \A a, b, c, d \in Nat : (a + b) + (c + d) = 0 => a = 0 /\ b = 0 /\ c = 0 /\ d = 0
        OBVIOUS
      <3> QED
        BY <3>1, <3>2, <3>3, <3>4
    <2>4. \A k \in Kinds : Ashore(k) = {}
      BY <2>3, KindsAre, Sets, FS_EmptySet
    <2>5. \A t \in Passengers : kind[t] \in Kinds /\ pc[t] # "new"
      BY <1>1 DEF IInv, Types, Order
    <2> QED
      BY <2>3, <2>4, <2>5 DEF Ashore, Seated
  <1> QED
    BY <1>1, Invariance, PTL DEF Across
------------------------------------------------------------------------------
(* The two parts of MCBoat.                                                *)

\* Everybody is ashore and counted where the second part begins.
LEMMA InitAshoreInv == InitAshore => IInv /\ Counted
  <1> SUFFICES ASSUME InitAshore PROVE IInv /\ Counted
    OBVIOUS
  <1>1. \A k \in Kinds : Ashore(k) = {t \in Passengers : kind[t] = k} /\ Created(k) = Ashore(k)
    BY DEF InitAshore, Ashore, Created
  <1>2. \A k \in Kinds : waiting[k] = Cardinality(Ashore(k)) /\ Cardinality(Ashore(k)) \in Nat
    BY <1>1, Sets DEF InitAshore
  <1>3. Types
    <2>1. count \in Nat /\ waiting \in [Kinds -> Nat]
      <3>1. n \in Nat
        BY CountPassengers
      <3>2. waiting = [k \in Kinds |-> waiting[k]]
        BY DEF InitAshore
      <3> QED
        BY <1>2, <3>1, <3>2 DEF InitAshore
    <2> QED
      BY <2>1 DEF InitAshore, Types, Places, BoatPlaces
  <1>4. Conservation /\ Counted
    BY <1>1, <1>2 DEF InitAshore, Conservation, Counted
  <1>5. Order
    <2>1. Arrived = Passengers
      BY DEF InitAshore, Arrived
    <2> QED
      BY <2>1 DEF InitAshore, Order, n
  <1>6. Loaded /\ NoStrandedPassenger
    BY DEF InitAshore, Loaded, NoStrandedPassenger
  <1> QED
    BY <1>3, <1>4, <1>5, <1>6 DEF IInv

\* The first part is the program with the passengers Few.
OnePart == part = "crossing" \/ (part = "start" /\ Few = Passengers)

LEMMA SmallSizes ==
    ASSUME Few = Passengers
    PROVE  Small!n = n /\ \A S : Small!Cardinality(S) = Cardinality(S)
  <1>1. \A S : Small!Cardinality(S) = Cardinality(S)
    BY DEF Small!Cardinality, Cardinality
  <1> QED
    BY <1>1 DEF Small!n, n

LEMMA SmallInit == ASSUME Few = Passengers, Small!Init PROVE Init
  BY DEF Small!Init, Init, Small!Kinds, Kinds

LEMMA SmallMain == ASSUME Few = Passengers, Small!MainStep PROVE MainStep
  <1>1. ASSUME Small!CreateBoat PROVE CreateBoat
    BY <1>1 DEF Small!CreateBoat, CreateBoat, Small!Sail, Sail, Small!start, start,
                Small!boarding, boarding
  <1>2. ASSUME Small!JoinedAll PROVE JoinedAll
    BY <1>2 DEF Small!JoinedAll, JoinedAll, Small!start, start, Small!boarding, boarding
  <1>3. ASSUME NEW t \in Few, Small!Create(t) PROVE Create(t)
    BY <1>3 DEF Small!Create, Create, Small!Move, Move, Small!Kinds, Kinds, Small!start, start
  <1> QED
    BY <1>1, <1>2, <1>3 DEF Small!MainStep, MainStep

LEMMA SmallBoat == ASSUME Few = Passengers, Small!BoatStep PROVE BoatStep
  <1> USE DEF Small!Sail, Sail, Small!start, start, Small!boarding, boarding
  <1>1. ASSUME Small!SeeAllArrived PROVE SeeAllArrived
    BY <1>1, SmallSizes DEF Small!SeeAllArrived, SeeAllArrived
  <1>2. ASSUME Small!Announce \/ Small!Call PROVE Announce \/ Call
    BY <1>2 DEF Small!Announce, Announce, Small!Call, Call, Small!Broadcast, Broadcast
  <1>3. ASSUME Small!SeeFull \/ Small!BoatEnds PROVE SeeFull \/ BoatEnds
    BY <1>3 DEF Small!SeeFull, SeeFull, Small!BoatEnds, BoatEnds, Small!NobodyLeft, NobodyLeft,
                Small!Seated, Seated, Small!NO_SEATS, NO_SEATS
  <1>4. ASSUME Small!Depart PROVE Depart
    <2>1. Small!Load = Load /\ Small!Kinds = Kinds
      BY DEF Small!Load, Load, Small!Kinds, Kinds, Small!NO_SEATS, NO_SEATS
    <2> QED
      BY <1>4, <2>1 DEF Small!Depart, Depart
  <1>5. ASSUME Small!WakeCannibals \/ Small!WakeMissionaries
        PROVE  WakeCannibals \/ WakeMissionaries
    BY <1>5 DEF Small!WakeCannibals, WakeCannibals, Small!WakeMissionaries, WakeMissionaries,
                Small!Broadcast, Broadcast
  <1> QED
    BY <1>1, <1>2, <1>3, <1>4, <1>5 DEF Small!BoatStep, BoatStep

LEMMA SmallPassenger ==
    ASSUME NEW t, Small!PassengerStep(t)
    PROVE  PassengerStep(t)
  <1> USE DEF Small!Move, Move, Small!Lock, Lock, Small!Unlock, Unlock, Small!CondWait, CondWait
  <1>1. ASSUME Small!StartStep(t) PROVE StartStep(t)
    BY <1>1 DEF Small!StartStep, StartStep, Small!Gather, Gather, Small!Arrive, Arrive,
                Small!TestStart, TestStart, Small!Sleep, Sleep, Small!Awake, Awake,
                Small!PassStart, PassStart, Small!start, start, Small!boarding, boarding
  <1>2. Small!MustWait(t) <=> MustWait(t)
    BY DEF Small!MustWait, MustWait, Small!MissionaryMustWait, MissionaryMustWait,
           Small!CannibalMustWait, CannibalMustWait
  <1>3. ASSUME Small!BoardingStep(t) PROVE BoardingStep(t)
    BY <1>2, <1>3 DEF Small!BoardingStep, BoardingStep, Small!LockToBoard, LockToBoard,
                      Small!Queue, Queue, Small!WakeUp, WakeUp, Small!GetIn, GetIn,
                      Small!start, start
  <1> QED
    BY <1>1, <1>3 DEF Small!PassengerStep, PassengerStep

LEMMA InitParts == MCInit /\ OnePart => IInv /\ Counted
  <1>1. Init => IInv /\ Counted
    BY InitIInv, InitCounted
  <1> QED
    BY <1>1, SmallInit, InitAshoreInv DEF MCInit, OnePart

LEMMA NextParts == OnePart /\ [MCNext]_allVars => OnePart' /\ [Next]_vars
  <1> SUFFICES ASSUME OnePart, [MCNext]_allVars PROVE OnePart' /\ [Next]_vars
    OBVIOUS
  <1>1. part' = part
    BY DEF MCNext, MCMain, MCBoatStep, MCPassenger, MCSpurious, allVars
  <1>2. MCMain => MainStep
    BY SmallMain DEF MCMain, OnePart
  <1>3. MCBoatStep => BoatStep
    BY SmallBoat DEF MCBoatStep, OnePart
  <1>4. \A t \in Passengers : MCPassenger(t) => PassengerStep(t)
    BY SmallPassenger DEF MCPassenger
  <1>5. [Next]_vars
    BY <1>2, <1>3, <1>4 DEF MCNext, MCSpurious, Next, allVars
  <1> QED
    BY <1>1, <1>5 DEF OnePart

\* In both parts of the run all that holds of the program holds.
LEMMA PartsInvariance == OnePart /\ MCSpec => [](OnePart /\ IInv /\ Counted)
  <1> DEFINE I == OnePart /\ IInv /\ Counted
  <1>1. OnePart /\ MCInit => I
    BY InitParts
  <1>2. I /\ [MCNext]_allVars => I'
    BY NextParts, NextIInv, NextCounted
  <1> QED
    BY <1>1, <1>2, PTL DEF MCSpec

\* Both parts of the run keep the types, for every set of passengers: the whole program from its
\* start (the set is called Few there), and from the moment everybody is at line 41 or 64.
THEOREM PartsTypeCorrect == OnePart /\ MCSpec => []MCTypeOK
  <1>1. OnePart /\ IInv /\ Counted => MCTypeOK
    <2> SUFFICES ASSUME OnePart, TypeOK PROVE MCTypeOK
      BY TypesBound
    <2>1. CASE part = "start"
      <3>1. Few = Passengers
        BY <2>1 DEF OnePart
      <3>2. Small!n = n
        BY <3>1, SmallSizes
      <3> QED
        BY <2>1, <3>1, <3>2 DEF MCTypeOK, TypeOK, Small!TypeOK, Kinds, Small!Kinds, Places,
                                Small!Places, BoatPlaces, Small!BoatPlaces
    <2> QED
      BY <2>1 DEF MCTypeOK, OnePart
  <1> QED
    BY <1>1, PartsInvariance, PTL

\* Nobody is lost or carried twice in either part, whatever the boat reads without the mutex,
\* and nobody sleeps beside a boat that will not leave.
THEOREM PartsAddUp == OnePart /\ MCSpec => [](MCConservation /\ NoStrandedPassenger)
  <1>1. OnePart /\ IInv /\ Counted => MCConservation /\ NoStrandedPassenger
    <2> SUFFICES ASSUME OnePart, Conservation, NoStrandedPassenger PROVE MCConservation
      BY DEF IInv
    <2>1. CASE part = "start"
      <3>1. Few = Passengers
        BY <2>1 DEF OnePart
      <3>2. Small!Kinds = Kinds /\ \A k : Small!Ashore(k) = Ashore(k)
        BY <3>1 DEF Small!Kinds, Kinds, Small!Ashore, Ashore
      <3> QED
        BY <2>1, <3>1, <3>2, SmallSizes DEF MCConservation, Conservation, Small!Conservation
    <2> QED
      BY <2>1 DEF MCConservation, OnePart
  <1> QED
    BY <1>1, PartsInvariance, PTL
==============================================================================
