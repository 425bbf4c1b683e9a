--------------------------- MODULE MCStreets_proofs ---------------------------
(***************************************************************************)
(* Proofs about CarTraffic and CarsStreet, for every finite set of cars    *)
(* and every number of slots: what the shared part of the two programs     *)
(* keeps is proved once, of its steps, and holds of both programs, from    *)
(* their initial states and as MCStreets runs them.                        *)
(***************************************************************************)
EXTENDS MCStreets, FiniteSetTheorems, TLAPS

At(places) == {t \in Cars : pc[t] \in places}

Types ==
    /\ mutex \in Cars \cup {Nobody}
    /\ finish_cars_mutex \in Cars \cup {Nobody}
    /\ cond \in SUBSET Cars
    /\ finish_cars \in SUBSET Cars
    /\ queue \in [Streets -> SUBSET Cars]
    /\ exists_traffic_light \in BOOLEAN
    /\ all_cars_instantiated \in BOOLEAN
    /\ no_cars_entered \in Nat
    /\ green \in [Streets -> BOOLEAN]
    /\ street \in [Cars -> Streets]
    /\ pc \in [Cars -> BridgePlaces]
    /\ light \in LightPlaces

\* The places with mutex, and those with finish_cars_mutex.
Holding == {"test", "drowsy", "gate", "stop", "drive", "slot", "check", "cross"}
GatherHolding == {"gtest", "gdrowsy"}
Exclusion ==
    \A t \in Cars :
        /\ pc[t] \in Holding <=> mutex = t
        /\ pc[t] \in GatherHolding <=> finish_cars_mutex = t

\* no_cars_entered counts the cars that have got past line 41.
Past == BridgePlaces \ {"new", "start", "test", "drowsy", "asleep"}
Entered == no_cars_entered = Cardinality(At(Past))

\* Whoever sets all_cars_instantiated holds finish_cars_mutex: nobody is between its
\* test and its wait any more, and the light goes on only then.
Gathering ==
    /\ all_cars_instantiated => AllEntered /\ \A t \in Cars : pc[t] # "gdrowsy"
    /\ light \in {"callall"} \cup Cycle => all_cars_instantiated
    /\ light \in Cycle => finish_cars = {}

\* Where in the cycle each street may be green.
Colours ==
    /\ green["A"] => light \in {"keepB", "callA", "stopA"}
    /\ green["B"] => light \in {"callB", "redA", "redB"}

\* The inductive invariant of what the programs share.
IInv == Types /\ Exclusion /\ Entered /\ Gathering /\ Colours

BridgeTypes ==
    /\ sem_max \in Nat
    /\ sem_rem_cars \in [Streets -> 0 .. POST_BOUND]
    /\ rem_cars \in [Streets -> Nat]

\* The inductive invariant of the bridge: that it is one way takes the mutex, and what
\* the mutex is worth takes the whole of the program.
BridgeInv == IInv /\ BridgeTypes /\ SlotsAddUp /\ OneWay
------------------------------------------------------------------------------
(* Counting.                                                               *)

LEMMA CountSome ==
    ASSUME NEW C \in SUBSET Cars
    PROVE  IsFiniteSet(C) /\ Cardinality(C) \in 0 .. n
  BY FS_Subset, FS_CardinalityType, CarTrafficAssumption DEF n

\* Cars are finitely many, wherever they are.
LEMMA CountCars ==
    ASSUME NEW S
    PROVE  IsFiniteSet(At(S)) /\ Cardinality(At(S)) \in 0 .. n
  <1>1. At(S) \in SUBSET Cars
    BY DEF At
  <1> QED
    BY <1>1, CountSome

\* A car that moves from outside S to S is counted in S from then on, one that leaves
\* S no longer, and any other move changes nothing.
LEMMA MoveIn ==
    ASSUME Types, NEW t \in Cars, NEW from, NEW to, NEW S, Move(t, from, to),
           from \notin S, to \in S
    PROVE  At(S)' = At(S) \cup {t} /\ Cardinality(At(S)') = Cardinality(At(S)) + 1
  <1>1. At(S)' = At(S) \cup {t} /\ t \notin At(S)
    BY DEF Types, Move, At
  <1> QED
    BY <1>1, CountCars, FS_AddElement

LEMMA MoveOut ==
    ASSUME Types, NEW t \in Cars, NEW from, NEW to, NEW S, Move(t, from, to),
           from \in S, to \notin S
    PROVE  At(S)' = At(S) \ {t} /\ Cardinality(At(S)') = Cardinality(At(S)) - 1
  <1>1. At(S)' = At(S) \ {t} /\ t \in At(S)
    BY DEF Types, Move, At
  <1> QED
    BY <1>1, CountCars, FS_RemoveElement

LEMMA MoveWithin ==
    ASSUME Types, NEW t \in Cars, NEW from, NEW to, NEW S, Move(t, from, to),
           from \in S <=> to \in S
    PROVE  At(S)' = At(S)
  BY DEF Types, Move, At
------------------------------------------------------------------------------
(* The shared part of the programs.                                        *)

LEMMA InitIInv == Init => IInv
  <1> SUFFICES ASSUME Init PROVE IInv
    OBVIOUS
  <1>1. At(Past) = {}
    BY DEF Init, At, Past
  <1>2. Entered
    BY <1>1, FS_EmptySet DEF Init, Entered
  <1>3. Types /\ Exclusion
    BY CarTrafficAssumption
    DEF Init, Types, Exclusion, Holding, GatherHolding, BridgePlaces, Places, LightPlaces, Streets
  <1>4. Gathering /\ Colours
    BY DEF Init, Gathering, Colours, Cycle, Streets
  <1> QED
    BY <1>2, <1>3, <1>4 DEF IInv

\* Lines 22-42: only no_cars_entered matters to the others, and it only grows.
LEMMA StartIInv ==
    ASSUME IInv, NEW t \in Cars, StartStep(t), UNCHANGED <<street, light>>
    PROVE  IInv'
  <1> USE DEF IInv
  <1>1. Types' /\ Exclusion'
    BY CarTrafficAssumption
    DEF Types, Exclusion, Holding, GatherHolding, BridgePlaces, Places, StartStep, LockStart,
        TestLight, Sleep, Awake, EnterStreet, Move, Lock, Unlock, CondWait, starting,
        gathering, driving
  <1>2. Entered'
    <2>1. CASE EnterStreet(t)
      <3>1. Cardinality(At(Past)') = Cardinality(At(Past)) + 1
        <4>1. Move(t, "test", "gather") /\ "test" \notin Past /\ "gather" \in Past
          BY <2>1 DEF EnterStreet, Past, BridgePlaces, Places
        <4> QED
          BY <4>1, MoveIn
      <3> QED
        BY <2>1, <3>1 DEF EnterStreet, Entered
    <2>2. CASE LockStart(t) \/ TestLight(t) \/ Sleep(t) \/ Awake(t)
      BY <2>2, MoveWithin DEF LockStart, TestLight, Sleep, Awake, Entered, Past
    <2> QED
      BY <2>1, <2>2 DEF StartStep
  <1>3. /\ no_cars_entered' >= no_cars_entered /\ n \in Nat
        /\ \A u \in Cars : pc'[u] = "gdrowsy" => pc[u] = "gdrowsy"
        /\ UNCHANGED <<all_cars_instantiated, finish_cars, light, green>>
    BY FS_CardinalityType, CarTrafficAssumption
    DEF StartStep, LockStart, TestLight, Sleep, Awake, EnterStreet, Move, Types, gathering,
        driving, n
  <1>4. Gathering'
    BY <1>1, <1>3 DEF Gathering, AllEntered, Types
  <1>5. Colours'
    BY <1>3 DEF Colours
  <1> QED
    BY <1>1, <1>2, <1>4, <1>5

\* Lines 45-51.
LEMMA GatherIInv ==
    ASSUME IInv, NEW t \in Cars, GatherStep(t), UNCHANGED <<street, light>>
    PROVE  IInv'
  <1> USE DEF IInv
  <1>1. Types' /\ Exclusion'
    <2> USE CarTrafficAssumption
        DEF Types, Exclusion, Holding, GatherHolding, BridgePlaces, Places, Move, starting,
            gathering, driving
    <2>1. UNCHANGED <<mutex, starting, driving, no_cars_entered, street, light>>
      BY DEF GatherStep
    <2>2. CASE LockGather(t)
      BY <2>1, <2>2 DEF LockGather, Lock
    <2>3. CASE TestGather(t)
      BY <2>1, <2>3 DEF TestGather
    <2>4. CASE SleepGather(t)
      BY <2>1, <2>4 DEF SleepGather, CondWait, Unlock
    <2>5. CASE AwakeGather(t)
      BY <2>1, <2>5 DEF AwakeGather, Lock
    <2>6. CASE Gathered(t)
      BY <2>1, <2>6 DEF Gathered, Unlock
    <2> QED
      BY <2>2, <2>3, <2>4, <2>5, <2>6 DEF GatherStep
  <1>2. Entered'
    BY MoveWithin
    DEF GatherStep, LockGather, TestGather, SleepGather, AwakeGather, Gathered, Entered, Past,
        BridgePlaces, Places
  <1>3. Gathering'
    <2>1. CASE LockGather(t) \/ AwakeGather(t)
      BY <2>1
      DEF GatherStep, LockGather, AwakeGather, Gathering, AllEntered, Types, Move
    <2>2. CASE TestGather(t)
      BY <2>2 DEF GatherStep, TestGather, Gathering, AllEntered, Types, Move, gathering
    <2>3. CASE SleepGather(t)
      BY <2>3
      DEF GatherStep, SleepGather, Gathering, AllEntered, Types, Move, CondWait, gathering
    <2>4. CASE Gathered(t)
      BY <2>4
      DEF GatherStep, Gathered, Gathering, AllEntered, Types, Move, Exclusion, GatherHolding,
          gathering
    <2> QED
      BY <2>1, <2>2, <2>3, <2>4 DEF GatherStep
  <1>4. Colours'
    BY DEF Colours, GatherStep, driving
  <1> QED
    BY <1>1, <1>2, <1>3, <1>4

\* Lines 53-110: the lights are only looked at.
LEMMA DriveIInv ==
    ASSUME IInv, NEW t \in Cars, ApproachStep(t) \/ DriveOff(t),
           UNCHANGED <<green, starting, gathering, no_cars_entered, street, light>>
    PROVE  IInv'
  <1> USE DEF IInv
  <1>1. Types' /\ Exclusion'
    BY CarTrafficAssumption
    DEF Types, Exclusion, Holding, GatherHolding, BridgePlaces, Places, ApproachStep, DriveOff,
        LockGate, SeeRed, Stop, Restart, SeeGreen, Move, Lock, Unlock, starting, gathering
  <1>2. Entered'
    BY MoveWithin
    DEF ApproachStep, DriveOff, LockGate, SeeRed, Stop, Restart, SeeGreen, Entered, Past,
        BridgePlaces, Places
  <1>3. \A u \in Cars : pc'[u] = "gdrowsy" => pc[u] = "gdrowsy"
    BY DEF ApproachStep, DriveOff, LockGate, SeeRed, Stop, Restart, SeeGreen, Move, Types
  <1>4. Gathering' /\ Colours'
    BY <1>3 DEF Gathering, AllEntered, Colours, gathering
  <1> QED
    BY <1>1, <1>2, <1>4

\* The light goes round with one street green at most; it starts to when all have
\* gathered.
LEMMA LightIInv ==
    ASSUME IInv, LightStep
    PROVE  IInv'
  <1> USE DEF IInv
  <1>1. UNCHANGED <<mutex, no_cars_entered, street, pc>>
    BY DEF LightStep
  <1>2. Exclusion' /\ Entered'
    <2>1. finish_cars_mutex' = finish_cars_mutex
      BY DEF LightStep, Show, CallCars, SeeInstantiated, CallGathered, AllRed, GreenForA,
             GreenForB, Turn, CallStreet, gathering
    <2> QED
      BY <1>1, <2>1 DEF Exclusion, Entered, At
  <1>3. Types' /\ Gathering' /\ Colours'
    <2> USE <1>1 DEF Types, Gathering, Colours, AllEntered, Cycle, LightPlaces, Switch,
                     starting, gathering, driving, Streets
    <2>1. CASE Show
      BY <2>1 DEF Show
    <2>2. CASE CallCars
      BY <2>2 DEF CallCars, Broadcast
    <2>3. CASE SeeInstantiated
      BY <2>3 DEF SeeInstantiated
    <2>4. CASE CallGathered
      BY <2>4 DEF CallGathered, Broadcast
    <2>5. CASE AllRed
      BY <2>5 DEF AllRed, Turn
    <2>6. CASE GreenForA
      BY <2>6 DEF GreenForA, Turn, CallStreet
    <2>7. CASE GreenForB
      BY <2>7 DEF GreenForB, Turn, CallStreet
    <2> QED
      BY <2>1, <2>2, <2>3, <2>4, <2>5, <2>6, <2>7 DEF LightStep
  <1> QED
    BY <1>2, <1>3

LEMMA SpuriousIInv ==
    ASSUME IInv, Spurious
    PROVE  IInv'
  <1> USE DEF IInv
  <1>1. /\ UNCHANGED <<mutex, finish_cars_mutex, flags, no_cars_entered, green, street, pc, light>>
        /\ cond' \subseteq cond /\ finish_cars' \subseteq finish_cars
        /\ queue' \in [Streets -> SUBSET Cars]
    BY DEF Spurious, SpuriousWakeup, Types
  <1>2. Types' /\ Exclusion' /\ Entered'
    BY <1>1 DEF Types, Exclusion, Entered, At, flags
  <1>3. Gathering' /\ Colours'
    BY <1>1 DEF Gathering, Colours, AllEntered, flags
  <1> QED
    BY <1>2, <1>3

LEMMA MainIInv ==
    ASSUME IInv, MainStep
    PROVE  IInv'
  <1> USE DEF IInv
  <1>1. ASSUME NEW t \in Cars, Create(t) PROVE IInv'
    <2>1. Types' /\ Exclusion'
      BY <1>1 DEF Create, Types, Exclusion, Holding, GatherHolding, Move, BridgePlaces, Places,
                  starting, gathering, driving
    <2>2. Entered'
      BY <1>1, MoveWithin DEF Create, Entered, Past
    <2>3. Gathering' /\ Colours'
      BY <1>1 DEF Create, Gathering, Colours, AllEntered, Move, Types, gathering, driving
    <2> QED
      BY <2>1, <2>2, <2>3
  <1>2. CASE CreateLight
    <2>1. /\ UNCHANGED <<mutex, finish_cars_mutex, cond, finish_cars, queue, no_cars_entered,
                         exists_traffic_light, all_cars_instantiated, green, street, pc>>
          /\ light = "new" /\ light' = "show"
      BY <1>2 DEF CreateLight, Switch, starting, gathering, driving
    <2> QED
      BY <2>1 DEF Types, Exclusion, Entered, At, Gathering, Colours, AllEntered, LightPlaces, Cycle
  <1> QED
    BY <1>1, <1>2 DEF MainStep

LEMMA NextIInv == IInv /\ [Next]_vars => IInv'
  <1> SUFFICES ASSUME IInv, [Next]_vars PROVE IInv'
    OBVIOUS
  <1>1. ASSUME NEW t \in Cars, CarStep(t) PROVE IInv'
    BY <1>1, StartIInv, GatherIInv, DriveIInv DEF CarStep, DriveStep
  <1>2. CASE UNCHANGED vars
    BY <1>2 DEF vars, starting, gathering, driving, IInv, Types, Exclusion, Entered, At,
                Gathering, Colours, AllEntered
  <1> QED
    BY <1>1, <1>2, MainIInv, LightIInv, SpuriousIInv DEF Next

LEMMA Invariance == Spec => []IInv
  BY InitIInv, NextIInv, PTL DEF Spec

\* In the first program no car is on a bridge.
OwnPlaces == pc \in [Cars -> Places]

LEMMA NextOwnPlaces == OwnPlaces /\ [Next]_vars => OwnPlaces'
  BY DEF OwnPlaces, Next, vars, MainStep, CreateLight, Create, LightStep, Spurious, CarStep, StartStep,
         LockStart, TestLight, Sleep, Awake, EnterStreet, GatherStep, LockGather, TestGather,
         SleepGather, AwakeGather, Gathered, DriveStep, ApproachStep, DriveOff, LockGate,
         SeeRed, Stop, Restart, SeeGreen, Move, Places

LEMMA InOwnPlaces == Spec => []OwnPlaces
  <1>1. Init => OwnPlaces
    BY DEF Init, Places, OwnPlaces
  <1> QED
    BY <1>1, NextOwnPlaces, PTL DEF Spec
------------------------------------------------------------------------------
(* The first program.                                                      *)

\* The variables of the traffic light program have their types, for every number of
\* cars: no_cars_entered never exceeds n, although cars wake up spuriously.
THEOREM TypeCorrect == Spec => []TypeOK
  <1>1. IInv /\ OwnPlaces => TypeOK
    BY CountCars DEF IInv, Types, Entered, OwnPlaces, TypeOK
  <1> QED
    BY <1>1, Invariance, InOwnPlaces, PTL

\* The writes of the light, which no mutex protects, are in an order in which the two
\* streets are never green together (lines 127-142).
THEOREM LightsExclude == Spec => []NeverBothGreen
  <1>1. IInv => NeverBothGreen
    BY DEF IInv, Colours, NeverBothGreen
  <1> QED
    BY <1>1, Invariance, PTL

\* The one broadcast of finish_cars (line 123) reaches every car: it is preceded by
\* the last test that fails, although no_cars_entered is under another mutex.
THEOREM AllGathered == Spec => []NobodyLeftGathering
  <1>1. IInv => NobodyLeftGathering
    BY DEF IInv, Gathering, NobodyLeftGathering
  <1> QED
    BY <1>1, Invariance, PTL
------------------------------------------------------------------------------
(* The bridge.                                                             *)

OnBridge == {"slot", "check", "cross"}
Slots == {"check", "cross", "free"}

LEMMA InitBridgeInv == BridgeInit => BridgeInv
  <1> SUFFICES ASSUME BridgeInit PROVE BridgeInv
    OBVIOUS
  <1>1. IInv
    BY InitIInv DEF BridgeInit
  <1>2. BridgeTypes
    BY CarsStreetAssumption DEF BridgeInit, BridgeTypes, Streets
  <1>3. /\ \A s \in Streets : On(s) = {}
        /\ {t \in Cars : pc[t] \in {"check", "cross", "free"}} = {}
    BY DEF BridgeInit, Init, On
  <1>4. SlotsAddUp /\ OneWay
    BY <1>3, FS_EmptySet, CarsStreetAssumption DEF BridgeInit, SlotsAddUp, OneWay, Streets
  <1> QED
    BY <1>1, <1>2, <1>4 DEF BridgeInv

\* Whoever is on the bridge holds the mutex and is alone there.
LEMMA AloneOnBridge ==
    ASSUME IInv, NEW t \in Cars, pc[t] \in Holding
    PROVE  \A s \in Streets :
               On(s) = IF street[t] = s /\ pc[t] \in OnBridge THEN {t} ELSE {}
  BY DEF IInv, Types, Exclusion, On, OnBridge, Holding

\* The steps of the bridge keep what the programs share.
LEMMA BridgeStepIInv ==
    ASSUME IInv, NEW t \in Cars, BridgeStep(t)
    PROVE  IInv'
  <1> USE DEF IInv
  <1>1. UNCHANGED <<driving, starting, gathering, no_cars_entered, street, light>>
    BY DEF BridgeStep
  <1>2. Types' /\ Exclusion'
    BY <1>1, CarTrafficAssumption
    DEF Types, Exclusion, Holding, GatherHolding, BridgePlaces, Places, BridgeStep, CountIn,
        TakeSlot, GiveWay, LeaveBridge, FreeSlot, Move, Unlock, starting, gathering, driving
  <1>3. Entered'
    BY <1>1, MoveWithin
    DEF BridgeStep, CountIn, TakeSlot, GiveWay, LeaveBridge, FreeSlot, Entered, Past,
        BridgePlaces, Places
  <1>4. \A u \in Cars : pc'[u] = "gdrowsy" => pc[u] = "gdrowsy"
    BY DEF BridgeStep, CountIn, TakeSlot, GiveWay, LeaveBridge, FreeSlot, Move, Types
  <1>5. Gathering' /\ Colours'
    BY <1>1, <1>4 DEF Gathering, AllEntered, Colours, gathering, driving
  <1> QED
    BY <1>2, <1>3, <1>5

\* Slots are taken and freed one by one.
LEMMA BridgeStepSlots ==
    ASSUME BridgeInv, NEW t \in Cars, BridgeStep(t)
    PROVE  SlotsAddUp' /\ sem_max' \in Nat
  <1>0. Cardinality(At(Slots)) \in Nat
    BY CountCars
  <1>1. /\ Types /\ sem_max \in Nat /\ MAX \in Nat
        /\ sem_max + Cardinality(At(Slots)) = MAX
    BY CarsStreetAssumption DEF BridgeInv, IInv, BridgeTypes, SlotsAddUp, At, Slots
  <1>2. SlotsAddUp' <=> sem_max' + Cardinality(At(Slots)') = MAX
    BY DEF SlotsAddUp, At, Slots
  <1>3. CASE TakeSlot(t)
    <2>1. Cardinality(At(Slots)') = Cardinality(At(Slots)) + 1
      <3>1. Move(t, "slot", "check") /\ "slot" \notin Slots /\ "check" \in Slots
        BY <1>3 DEF TakeSlot, Slots
      <3> QED
        BY <1>1, <3>1, MoveIn
    <2> QED
      BY <1>0, <1>1, <1>2, <1>3, <2>1 DEF TakeSlot, SemWait
  <1>4. CASE FreeSlot(t)
    <2>1. Cardinality(At(Slots)') = Cardinality(At(Slots)) - 1
      BY <1>1, <1>4, MoveOut DEF FreeSlot, Slots
    <2> QED
      BY <1>0, <1>1, <1>2, <1>4, <2>1 DEF FreeSlot, SemPost
  <1>5. CASE CountIn(t) \/ GiveWay(t) \/ LeaveBridge(t)
    <2>1. At(Slots)' = At(Slots)
      BY <1>1, <1>5, MoveWithin DEF CountIn, GiveWay, LeaveBridge, Slots
    <2>2. sem_max' = sem_max
      BY <1>5 DEF CountIn, GiveWay, LeaveBridge
    <2> QED
      BY <1>1, <1>2, <2>1, <2>2
  <1> QED
    BY <1>3, <1>4, <1>5 DEF BridgeStep

\* The counters follow the only car that can be on the bridge.
LEMMA BridgeStepOneWay ==
    ASSUME BridgeInv, NEW t \in Cars, BridgeStep(t)
    PROVE  OneWay' /\ rem_cars' \in [Streets -> Nat]
  <1>1. /\ IInv /\ IInv' /\ street' = street /\ street[t] \in Streets
        /\ rem_cars \in [Streets -> Nat] /\ \A s \in Streets : rem_cars[s] = Cardinality(On(s))
    BY BridgeStepIInv DEF BridgeInv, IInv, Types, BridgeTypes, BridgeStep, OneWay
  <1>2. /\ Cardinality({t}) = 1 /\ Cardinality({}) = 0
    BY FS_Singleton, FS_EmptySet
  <1> DEFINE only(b, s) == IF street[t] = s /\ b THEN {t} ELSE {}
  \* Only t may be on the bridge, before and after.
  <1>3. CASE CountIn(t)
    <2>1. pc[t] = "drive" /\ pc'[t] = "slot" /\ pc' = [pc EXCEPT ![t] = "slot"]
      BY <1>1, <1>3 DEF CountIn, Move, IInv, Types
    <2>2. \A s \in Streets : On(s) = {} /\ rem_cars[s] = 0
      BY <1>1, <1>2, <2>1, AloneOnBridge DEF Holding, OnBridge
    <2>3. \A s \in Streets : On(s)' = only(TRUE, s)
      BY <1>1, <2>1, <2>2 DEF On, IInv, Types
    <2>4. /\ rem_cars' \in [Streets -> Nat]
          /\ \A s \in Streets : rem_cars'[s] = IF street[t] = s THEN 1 ELSE 0
      BY <1>1, <1>3, <2>2 DEF CountIn
    <2> QED
      BY <1>1, <1>2, <2>3, <2>4 DEF OneWay, Streets
  <1>4. CASE TakeSlot(t) \/ GiveWay(t)
    <2>1. \A s \in Streets : On(s)' = On(s)
      BY <1>1, <1>4 DEF TakeSlot, GiveWay, On, Move, IInv, Types
    <2>2. rem_cars' = rem_cars
      BY <1>4 DEF TakeSlot, GiveWay
    <2> QED
      BY <1>1, <2>1, <2>2 DEF OneWay, BridgeInv, Streets
  <1>5. CASE LeaveBridge(t)
    <2>1. pc[t] = "cross" /\ pc' = [pc EXCEPT ![t] = "free"]
      BY <1>1, <1>5 DEF LeaveBridge, Move
    <2>2. \A s \in Streets : On(s) = only(TRUE, s) /\ rem_cars[s] = IF street[t] = s THEN 1 ELSE 0
      BY <1>1, <1>2, <2>1, AloneOnBridge DEF Holding, OnBridge
    <2>3. \A s \in Streets : On(s)' = {}
      BY <1>1, <2>1, <2>2 DEF On, IInv, Types
    <2>4. rem_cars' \in [Streets -> Nat] /\ \A s \in Streets : rem_cars'[s] = 0
      BY <1>1, <1>5, <2>2 DEF LeaveBridge
    <2> QED
      BY <1>1, <1>2, <2>3, <2>4 DEF OneWay, Streets
  <1>6. CASE FreeSlot(t)
    <2>1. \A s \in Streets : On(s)' = On(s)
      BY <1>1, <1>6 DEF FreeSlot, On, Move, IInv, Types
    <2>2. rem_cars' = rem_cars
      BY <1>6 DEF FreeSlot
    <2> QED
      BY <1>1, <2>1, <2>2 DEF OneWay, BridgeInv, Streets
  <1> QED
    BY <1>3, <1>4, <1>5, <1>6 DEF BridgeStep

LEMMA BridgeStepInv ==
    ASSUME BridgeInv, NEW t \in Cars, BridgeStep(t)
    PROVE  BridgeInv'
  <1>1. sem_rem_cars' \in [Streets -> 0 .. POST_BOUND]
    BY CarsStreetAssumption
    DEF BridgeInv, BridgeTypes, IInv, Types, BridgeStep, CountIn, TakeSlot, GiveWay, LeaveBridge,
        FreeSlot, PostRemaining, SemWaitAt, SemPostAt, Other, Streets, bridge
  <1> QED
    BY <1>1, BridgeStepIInv, BridgeStepSlots, BridgeStepOneWay DEF BridgeInv, BridgeTypes

\* All other steps are made by cars that are not on the bridge, or by nobody.
LEMMA BridgeStays ==
    ASSUME BridgeInv, IInv', UNCHANGED bridge,
           \A t \in Cars :
               \/ pc'[t] = pc[t] /\ street'[t] = street[t]
               \/ {pc[t], pc'[t]} \cap (OnBridge \cup Slots) = {}
    PROVE  BridgeInv'
  <1>1. /\ \A s \in Streets : On(s)' = On(s)
        /\ At(Slots)' = At(Slots)
    BY DEF On, At, OnBridge, Slots
  <1>2. SlotsAddUp' /\ OneWay'
    BY <1>1 DEF BridgeInv, SlotsAddUp, OneWay, At, Slots, bridge, Streets
  <1> QED
    BY <1>2 DEF BridgeInv, BridgeTypes, bridge

LEMMA NextBridgeInv == BridgeInv /\ [BridgeNext]_bridgeVars => BridgeInv'
  <1> SUFFICES ASSUME BridgeInv, [BridgeNext]_bridgeVars PROVE BridgeInv'
    OBVIOUS
  <1>1. IInv /\ Types
    BY DEF BridgeInv, IInv
  <1>2. ASSUME NEW t \in Cars, BridgeStart(t) PROVE BridgeInv'
    <2>1. IInv'
      BY <1>1, <1>2, StartIInv DEF BridgeStart
    <2> QED
      BY <1>1, <1>2, <2>1, BridgeStays
      DEF BridgeStart, StartStep, LockStart, TestLight, Sleep, Awake, EnterStreet, Move, Types,
          OnBridge, Slots
  <1>3. ASSUME NEW t \in Cars, BridgeGather(t) PROVE BridgeInv'
    <2>1. IInv'
      BY <1>1, <1>3, GatherIInv DEF BridgeGather
    <2> QED
      BY <1>1, <1>3, <2>1, BridgeStays
      DEF BridgeGather, GatherStep, LockGather, TestGather, SleepGather, AwakeGather, Gathered,
          Move, Types, OnBridge, Slots
  <1>4. ASSUME NEW t \in Cars, BridgeApproach(t) PROVE BridgeInv'
    <2>1. IInv'
      BY <1>1, <1>4, DriveIInv DEF BridgeApproach
    <2> QED
      BY <1>1, <1>4, <2>1, BridgeStays
      DEF BridgeApproach, ApproachStep, LockGate, SeeRed, Stop, Restart, SeeGreen, Move, Types,
          OnBridge, Slots
  <1>5. ASSUME NEW t \in Cars, BridgeStep(t) PROVE BridgeInv'
    BY <1>5, BridgeStepInv
  <1>6. CASE ControllerStep
    <2>1. IInv'
      BY <1>1, <1>6, LightIInv DEF ControllerStep
    <2> QED
      BY <1>6, <2>1, BridgeStays DEF ControllerStep, LightStep
  <1>7. CASE BridgeSpurious
    <2>1. IInv'
      BY <1>1, <1>7, SpuriousIInv DEF BridgeSpurious
    <2> QED
      BY <1>7, <2>1, BridgeStays DEF BridgeSpurious, Spurious
  <1>8. CASE BridgeMain
    <2>1. IInv'
      BY <1>1, <1>8, MainIInv DEF BridgeMain
    <2> QED
      BY <1>1, <1>8, <2>1, BridgeStays
      DEF BridgeMain, MainStep, CreateLight, Create, Move, Types, OnBridge, Slots
  <1>9. CASE UNCHANGED bridgeVars
    <2>1. IInv'
      BY <1>1, <1>9, NextIInv DEF bridgeVars
    <2> QED
      BY <1>9, <2>1, BridgeStays DEF bridgeVars, vars
  <1> QED
    BY <1>2, <1>3, <1>4, <1>5, <1>6, <1>7, <1>8, <1>9 DEF BridgeNext, BridgeCarStep

LEMMA BridgeInvariance == BridgeSpec => []BridgeInv
  BY InitBridgeInv, NextBridgeInv, PTL DEF BridgeSpec

\* A car waits for a slot and frees it in different critical sections, the second in
\* none (lines 98 and 148): no slot is lost or used twice, whatever MAX is.
THEOREM SlotsAreKept == BridgeSpec => []SlotsAddUp
  <1>1. BridgeInv => SlotsAddUp
    BY DEF BridgeInv
  <1> QED
    BY <1>1, BridgeInvariance, PTL

\* The bridge is one way, and the counters that lines 99-146 compare are the cars that
\* are on it.
THEOREM BridgeIsOneWay == BridgeSpec => []OneWay
  <1>1. BridgeInv => OneWay
    BY DEF BridgeInv
  <1> QED
    BY <1>1, BridgeInvariance, PTL

LEMMA BridgeTypesOK == BridgeInv => BridgeTypeOK
  <1> SUFFICES ASSUME BridgeInv PROVE BridgeTypeOK
    OBVIOUS
  <1>1. sem_max \in 0 .. MAX
    <2>1. Cardinality(At(Slots)) \in Nat
      BY CountCars
    <2> QED
      BY <2>1, CarsStreetAssumption DEF BridgeInv, BridgeTypes, SlotsAddUp, At, Slots
  <1>2. \A s \in Streets : rem_cars[s] \in 0 .. n
    BY CountSome DEF BridgeInv, OneWay, On
  <1> QED
    BY <1>1, <1>2 DEF BridgeInv, BridgeTypes, IInv, Types, BridgeTypeOK

\* What the bridge adds has its types.
THEOREM BridgeTypeCorrect == BridgeSpec => []BridgeTypeOK
  BY BridgeTypesOK, BridgeInvariance, PTL

\* The traffic controller and the start of the second program are as safe as the first
\* program's.
THEOREM BridgeLights == BridgeSpec => [](NeverBothGreen /\ NobodyLeftGathering)
  <1>1. BridgeInv => NeverBothGreen /\ NobodyLeftGathering
    BY DEF BridgeInv, IInv, Colours, NeverBothGreen, Gathering, NobodyLeftGathering
  <1> QED
    BY <1>1, BridgeInvariance, PTL
------------------------------------------------------------------------------
(* The two programs as they are run.                                       *)

\* A run of the first program has no car on a bridge; one of the second begins when the
\* cars have gathered.
MCInv == BridgeInv /\ (program = "light" => OwnPlaces)

LEMMA InitMCInv == MCInit => MCInv
  <1>1. ASSUME BridgeInit PROVE BridgeInv /\ OwnPlaces
    BY <1>1, InitBridgeInv DEF BridgeInit, Init, Places, OwnPlaces
  <1>2. ASSUME MCInit, program = "bridge" PROVE BridgeInv
    <2>1. /\ sem_max = MAX /\ sem_rem_cars = [s \in Streets |-> 1]
          /\ rem_cars = [s \in Streets |-> 0]
          /\ mutex = Nobody /\ finish_cars_mutex = Nobody /\ cond = {} /\ finish_cars = {}
          /\ queue = [s \in Streets |-> {}]
          /\ exists_traffic_light = TRUE /\ all_cars_instantiated = TRUE
          /\ no_cars_entered = n /\ green = [s \in Streets |-> FALSE]
          /\ street \in [Cars -> Streets] /\ pc = [t \in Cars |-> "loop"] /\ light = "callall"
      BY <1>2 DEF MCInit
    <2>2. n \in Nat
      BY CarTrafficAssumption, FS_CardinalityType DEF n
    <2>3. Types /\ Exclusion
      BY <2>1, <2>2, CarTrafficAssumption
      DEF Types, Exclusion, Holding, GatherHolding, BridgePlaces, Places, LightPlaces
    <2>4. At(Past) = Cars
      BY <2>1 DEF At, Past, BridgePlaces, Places
    <2>5. Entered /\ Gathering /\ Colours
      BY <2>1, <2>2, <2>4 DEF Entered, Gathering, AllEntered, Colours, Cycle, Streets, n
    <2>6. /\ \A s \in Streets : On(s) = {}
          /\ {t \in Cars : pc[t] \in {"check", "cross", "free"}} = {}
      BY <2>1 DEF On
    <2>7. SlotsAddUp /\ OneWay
      BY <2>1, <2>6, FS_EmptySet, CarsStreetAssumption DEF SlotsAddUp, OneWay, Streets
    <2>8. BridgeTypes
      BY <2>1, CarsStreetAssumption DEF BridgeTypes, Streets
    <2> QED
      BY <2>3, <2>5, <2>7, <2>8 DEF BridgeInv, IInv
  <1> QED
    BY <1>1, <1>2 DEF MCInit, MCInv

LEMMA NextMCInv == MCInv /\ [MCNext]_allVars => MCInv'
  <1> SUFFICES ASSUME MCInv, [MCNext]_allVars PROVE MCInv'
    OBVIOUS
  <1>1. BridgeInv /\ IInv /\ Types
    BY DEF MCInv, BridgeInv, IInv
  <1>2. ASSUME NEW t \in Cars, CarStep(t), UNCHANGED bridge, program = "light" PROVE BridgeInv'
    <2>1. IInv'
      BY <1>1, <1>2, NextIInv DEF Next
    <2>2. CASE StartStep(t) \/ GatherStep(t) \/ ApproachStep(t)
      BY <1>1, <1>2, <2>2, NextBridgeInv
      DEF CarStep, DriveStep, BridgeNext, BridgeCarStep, BridgeStart, BridgeGather, BridgeApproach
    <2>3. CASE DriveOff(t)
      BY <1>1, <1>2, <2>1, <2>3, BridgeStays DEF CarStep, DriveOff, Move, Types, OnBridge, Slots
    <2> QED
      BY <1>2, <2>2, <2>3 DEF CarStep, DriveStep
  <1>3. ASSUME BridgeMain \/ ControllerStep \/ BridgeSpurious \/ UNCHANGED bridgeVars
        PROVE  BridgeInv' /\ (OwnPlaces => OwnPlaces')
    BY <1>1, <1>3, NextBridgeInv, NextOwnPlaces
    DEF BridgeNext, BridgeMain, ControllerStep, BridgeSpurious, Next, bridgeVars
  <1>4. ASSUME NEW t \in Cars, MCCar(t) PROVE MCInv'
    <2>1. CASE program = "light" /\ CarStep(t) /\ UNCHANGED bridge
      BY <1>2, <1>4, <2>1, NextOwnPlaces DEF MCCar, MCInv, Next
    <2>2. CASE program = "bridge" /\ (BridgeApproach(t) \/ BridgeStep(t))
      BY <1>1, <1>4, <2>2, NextBridgeInv DEF MCCar, MCInv, BridgeNext, BridgeCarStep
    <2> QED
      BY <1>4, <2>1, <2>2 DEF MCCar
  <1> QED
    BY <1>3, <1>4 DEF MCNext, MCMain, MCLight, MCSpurious, MCInv, allVars

LEMMA MCInvariance == MCSpec => []MCInv
  BY InitMCInv, NextMCInv, PTL DEF MCSpec

\* The variables of both programs have their types, for every finite set of cars and
\* every number of slots; no car of the first program is on a bridge.
THEOREM StreetsTypeCorrect == MCSpec => []MCTypeOK
  <1>1. MCInv => MCTypeOK
    BY CountCars, BridgeTypesOK
    DEF MCInv, BridgeInv, IInv, Types, Entered, OwnPlaces, TypeOK, MCTypeOK
  <1> QED
    BY <1>1, MCInvariance, PTL

\* As long as the second program runs on from the gathered cars, and the first from its
\* start: the streets are never green together, no car is left at the start barrier, and
\* the bridge is one way with every slot free or held.
THEOREM StreetsAreSafe ==
    MCSpec => [](NeverBothGreen /\ NobodyLeftGathering /\ SlotsAddUp /\ OneWay)
  <1>1. MCInv => NeverBothGreen /\ NobodyLeftGathering /\ SlotsAddUp /\ OneWay
    BY DEF MCInv, BridgeInv, IInv, Colours, NeverBothGreen, Gathering, NobodyLeftGathering
  <1> QED
    BY <1>1, MCInvariance, PTL
===============================================================================
