------------------------- MODULE MCProcesses_proofs --------------------------
(***************************************************************************)
(* Proofs about the programs of MCProcesses whose clients share a server,  *)
(* for every number of clients and requests: the socket server's clients   *)
(* read the answers to their own requests, no two clients of the id server *)
(* whose threads read their ids in time have the same, what the server of  *)
(* the file transfer reports as received is the file that was sent, and    *)
(* the calculator over pipes adds numbers of one client.  All of them keep *)
(* their types, and a run of MCProcesses is a run of each.                 *)
(***************************************************************************)
EXTENDS MCProcesses, Sequences, SequenceTheorems, FiniteSetTheorems, TLAPS

\* Min, written with CHOOSE, is an element of its set (a lowest one exists).
LEMMA LeastIsIn == ASSUME NEW S \in SUBSET Nat, S # {} PROVE Min(S) \in S
  <1> DEFINE Below(x) == 0 .. x
             R == StrictSubsetOrdering(Nat)
             T == {Below(x) : x \in S}
  <1>1. T \subseteq FiniteSubsetsOf(Nat)
    <2>1. \A x \in Nat : IsFiniteSet(Below(x)) /\ Below(x) \subseteq Nat
      BY FS_Interval
    <2> QED
      BY <2>1 DEF FiniteSubsetsOf
  <1>2. T # {}
    OBVIOUS
  <1>3. PICK low \in T : \A y \in T : ~ (<<y, low>> \in R)
    <2> HIDE DEF T, R
    <2>1. IsWellFoundedOn(StrictSubsetOrdering(Nat), FiniteSubsetsOf(Nat))
      BY FS_StrictSubsetOrderingWellFounded
    <2> QED
      BY <1>1, <1>2, <2>1, WFMin DEF R
  <1>4. PICK x \in S : low = Below(x)
    BY <1>3
  <1>5. \A y \in S : x <= y
    <2> SUFFICES ASSUME NEW y \in S, y < x PROVE FALSE
      OBVIOUS
    <2>1. Below(y) \subseteq Below(x) /\ x \in Below(x) /\ x \notin Below(y)
      OBVIOUS
    <2>2. <<Below(y), Below(x)>> \in R
      BY <2>1 DEF StrictSubsetOrdering
    <2> QED
      BY <1>3, <1>4, <2>2
  <1> QED
    BY <1>5 DEF Min
------------------------------------------------------------------------------
(***************************************************************************)
(* The socket server.                                                      *)
(***************************************************************************)
ServerTypes ==
    /\ client \in [Clients -> {"new", "idle", "waiting", "gone"}]
    /\ request \in [Clients -> Lines \cup {"none"}]
    /\ answers \in [Clients -> SUBSET {"own", "other"}]
    /\ main \in {"accept", "store", "load", "write", "create"}
    /\ accepted \in 0 .. N
    /\ descriptor \in [Descriptors -> 0 .. N]
    /\ thread \in [Threads -> {"new", "copy", "test", "call", "reading", "send", "load",
                               "write", "close", "done"}]
    /\ socket \in [Threads -> 0 .. N]
    /\ op \in [Threads -> Lines \cup {"none"}]
    /\ conn \in [Threads -> 0 .. N]
    /\ overwritten \in BOOLEAN

\* Whoever uses a descriptor got it from main, and a thread that reads has a connection.
Passed ==
    /\ main # "accept" => new_socket \in Descriptors
    /\ \A t \in Threads :
        /\ thread[t] # "new" => new_data \in Descriptors
        /\ t \in Handlers => socket[t] \in Descriptors
        /\ thread[t] = "reading" => conn[t] \in Clients
        /\ thread[t] \in {"new", "copy"} => conn[t] = None

\* Each connection has one descriptor at most, and main comes to one client after another.
Opened ==
    /\ \A d \in Descriptors : descriptor[d] <= accepted
    /\ \A d, e \in Descriptors : descriptor[d] = descriptor[e] /\ descriptor[d] # None => d = e
    /\ \A t \in Threads : t > accepted => thread[t] = "new"
    /\ main # "accept" => accepted \in Threads /\ thread[accepted] = "new"

\* While main has not used new_data too early, it has written there for the one thread that
\* has not copied it, and every handler has its own connection.
Undisturbed ==
    ~overwritten =>
        /\ main # "accept" => descriptor[new_socket] = accepted
        /\ \A t \in Threads : thread[t] = "copy" => descriptor[new_data] = t
        /\ \A t \in Handlers :
            /\ descriptor[socket[t]] = t
            /\ conn[t] \in IF thread[t] \in {"test", "call"} THEN {None, t} ELSE {t}
        /\ \A c \in Clients : answers[c] \subseteq {"own"}

\* The inductive invariant.
ServerInv == ServerTypes /\ Passed /\ Opened /\ Undisturbed

LEMMA ServerInit == Init => ServerInv
  <1> SUFFICES ASSUME Init PROVE ServerInv
    OBVIOUS
  <1>0. None = 0 /\ 0 \in 0 .. N
    BY ServerAssumption DEF None
  <1>1. ServerTypes
    BY <1>0 DEF Init, ServerTypes
  <1>2. Passed /\ Opened /\ Undisturbed
    BY <1>1 DEF Init, ServerTypes, Passed, Opened, Undisturbed, Handlers, None
  <1> QED
    BY <1>1, <1>2 DEF ServerInv

LEMMA ClientStepInv == ASSUME ServerInv, NEW c \in Clients, ClientStep(c) PROVE ServerInv'
  <1>1. /\ UNCHANGED serverVars
        /\ client' \in [Clients -> {"new", "idle", "waiting", "gone"}]
        /\ request' \in [Clients -> Lines \cup {"none"}]
        /\ answers' = answers \/ answers' = [answers EXCEPT ![c] = {}]
    BY DEF ClientStep, Connect, Request, Answer, Quit, Vanish, Go, ServerInv, ServerTypes, Lines
  <1>2. ServerTypes'
    BY <1>1 DEF ServerInv, ServerTypes, serverVars, mainVars, threadVars
  <1>3. (Passed /\ Opened)'
    BY <1>1 DEF ServerInv, Passed, Opened, Handlers, serverVars, mainVars, threadVars
  <1>4. Undisturbed'
    BY <1>1 DEF ServerInv, ServerTypes, Undisturbed, Handlers, serverVars, mainVars, threadVars
  <1> QED
    BY <1>2, <1>3, <1>4 DEF ServerInv

\* A descriptor is free when a client is left to be accepted and no connection has two.
LEMMA SomeFree ==
    ASSUME NEW k \in Nat, k < N, NEW owner \in [1 .. N -> 0 .. k],
           \A d, e \in 1 .. N : owner[d] = owner[e] /\ owner[d] # 0 => d = e
    PROVE  {d \in 1 .. N : owner[d] = 0} # {}
  <1> SUFFICES ASSUME \A d \in 1 .. N : owner[d] # 0 PROVE FALSE
    OBVIOUS
  <1> DEFINE D == 1 .. N
             R == 1 .. k
  <1>1. owner \in [D -> R] /\ N \in Nat
    BY ServerAssumption
  <1>2. IsFiniteSet(D) /\ Cardinality(D) = N /\ IsFiniteSet(R) /\ Cardinality(R) = k
    BY <1>1, FS_Interval
  <1>3. Cardinality(R) < Cardinality(D)
    BY <1>2
  <1>4. \E d, e \in D : d # e /\ owner[d] = owner[e]
    <2> HIDE DEF D, R
    <2> QED
      BY <1>1, <1>2, <1>3, FS_PigeonHole
  <1> QED
    BY <1>4

LEMMA AcceptInv == ASSUME ServerInv, Accept, UNCHANGED <<clientVars, answers>> PROVE ServerInv'
  <1> DEFINE d == Min({e \in Descriptors : descriptor[e] = None})
  <1>1. d \in Descriptors /\ descriptor[d] = None
    <2>1. {e \in Descriptors : descriptor[e] = None} \in SUBSET Nat
      BY DEF Descriptors, Clients
    <2>2. accepted \in Nat /\ accepted < N /\ descriptor \in [1 .. N -> 0 .. accepted]
      BY ServerAssumption DEF Accept, ServerInv, ServerTypes, Opened, Descriptors, Clients
    <2>3. {e \in Descriptors : descriptor[e] = None} # {}
      BY <2>2, SomeFree DEF ServerInv, Opened, Descriptors, Clients, None
    <2> QED
      BY <2>1, <2>3, LeastIsIn
  <1>2. /\ accepted < N /\ main = "accept" /\ main' = "store" /\ accepted' = accepted + 1
        /\ new_socket' = d /\ descriptor' = [descriptor EXCEPT ![d] = accepted + 1]
        /\ UNCHANGED <<client, request, answers, thread, socket, op, conn, new_data, overwritten>>
    BY DEF Accept, Main, threadVars, clientVars
  <1> HIDE DEF d
  <1>3. accepted + 1 \in Threads /\ thread[accepted + 1] = "new" /\ accepted \in Nat
    BY <1>2, ServerAssumption DEF ServerInv, ServerTypes, Opened, Threads, Clients
  <1>4. ServerTypes'
    BY <1>1, <1>2, <1>3 DEF ServerInv, ServerTypes, Threads, Clients
  <1>5. Passed'
    BY <1>1, <1>2 DEF ServerInv, Passed, Handlers
  <1>6. Opened'
    BY <1>1, <1>2, <1>3 DEF ServerInv, ServerTypes, Opened, None, Threads, Clients
  <1>7. Undisturbed'
    <2>1. \A t \in Threads : t # None
      BY DEF Threads, Clients, None
    <2>2. \A e \in Descriptors : descriptor[e] # None => descriptor'[e] = descriptor[e]
      BY <1>1, <1>2 DEF ServerInv, ServerTypes
    <2>3. descriptor'[d] = accepted + 1
      BY <1>1, <1>2 DEF ServerInv, ServerTypes
    <2> SUFFICES ASSUME ~overwritten PROVE Undisturbed'
      BY <1>2 DEF Undisturbed
    <2>4. \A t \in Threads : thread[t] = "copy" => descriptor'[new_data] = t
      BY <2>1, <2>2 DEF ServerInv, Passed, Undisturbed
    <2>5. \A t \in Handlers : descriptor'[socket[t]] = t
      <3>1. \A t \in Handlers :
               t # None /\ socket[t] \in Descriptors /\ descriptor[socket[t]] = t
        BY <2>1 DEF ServerInv, Passed, Undisturbed, Handlers
      <3> QED
        BY <3>1, <2>2
    <2> QED
      BY <1>2, <2>3, <2>4, <2>5 DEF ServerInv, Undisturbed, Handlers
  <1> QED
    BY <1>4, <1>5, <1>6, <1>7 DEF ServerInv

LEMMA MainStepInv == ASSUME ServerInv, MainStep PROVE ServerInv'
  <1>1. CASE Accept
    BY <1>1, AcceptInv DEF MainStep
  <1>2. CASE Store \/ CountIn
    <2>1. /\ main \in {"store", "load", "write"} /\ main' \in {"load", "write", "create"}
          /\ UNCHANGED <<client, request, answers, accepted, descriptor, new_socket, new_data,
                         thread, socket, op, conn, overwritten>>
      BY <1>2 DEF MainStep, Store, CountIn, Main, threadVars, clientVars
    <2> QED
      BY <2>1 DEF ServerInv, ServerTypes, Passed, Opened, Undisturbed, Handlers
  <1>3. CASE Create
    <2>1. /\ main = "create" /\ main' = "accept" /\ new_data' = new_socket
          /\ overwritten' = (overwritten \/ \E t \in Threads : thread[t] = "copy")
          /\ thread' = [thread EXCEPT ![accepted] = "copy"]
          /\ UNCHANGED <<client, request, answers, accepted, descriptor, new_socket,
                         socket, op, conn>>
      BY <1>3 DEF MainStep, Create, Main, clientVars
    <2>2. accepted \in Threads /\ thread[accepted] = "new" /\ new_socket \in Descriptors
      BY <2>1 DEF ServerInv, Opened, Passed
    <2>3. ServerTypes'
      BY <2>1, <2>2 DEF ServerInv, ServerTypes
    <2>4. Handlers' = Handlers
      BY <2>1, <2>2 DEF ServerInv, ServerTypes, Handlers
    <2>5. Passed' /\ Opened'
      BY <2>1, <2>2, <2>4 DEF ServerInv, ServerTypes, Passed, Opened
    <2>6. Undisturbed'
      <3> SUFFICES ASSUME ~overwritten, \A t \in Threads : thread[t] # "copy" PROVE Undisturbed'
        BY <2>1 DEF Undisturbed
      <3>1. \A t \in Threads : thread'[t] = "copy" => descriptor[new_socket] = t
        BY <2>1, <2>2 DEF ServerInv, ServerTypes, Undisturbed
      <3>2. \A t \in Handlers : thread'[t] = thread[t]
        BY <2>1, <2>2 DEF ServerInv, ServerTypes, Handlers
      <3> QED
        BY <2>1, <2>4, <3>1, <3>2 DEF ServerInv, Undisturbed
    <2> QED
      BY <2>3, <2>5, <2>6 DEF ServerInv
  <1> QED
    BY <1>1, <1>2, <1>3 DEF MainStep

\* A step of a handler that changes neither descriptors nor connections, nor sends.
LEMMA HandlerGoesOn ==
    ASSUME ServerInv, NEW t \in Handlers,
           NEW to \in {"test", "call", "reading", "send", "load", "write", "close", "done"},
           thread' = [thread EXCEPT ![t] = to],
           to = "reading" => conn[t] \in Clients,
           thread[t] \in {"test", "call"} => to \in {"call", "done"},
           request' \in [Clients -> Lines \cup {"none"}], op' \in [Threads -> Lines \cup {"none"}],
           UNCHANGED <<client, main, accepted, descriptor, new_socket, new_data, socket, conn,
                       overwritten>>,
           answers' \in [Clients -> SUBSET {"own", "other"}],
           ~overwritten => \A c \in Clients : answers'[c] \subseteq {"own"}
    PROVE  ServerInv'
  <1>1. t \in Threads /\ thread[t] # "new" /\ thread[t] # "copy"
    BY DEF Handlers
  <1>2. ServerTypes'
    BY <1>1 DEF ServerInv, ServerTypes
  <1>3. Handlers' \subseteq Handlers
    BY <1>1 DEF ServerInv, ServerTypes, Handlers
  <1>4. (Passed /\ Opened)'
    BY <1>1, <1>3 DEF ServerInv, ServerTypes, Passed, Opened
  <1>5. Undisturbed'
    <2> SUFFICES ASSUME ~overwritten PROVE Undisturbed'
      BY DEF Undisturbed
    <2>1. \A u \in Threads : thread'[u] = "copy" => thread[u] = "copy"
      BY <1>1 DEF ServerInv, ServerTypes
    <2>2. \A u \in Handlers : u # t => thread'[u] = thread[u]
      BY <1>1 DEF ServerInv, ServerTypes, Handlers
    <2>3. t \in Handlers' => conn[t] \in IF to \in {"test", "call"} THEN {None, t} ELSE {t}
      BY <1>1 DEF ServerInv, ServerTypes, Undisturbed, Handlers
    <2>a. thread'[t] = to
      BY <1>1 DEF ServerInv, ServerTypes
    <2>4. \A u \in Handlers' :
             conn[u] \in IF thread'[u] \in {"test", "call"} THEN {None, u} ELSE {u}
      BY <1>3, <2>2, <2>3, <2>a DEF ServerInv, Undisturbed
    <2>5. \A u \in Handlers' : descriptor[socket[u]] = u
      BY <1>3 DEF ServerInv, Undisturbed
    <2> QED
      BY <1>3, <2>1, <2>4, <2>5 DEF ServerInv, Undisturbed
  <1> QED
    BY <1>2, <1>4, <1>5 DEF ServerInv

LEMMA CopyInv ==
    ASSUME ServerInv, NEW t \in Threads, Copy(t), UNCHANGED <<client, typed, mainVars>>
    PROVE  ServerInv'
  <1>1. /\ thread[t] = "copy" /\ thread' = [thread EXCEPT ![t] = "test"]
        /\ socket' = [socket EXCEPT ![t] = new_data]
        /\ UNCHANGED <<client, request, answers, main, accepted, descriptor, new_socket, new_data,
                       op, conn, overwritten>>
    BY DEF Copy, Move, mainVars
  <1>2. new_data \in Descriptors /\ conn[t] = None /\ new_data \in 0 .. N
    BY <1>1 DEF ServerInv, Passed, Descriptors, Clients
  <1>3. ServerTypes'
    BY <1>1, <1>2 DEF ServerInv, ServerTypes
  <1>4. Handlers' = Handlers \cup {t}
    BY <1>1 DEF ServerInv, ServerTypes, Handlers
  <1>5. (Passed /\ Opened)'
    BY <1>1, <1>2, <1>4 DEF ServerInv, ServerTypes, Passed, Opened
  <1>6. Undisturbed'
    <2> SUFFICES ASSUME ~overwritten PROVE Undisturbed'
      BY <1>1 DEF Undisturbed
    <2>1. descriptor[new_data] = t /\ socket'[t] = new_data /\ thread'[t] = "test"
      BY <1>1 DEF ServerInv, ServerTypes, Undisturbed
    <2>2. \A u \in Threads \ {t} : thread'[u] = thread[u] /\ socket'[u] = socket[u]
      BY <1>1 DEF ServerInv, ServerTypes
    <2>3. \A u \in Handlers' \ {t} : u \in Handlers /\ u \in Threads \ {t}
      BY <1>4 DEF Handlers
    <2>4. \A u \in Handlers' :
             /\ descriptor[socket'[u]] = u
             /\ conn[u] \in IF thread'[u] \in {"test", "call"} THEN {None, u} ELSE {u}
      BY <1>2, <2>1, <2>2, <2>3 DEF ServerInv, Undisturbed
    <2>5. \A u \in Threads : thread'[u] = "copy" => descriptor[new_data] = u
      BY <2>1, <2>2 DEF ServerInv, Undisturbed
    <2> QED
      BY <1>1, <2>4, <2>5 DEF ServerInv, Undisturbed
  <1> QED
    BY <1>3, <1>5, <1>6 DEF ServerInv

LEMMA CallInv ==
    ASSUME ServerInv, NEW t \in Threads, Call(t), UNCHANGED <<client, typed, mainVars>>
    PROVE  ServerInv'
  <1> DEFINE to == IF descriptor[socket[t]] = None THEN "done" ELSE "reading"
  <1>1. /\ thread[t] = "call" /\ thread' = [thread EXCEPT ![t] = to]
        /\ conn' = [conn EXCEPT ![t] = descriptor[socket[t]]]
        /\ UNCHANGED <<client, request, answers, main, accepted, descriptor, new_socket, new_data,
                       socket, op, overwritten>>
    BY DEF Call, Move, mainVars
  <1>2. t \in Handlers
    BY <1>1 DEF Handlers
  <1>3. socket[t] \in Descriptors /\ descriptor[socket[t]] \in 0 .. N
    BY <1>2 DEF ServerInv, ServerTypes, Passed
  <1>4. to = "reading" => descriptor[socket[t]] \in Clients
    BY <1>3, ServerAssumption DEF Clients, None
  <1>5. to \in {"done", "reading"}
    OBVIOUS
  <1> HIDE DEF to
  <1>6. ServerTypes'
    BY <1>1, <1>3, <1>5 DEF ServerInv, ServerTypes
  <1>7. Handlers' \subseteq Handlers
    BY <1>1, <1>2 DEF ServerInv, ServerTypes, Handlers
  <1>8. (Passed /\ Opened)'
    BY <1>1, <1>3, <1>4, <1>5, <1>7 DEF ServerInv, ServerTypes, Passed, Opened
  <1>9. Undisturbed'
    <2> SUFFICES ASSUME ~overwritten PROVE Undisturbed'
      BY <1>1 DEF Undisturbed
    <2>1. descriptor[socket[t]] = t /\ conn'[t] = t
      BY <1>1, <1>2 DEF ServerInv, ServerTypes, Undisturbed
    <2>2. \A u \in Threads \ {t} : thread'[u] = thread[u] /\ conn'[u] = conn[u]
      BY <1>1 DEF ServerInv, ServerTypes
    <2>3. \A u \in Handlers' : u \in Handlers /\ u \in Threads
      BY <1>7 DEF Handlers
    <2>4. \A u \in Handlers' :
             /\ descriptor[socket[u]] = u
             /\ conn'[u] \in IF thread'[u] \in {"test", "call"} THEN {None, u} ELSE {u}
      BY <2>1, <2>2, <2>3 DEF ServerInv, Undisturbed
    <2>5. \A u \in Threads : thread'[u] = "copy" => thread[u] = "copy"
      BY <1>1, <1>5 DEF ServerInv, ServerTypes
    <2> QED
      BY <1>1, <2>4, <2>5 DEF ServerInv, Undisturbed
  <1> QED
    BY <1>6, <1>8, <1>9 DEF ServerInv

\* The answer goes where the line came from.
LEMMA SendInv ==
    ASSUME ServerInv, NEW t \in Threads, Send(t), UNCHANGED <<client, typed, mainVars>>
    PROVE  ServerInv'
  <1> DEFINE to == descriptor[socket[t]]
  <1>1. /\ thread[t] = "send" /\ thread' = [thread EXCEPT ![t] = "test"]
        /\ \/ answers' = answers
           \/ /\ to # None
              /\ answers' = [answers EXCEPT ![to] = @ \cup {IF to = conn[t] THEN "own" ELSE "other"}]
        /\ UNCHANGED <<client, request, main, accepted, descriptor, new_socket, new_data,
                       socket, op, conn, overwritten>>
    BY DEF Send, Move, mainVars
  <1>2. t \in Handlers /\ to \in 0 .. N /\ (~overwritten => to = t /\ conn[t] = t)
    BY <1>1 DEF Handlers, ServerInv, ServerTypes, Passed, Undisturbed
  <1>3. to # None => to \in Clients
    BY <1>2, ServerAssumption DEF Clients, None
  <1> HIDE DEF to
  <1>4. answers' \in [Clients -> SUBSET {"own", "other"}]
    BY <1>1, <1>3 DEF ServerInv, ServerTypes
  <1>5. ~overwritten => \A c \in Clients : answers'[c] \subseteq {"own"}
    BY <1>1, <1>2, <1>3 DEF ServerInv, ServerTypes, Undisturbed
  <1>6. request' \in [Clients -> Lines \cup {"none"}] /\ op' \in [Threads -> Lines \cup {"none"}]
    BY <1>1 DEF ServerInv, ServerTypes
  <1> QED
    BY <1>1, <1>2, <1>4, <1>5, <1>6, HandlerGoesOn

LEMMA CloseInv ==
    ASSUME ServerInv, NEW t \in Threads, Close(t), UNCHANGED <<client, typed, mainVars>>
    PROVE  ServerInv'
  <1>1. /\ thread[t] = "close" /\ thread' = [thread EXCEPT ![t] = "done"]
        /\ descriptor' = [descriptor EXCEPT ![socket[t]] = None]
        /\ UNCHANGED <<client, request, answers, main, accepted, new_socket, new_data,
                       socket, op, conn, overwritten>>
    BY DEF Close, Move, mainVars
  <1>2. t \in Handlers /\ socket[t] \in Descriptors /\ t # None /\ None \in 0 .. N
    BY <1>1, ServerAssumption DEF Handlers, ServerInv, Passed, Threads, Clients, None
  <1>3. ServerTypes'
    BY <1>1, <1>2 DEF ServerInv, ServerTypes
  <1>4. Handlers' = Handlers \ {t}
    BY <1>1, <1>2 DEF ServerInv, ServerTypes, Handlers
  <1>5. Passed'
    BY <1>1, <1>4 DEF ServerInv, ServerTypes, Passed
  <1>6. Opened'
    BY <1>1, <1>2, ServerAssumption DEF ServerInv, ServerTypes, Opened, None
  <1>7. Undisturbed'
    <2> SUFFICES ASSUME ~overwritten PROVE Undisturbed'
      BY <1>1 DEF Undisturbed
    <2>1. descriptor[socket[t]] = t
      BY <1>2 DEF ServerInv, Undisturbed
    <2>2. \A d \in Descriptors : descriptor[d] # t => descriptor'[d] = descriptor[d]
      BY <1>1, <1>2, <2>1 DEF ServerInv, ServerTypes
    <2>3. main # "accept" => accepted # t
      BY <1>1 DEF ServerInv, Opened
    <2>4. main # "accept" => descriptor'[new_socket] = accepted
      BY <2>2, <2>3 DEF ServerInv, Passed, Undisturbed
    <2>5. \A u \in Threads : thread'[u] = "copy" => u # t /\ thread[u] = "copy"
      BY <1>1 DEF ServerInv, ServerTypes
    <2>6. \A u \in Threads : thread'[u] = "copy" => descriptor'[new_data] = u
      BY <2>2, <2>5 DEF ServerInv, Passed, Undisturbed
    <2>7. \A u \in Handlers' : u \in Handlers /\ u # t /\ thread'[u] = thread[u]
      BY <1>1, <1>4 DEF ServerInv, ServerTypes, Handlers
    <2>8. \A u \in Handlers' :
             socket[u] \in Descriptors /\ descriptor[socket[u]] = u /\ descriptor'[socket[u]] = u
      <3>1. \A u \in Handlers : socket[u] \in Descriptors /\ descriptor[socket[u]] = u
        BY DEF ServerInv, Passed, Undisturbed, Handlers
      <3> QED
        BY <2>2, <2>7, <3>1
    <2>9. \A u \in Handlers' :
             conn[u] \in IF thread'[u] \in {"test", "call"} THEN {None, u} ELSE {u}
      BY <2>7 DEF ServerInv, Undisturbed
    <2> QED
      BY <1>1, <2>4, <2>6, <2>8, <2>9 DEF ServerInv, Undisturbed
  <1> QED
    BY <1>3, <1>5, <1>6, <1>7 DEF ServerInv

LEMMA ThreadStepInv == ASSUME ServerInv, NEW t \in Threads, ThreadStep(t) PROVE ServerInv'
  <1>1. UNCHANGED <<client, typed, mainVars>>
    BY DEF ThreadStep
  <1>2. /\ answers \in [Clients -> SUBSET {"own", "other"}]
        /\ ~overwritten => \A c \in Clients : answers[c] \subseteq {"own"}
        /\ request \in [Clients -> Lines \cup {"none"}] /\ op \in [Threads -> Lines \cup {"none"}]
    BY DEF ServerInv, ServerTypes, Undisturbed
  <1>3. CASE Receive(t) \/ EndOfStream(t)
    <2>1. t \in Handlers /\ thread[t] = "reading" /\ conn[t] \in Clients
      BY <1>3 DEF Receive, EndOfStream, Handlers, ServerInv, Passed
    <2>2. PICK to \in {"send", "load", "done"} : thread' = [thread EXCEPT ![t] = to]
      BY <1>3 DEF Receive, EndOfStream, Move, After
    <2>3. request' \in [Clients -> Lines \cup {"none"}]
      BY <1>2, <1>3, <2>1 DEF Receive, EndOfStream
    <2>4. op' \in [Threads -> Lines \cup {"none"}]
      BY <1>2, <1>3, <2>1 DEF Receive, EndOfStream
    <2>5. UNCHANGED <<client, main, accepted, descriptor, new_socket, new_data, socket, conn,
                      overwritten, answers>>
      BY <1>1, <1>3 DEF Receive, EndOfStream, mainVars
    <2> QED
      BY <1>2, <2>1, <2>2, <2>3, <2>4, <2>5, HandlerGoesOn
  <1>4. CASE Test(t) \/ Invalid(t) \/ CountOut(t)
    <2>1. t \in Handlers /\ thread[t] \in {"test", "send", "load", "write"}
      BY <1>4 DEF Test, Invalid, CountOut, Move, Handlers
    <2>2. PICK to \in {"call", "done", "write", "close"} :
              /\ thread' = [thread EXCEPT ![t] = to]
              /\ thread[t] = "test" => to \in {"call", "done"}
      BY <1>4 DEF Test, Invalid, CountOut, Move
    <2>3. UNCHANGED <<client, main, accepted, descriptor, new_socket, new_data, socket, conn,
                      overwritten, answers, request, op>>
      BY <1>1, <1>4 DEF Test, Invalid, CountOut, mainVars
    <2> QED
      BY <1>2, <2>1, <2>2, <2>3, HandlerGoesOn
  <1>5. CASE Copy(t) \/ Call(t) \/ Send(t) \/ Close(t)
    BY <1>1, <1>5, CopyInv, CallInv, SendInv, CloseInv
  <1> QED
    BY <1>3, <1>4, <1>5 DEF ThreadStep

LEMMA ServerNext == ServerInv /\ [Next]_vars => ServerInv'
  <1> SUFFICES ASSUME ServerInv, [Next]_vars PROVE ServerInv'
    OBVIOUS
  <1>1. CASE Exit \/ UNCHANGED vars
    <2>1. UNCHANGED <<client, request, answers, main, accepted, new_socket, new_data,
                      overwritten, descriptor, threadVars>>
      BY <1>1 DEF Exit, vars, clientVars, mainVars
    <2> QED
      BY <2>1 DEF ServerInv, ServerTypes, Passed, Opened, Undisturbed, Handlers, threadVars
  <1> QED
    BY <1>1, MainStepInv, ClientStepInv, ThreadStepInv DEF Next

LEMMA AnswersOwn == ServerInv => OwnAnswers
  BY DEF ServerInv, Undisturbed, OwnAnswers

\* As long as main has not used new_data again before it was copied (line 86), every
\* thread of ex5_server.c answers the client it was created for, although descriptors are
\* closed and used again, for every number of clients.
THEOREM ClientsGetTheirAnswers == Spec => []OwnAnswers
  BY ServerInit, ServerNext, AnswersOwn, PTL DEF Spec

\* The clients that main has counted, and the threads that have taken one away.
Entered == accepted - (IF main \in {"store", "load", "write"} THEN 1 ELSE 0)
Departed == {t \in Threads : thread[t] \in {"close", "done"}}

\* However many increments and decrements are lost: what anybody reads and writes is not
\* above the number of increments, nor below that of decrements.
Possible(n) == n \in Int /\ n <= Entered /\ n + Cardinality(Departed) >= 0
ServerCounts ==
    /\ Possible(connected_clients)
    /\ aux \in [Threads \cup {None} -> Int] /\ \A t \in Threads \cup {None} : Possible(aux[t])
ServerRest ==
    /\ typed \in [Clients -> 0 .. REQUESTS] /\ server \in {"running", "ended"}
    /\ terminate_flag \in BOOLEAN
    /\ new_socket \in 0 .. N /\ new_data \in 0 .. N

ServerBounds == ServerInv /\ ServerCounts /\ ServerRest

LEMMA ThreadSets ==
    \A S \in SUBSET Threads : IsFiniteSet(S) /\ Cardinality(S) \in Nat /\ Cardinality(S) <= N
  <1> TAKE S \in SUBSET Threads
  <1>1. N \in Nat /\ Threads = 1 .. N
    BY ServerAssumption DEF Threads, Clients
  <1>2. IsFiniteSet(Threads) /\ Cardinality(Threads) = N
    BY <1>1, FS_Interval
  <1>3. IsFiniteSet(S) /\ Cardinality(S) <= Cardinality(Threads)
    BY <1>2, FS_Subset
  <1> QED
    BY <1>2, <1>3, FS_CardinalityType

LEMMA ServerNumbers ==
    ASSUME ServerTypes
    PROVE  /\ Entered \in Int /\ Entered <= N /\ N \in Nat /\ accepted \in Nat
           /\ IsFiniteSet(Departed) /\ Cardinality(Departed) \in Nat /\ Cardinality(Departed) <= N
  <1>1. Departed \in SUBSET Threads
    BY DEF Departed
  <1>2. N \in Nat /\ accepted \in Nat /\ accepted <= N
    BY ServerAssumption DEF ServerTypes
  <1> QED
    BY <1>1, <1>2, ThreadSets DEF Entered

\* More increments and decrements make no value impossible.
LEMMA PossibleStays ==
    ASSUME ServerTypes, ServerTypes', Entered <= Entered', Departed \subseteq Departed'
    PROVE  /\ \A n : Possible(n) => Possible(n)'
           /\ Cardinality(Departed') \in Nat
  <1>1. Departed' \in SUBSET Threads
    BY DEF Departed
  <1>2. IsFiniteSet(Departed') /\ Cardinality(Departed') \in Nat
    BY <1>1, ThreadSets
  <1>3. Cardinality(Departed) <= Cardinality(Departed')
    BY <1>2, FS_Subset
  <1>4. Entered \in Int /\ Entered' \in Int
    BY ServerNumbers, ServerAssumption DEF Entered, ServerTypes
  <1>5. Cardinality(Departed) \in Nat
    BY ServerNumbers
  <1>6. ASSUME NEW n, Possible(n) PROVE Possible(n)'
    BY <1>2, <1>3, <1>4, <1>5, <1>6 DEF Possible
  <1> QED
    BY <1>2, <1>6

LEMMA CountsStay ==
    ASSUME ServerCounts, ServerTypes, ServerTypes', UNCHANGED <<connected_clients, aux>>,
           Entered <= Entered', Departed \subseteq Departed'
    PROVE  ServerCounts'
  BY PossibleStays DEF ServerCounts

LEMMA CountsLoaded ==
    ASSUME ServerCounts, ServerTypes, ServerTypes', NEW t \in Threads \cup {None},
           aux' = [aux EXCEPT ![t] = connected_clients], connected_clients' = connected_clients,
           Entered <= Entered', Departed \subseteq Departed'
    PROVE  ServerCounts'
  <1>1. connected_clients \in Int /\ aux \in [Threads \cup {None} -> Int]
    BY DEF ServerCounts, Possible
  <1>2. /\ aux' \in [Threads \cup {None} -> Int] /\ aux'[t] = connected_clients
        /\ \A u \in (Threads \cup {None}) \ {t} : aux'[u] = aux[u]
    BY <1>1
  <1> QED
    BY <1>2, PossibleStays DEF ServerCounts

LEMMA CountsInit == Init => ServerCounts /\ ServerRest
  <1> SUFFICES ASSUME Init PROVE ServerCounts /\ ServerRest
    OBVIOUS
  <1>1. /\ accepted = 0 /\ main = "accept" /\ connected_clients = 0 /\ new_socket = 0 /\ new_data = 0
        /\ aux = [t \in Threads \cup {None} |-> 0] /\ thread = [t \in Threads |-> "new"]
        /\ typed = [c \in Clients |-> 0] /\ server = "running" /\ terminate_flag = FALSE
    BY DEF Init, None
  <1>2. ServerTypes /\ REQUESTS \in Nat
    BY ServerInit, ServerAssumption DEF ServerInv
  <1>a. Entered = 0
    <2>1. main \notin {"store", "load", "write"} /\ 0 - 0 = 0
      BY <1>1
    <2>2. Entered = accepted - 0
      BY <2>1, Zenon DEF Entered
    <2> QED
      BY <1>1, <2>1, <2>2
  <1>3. Entered = 0 /\ Cardinality(Departed) \in Nat /\ N \in Nat
    BY <1>a, <1>2, ServerNumbers
  <1>4. Possible(0)
    BY <1>3 DEF Possible
  <1>5. terminate_flag \in BOOLEAN
    BY <1>1, Zenon
  <1> QED
    BY <1>1, <1>2, <1>3, <1>4, <1>5 DEF ServerCounts, ServerRest

LEMMA MainCounts == ASSUME ServerBounds, MainStep PROVE ServerCounts' /\ ServerRest'
  <1>0. /\ ServerInv /\ ServerTypes /\ ServerCounts /\ ServerRest
        /\ ServerInv' /\ ServerTypes' /\ Passed' /\ None \in Threads \cup {None}
    BY MainStepInv DEF ServerBounds, ServerInv
  <1>a. /\ UNCHANGED typed /\ server = "running" /\ server' \in {"running", "ended"}
    BY DEF MainStep, Accept, Store, CountIn, Create, WriteAt, clientVars
  <1>b. terminate_flag' \in BOOLEAN
    <2>1. CASE Store
      <3>1. /\ terminate_flag \in BOOLEAN
            /\ (terminate_flag \/ ~InArray(connected_clients)) \in BOOLEAN
        BY <1>0 DEF ServerRest, InArray
      <3>2. \/ terminate_flag' = terminate_flag
            \/ terminate_flag' = (terminate_flag \/ ~InArray(connected_clients))
        BY <2>1 DEF Store
      <3> QED
        BY <3>1, <3>2, Zenon
    <2>2. CASE Accept \/ CountIn \/ Create
      <3>1. terminate_flag' = terminate_flag
        BY <2>2 DEF Accept, CountIn, Create
      <3> QED
        BY <1>0, <3>1, Zenon DEF ServerRest
    <2> QED
      BY <2>1, <2>2 DEF MainStep
  <1>1. /\ UNCHANGED typed /\ server = "running" /\ server' \in {"running", "ended"}
        /\ terminate_flag' \in BOOLEAN
    BY <1>a, <1>b
  <1>2. \A d \in Descriptors : d \in 0 .. N
    BY ServerAssumption DEF Descriptors, Clients
  <1>3. CASE Accept
    <2>1. /\ main = "accept" /\ main' = "store" /\ accepted' = accepted + 1
          /\ UNCHANGED <<connected_clients, aux, thread, new_data>>
      BY <1>3 DEF Accept, Main, threadVars
    <2>2. Entered' = Entered /\ Departed' = Departed
      BY <1>0, <2>1, ServerNumbers DEF Entered, Departed
    <2>3. Entered <= Entered'
      BY <1>0, <2>2, ServerNumbers
    <2>4. new_socket' \in Descriptors
      BY <1>0, <2>1 DEF Passed
    <2> QED
      BY <1>0, <1>1, <1>2, <2>1, <2>2, <2>3, <2>4, CountsStay DEF ServerRest
  <1>4. CASE Store
    <2>1. /\ main = "store" /\ main' = "load"
          /\ UNCHANGED <<connected_clients, aux, thread, accepted, new_data, new_socket>>
      BY <1>4 DEF Store, Main, threadVars
    <2>2. Entered' = Entered /\ Departed' = Departed
      BY <2>1 DEF Entered, Departed
    <2>3. Entered <= Entered'
      BY <1>0, <2>2, ServerNumbers
    <2> QED
      BY <1>0, <1>1, <2>1, <2>2, <2>3, CountsStay DEF ServerRest
  <1>5. CASE CountIn
    <2>1. UNCHANGED <<thread, accepted, new_data, new_socket>>
      BY <1>5 DEF CountIn, threadVars
    <2>2. ServerRest' /\ Departed' = Departed
      BY <1>0, <1>1, <2>1 DEF ServerRest, Departed
    <2>3. CASE Main("load", "write") /\ Load(None)
      <3>1. /\ main = "load" /\ main' = "write" /\ connected_clients' = connected_clients
            /\ aux' = [aux EXCEPT ![None] = connected_clients]
        BY <2>3 DEF Main, Load
      <3>2. Entered' = Entered
        BY <2>1, <3>1 DEF Entered
      <3>3. Entered <= Entered'
        BY <1>0, <3>2, ServerNumbers
      <3> QED
        BY <1>0, <2>2, <3>1, <3>3, CountsLoaded
    <2>4. CASE Main("write", "create") /\ Write(None, 1)
      <3>1. /\ main = "write" /\ main' = "create" /\ connected_clients' = aux[None] + 1 /\ aux' = aux
        BY <2>4 DEF Main, Write
      <3>2. Entered' = Entered + 1 /\ Entered \in Int
        BY <1>0, <2>1, <3>1, ServerNumbers DEF Entered
      <3>3. Entered <= Entered' /\ Departed \subseteq Departed'
        BY <2>2, <3>2
      <3>4. /\ \A n : Possible(n) => Possible(n)'
            /\ Possible(aux[None]) /\ Cardinality(Departed) \in Nat
        BY <1>0, <3>3, PossibleStays, ServerNumbers DEF ServerCounts
      <3>5. Possible(connected_clients)'
        BY <2>2, <3>1, <3>2, <3>4 DEF Possible
      <3> QED
        BY <1>0, <2>2, <3>1, <3>4, <3>5 DEF ServerCounts
    <2> QED
      BY <1>5, <2>3, <2>4 DEF CountIn
  <1>6. CASE Create
    <2>1. /\ main = "create" /\ main' = "accept" /\ new_data' = new_socket
          /\ thread' = [thread EXCEPT ![accepted] = "copy"]
          /\ UNCHANGED <<connected_clients, aux, accepted, new_socket>>
      BY <1>6 DEF Create, Main
    <2>2. thread[accepted] = "new" /\ accepted \in Threads
      BY <1>0, <2>1 DEF ServerInv, Opened
    <2>3. Entered' = Entered
      BY <2>1 DEF Entered
    <2>4. Entered <= Entered'
      BY <1>0, <2>3, ServerNumbers
    <2>5. Departed \subseteq Departed'
      BY <1>0, <2>1, <2>2 DEF Departed, ServerTypes
    <2> QED
      BY <1>0, <1>1, <2>1, <2>4, <2>5, CountsStay DEF ServerRest
  <1> QED
    BY <1>3, <1>4, <1>5, <1>6 DEF MainStep

LEMMA ThreadCounts ==
    ASSUME ServerBounds, NEW t \in Threads, ThreadStep(t) PROVE ServerCounts' /\ ServerRest'
  <1>0. /\ ServerInv /\ ServerTypes /\ ServerCounts /\ ServerRest
        /\ ServerInv' /\ ServerTypes' /\ t \in Threads \cup {None}
    BY ThreadStepInv DEF ServerBounds, ServerInv
  <1>1. /\ UNCHANGED <<typed, main, accepted, new_socket, new_data, terminate_flag>>
        /\ server = "running" /\ server' \in {"running", "ended"}
    BY DEF ThreadStep, mainVars, Copy, Test, Call, Receive, EndOfStream, Invalid, Send, CountOut, Close
  <1>2. ServerRest' /\ Entered' = Entered
    BY <1>0, <1>1 DEF ServerRest, Entered
  <1>3. Entered <= Entered'
    BY <1>0, <1>2, ServerNumbers
  <1>4. PICK to \in {"test", "call", "reading", "send", "load", "write", "close", "done"} :
            /\ thread' = [thread EXCEPT ![t] = to]
            /\ thread[t] = "close" => to = "done"
            /\ thread[t] # "done"
    BY DEF ThreadStep, Move, After, Copy, Test, Call, Receive, EndOfStream, Invalid, Send,
           CountOut, Close
  <1>5. Departed \subseteq Departed'
    BY <1>0, <1>4 DEF Departed, ServerTypes
  <1>6. CASE UNCHANGED <<connected_clients, aux>>
    BY <1>0, <1>2, <1>3, <1>5, <1>6, CountsStay
  <1>7. CASE Move(t, "load", "write") /\ Load(t)
    <2>1. aux' = [aux EXCEPT ![t] = connected_clients] /\ connected_clients' = connected_clients
      BY <1>7 DEF Load
    <2> QED
      BY <1>0, <1>2, <1>3, <1>5, <2>1, CountsLoaded
  <1>8. CASE Move(t, "write", "close") /\ Write(t, -1)
    <2>1. /\ thread[t] = "write" /\ thread' = [thread EXCEPT ![t] = "close"]
          /\ connected_clients' = aux[t] + (-1) /\ aux' = aux
      BY <1>8 DEF Move, Write
    <2>2. Departed' = Departed \cup {t} /\ t \notin Departed
      BY <1>0, <2>1 DEF Departed, ServerTypes
    <2>3. Cardinality(Departed') = Cardinality(Departed) + 1
      BY <1>0, <2>2, ServerNumbers, FS_AddElement
    <2>4. /\ \A n : Possible(n) => Possible(n)'
          /\ Possible(aux[t]) /\ Cardinality(Departed) \in Nat /\ Entered \in Int
      BY <1>0, <1>3, <1>5, PossibleStays, ServerNumbers DEF ServerCounts
    <2>5. Possible(connected_clients)'
      BY <1>2, <2>1, <2>3, <2>4 DEF Possible
    <2> QED
      BY <1>0, <1>2, <2>1, <2>4, <2>5 DEF ServerCounts
  <1> QED
    BY <1>6, <1>7, <1>8 DEF ThreadStep, Copy, Test, Call, Receive, EndOfStream, Invalid, Send,
                            CountOut, Close

LEMMA ServerBoundsNext == ServerBounds /\ [Next]_vars => ServerBounds'
  <1> SUFFICES ASSUME ServerBounds, [Next]_vars PROVE ServerBounds'
    OBVIOUS
  <1>1. ServerInv /\ ServerInv' /\ ServerTypes /\ ServerTypes' /\ ServerCounts /\ ServerRest
    BY ServerNext DEF ServerBounds, ServerInv
  <1>2. ASSUME UNCHANGED <<main, accepted, new_socket, new_data, connected_clients, aux, thread>>,
               typed' \in [Clients -> 0 .. REQUESTS], server' \in {"running", "ended"},
               terminate_flag' \in BOOLEAN
        PROVE  ServerBounds'
    <2>1. Entered' = Entered /\ Departed' = Departed
      BY <1>2 DEF Entered, Departed
    <2>2. Entered <= Entered'
      BY <1>1, <2>1, ServerNumbers
    <2> QED
      BY <1>1, <1>2, <2>1, <2>2, CountsStay DEF ServerBounds, ServerRest
  <1>3. CASE MainStep
    BY <1>1, <1>3, MainCounts DEF ServerBounds
  <1>4. CASE Exit \/ UNCHANGED vars
    <2>1. UNCHANGED <<typed, main, accepted, new_socket, new_data, connected_clients, aux, thread>>
          /\ (server' = "ended" \/ server' = server)
          /\ (terminate_flag' = TRUE \/ terminate_flag' = terminate_flag)
      BY <1>4 DEF Exit, vars, clientVars, mainVars, threadVars
    <2>2. terminate_flag' \in BOOLEAN
      BY <1>1, <2>1, Zenon DEF ServerRest
    <2> QED
      BY <1>1, <1>2, <2>1, <2>2 DEF ServerRest
  <1>5. ASSUME NEW c \in Clients, ClientStep(c) PROVE ServerBounds'
    <2>1. UNCHANGED <<server, main, accepted, new_socket, new_data, terminate_flag,
                      connected_clients, aux, thread>>
      BY <1>5 DEF ClientStep, serverVars, mainVars, threadVars
    <2>2. \/ typed' = typed
          \/ typed[c] < REQUESTS /\ typed' = [typed EXCEPT ![c] = typed[c] + 1]
      BY <1>5 DEF ClientStep, Connect, Request, Answer, Quit, Vanish
    <2>3. typed' \in [Clients -> 0 .. REQUESTS]
      BY <1>1, <2>2, ServerAssumption DEF ServerRest
    <2> QED
      BY <1>1, <1>2, <2>1, <2>3 DEF ServerRest
  <1>6. ASSUME NEW t \in Threads, ThreadStep(t) PROVE ServerBounds'
    BY <1>1, <1>6, ThreadCounts DEF ServerBounds
  <1> QED
    BY <1>3, <1>4, <1>5, <1>6 DEF Next

LEMMA ServerTypeOK == ServerBounds => TypeOK
  <1> SUFFICES ASSUME ServerBounds PROVE TypeOK
    OBVIOUS
  <1>1. ServerTypes /\ ServerCounts /\ ServerRest
    BY DEF ServerBounds, ServerInv
  <1>2. ASSUME NEW n, Possible(n) PROVE n \in -N .. N
    BY <1>1, <1>2, ServerNumbers DEF Possible
  <1>3. connected_clients \in -N .. N
    BY <1>1, <1>2 DEF ServerCounts
  <1>4. aux \in [Threads \cup {None} -> -N .. N]
    BY <1>1, <1>2 DEF ServerCounts
  <1> QED
    BY <1>1, <1>3, <1>4 DEF TypeOK, ServerTypes, ServerRest
------------------------------------------------------------------------------
(* The id server of lab11_ex4_server.c.                                    *)

Counting == {"load", "store", "unlock"}

IdTypes ==
    /\ i_announced \in Nat /\ i_taken \in Nat /\ i_taken <= i_announced /\ i_announced <= N
    /\ i_main \in {"lock", "read", "load", "store"} /\ i_mutex \in BOOLEAN
    /\ i_no_clients \in Nat /\ i_arg \in Nat
    /\ i_aux \in [{0} \cup Ids!Handlers -> Nat]
    /\ i_pc \in [Ids!Handlers -> Counting \cup {"new", "id", "strcpy", "sprintf", "name", "open",
                                                "opened"}]
    /\ i_id \in [Ids!Handlers -> Nat] /\ i_fresh \in [Ids!Handlers -> BOOLEAN]

\* main comes back to the arrivals when the thread of the last one has counted.
OneCounts ==
    /\ i_main = "read" => i_mutex
    /\ \A h \in Ids!Handlers :
        /\ h > i_taken => i_pc[h] = "new"
        /\ i_pc[h] \in Counting => h = i_taken /\ i_mutex /\ i_main # "read"

\* Whatever main and the thread overwrite of each other, one of their increments is left.
Grows ==
    /\ i_arg <= 2 * (i_no_clients + 1)
    /\ i_main \in {"lock", "read"} => i_arg <= 2 * i_no_clients
    /\ i_main = "store" => i_arg <= 2 * (i_aux[0] + 1)
    /\ \A h \in Ids!Handlers : i_pc[h] = "store" => i_arg <= 2 * (i_aux[h] + 1)

Fresh ==
    /\ \A h \in Ids!Handlers :
        i_fresh[h] => h <= i_taken /\ i_id[h] <= i_arg /\ (h < i_taken => i_id[h] < i_arg)
    /\ Ids!FreshIdsDiffer

IdInv == IdTypes /\ OneCounts /\ Grows /\ Fresh

LEMMA IdInit == Ids!Init => IdInv
  <1> SUFFICES ASSUME Ids!Init PROVE IdInv
    OBVIOUS
  <1>0. N \in Nat /\ 0 <= N
    BY ServerAssumption
  <1>1. IdTypes
    <2>1. /\ i_aux \in [{0} \cup Ids!Handlers -> Nat] /\ i_id \in [Ids!Handlers -> Nat]
          /\ i_fresh \in [Ids!Handlers -> BOOLEAN]
      BY DEF Ids!Init
    <2>2. i_pc \in [Ids!Handlers -> Counting \cup {"new", "id", "strcpy", "sprintf", "name",
                                                   "open", "opened"}]
      BY DEF Ids!Init
    <2>3. /\ i_announced = 0 /\ i_taken = 0 /\ i_main = "lock" /\ i_mutex = FALSE
          /\ i_no_clients = 0 /\ i_arg = 0
      BY DEF Ids!Init
    <2>4. 0 \in Nat /\ 0 <= 0
      OBVIOUS
    <2> QED
      BY <1>0, <2>1, <2>2, <2>3, <2>4 DEF IdTypes
  <1>2. OneCounts /\ Grows /\ Fresh
    BY <1>1 DEF Ids!Init, IdTypes, OneCounts, Grows, Fresh, Ids!FreshIdsDiffer, Counting,
                Ids!Handlers
  <1> QED
    BY <1>1, <1>2 DEF IdInv

LEMMA IdMainInv == ASSUME IdInv, Ids!MainStep PROVE IdInv'
  <1>0. /\ UNCHANGED <<i_announced, i_id, i_fresh>>
        /\ 0 \in {0} \cup Ids!Handlers /\ 0 \notin Ids!Handlers
    BY DEF Ids!MainStep, Ids!Handlers
  <1>1. CASE Ids!MainLock
    BY <1>0, <1>1 DEF Ids!MainLock, Ids!Main, IdInv, IdTypes, OneCounts, Grows, Fresh,
                      Ids!FreshIdsDiffer
  <1>2. CASE Ids!ReadArrival
    <2>1. /\ i_main = "read" /\ i_main' = "load" /\ i_taken < i_announced
          /\ i_taken' = i_taken + 1 /\ i_arg' = (i_no_clients + 1) * 2
          /\ i_pc' = [i_pc EXCEPT ![i_taken + 1] = "load"]
          /\ UNCHANGED <<i_mutex, i_no_clients, i_aux>>
      BY <1>2 DEF Ids!ReadArrival, Ids!Main
    <2>2. i_taken + 1 \in Ids!Handlers /\ i_pc[i_taken + 1] = "new" /\ i_mutex
      BY <2>1, ServerAssumption DEF IdInv, IdTypes, OneCounts, Ids!Handlers
    <2>3. i_arg < i_arg'
      BY <2>1 DEF IdInv, IdTypes, Grows
    <2>4. IdTypes'
      BY <1>0, <2>1, <2>2 DEF IdInv, IdTypes, Counting
    <2>5. OneCounts'
      BY <1>0, <2>1, <2>2 DEF IdInv, IdTypes, OneCounts, Ids!Handlers, Counting
    <2>6. Grows'
      BY <1>0, <2>1, <2>2 DEF IdInv, IdTypes, OneCounts, Grows, Counting
    <2>7. Fresh'
      BY <1>0, <2>1, <2>3 DEF IdInv, IdTypes, Fresh, Ids!FreshIdsDiffer, Ids!Handlers
    <2> QED
      BY <2>4, <2>5, <2>6, <2>7 DEF IdInv
  <1>3. CASE Ids!MainCount
    <2>1. /\ UNCHANGED <<i_taken, i_mutex, i_arg, i_pc>>
          /\ \/ /\ i_main = "load" /\ i_main' = "store" /\ i_no_clients' = i_no_clients
                /\ i_aux' = [i_aux EXCEPT ![0] = i_no_clients]
             \/ /\ i_main = "store" /\ i_main' = "lock"
                /\ i_no_clients' = i_aux[0] + 1 /\ i_aux' = i_aux
      BY <1>3 DEF Ids!MainCount, Ids!Main
    <2>2. OneCounts' /\ Fresh'
      BY <1>0, <2>1 DEF IdInv, OneCounts, Fresh, Ids!FreshIdsDiffer
    <2>3. CASE i_main = "load"
      <3>1. IdTypes'
        BY <1>0, <2>1, <2>3 DEF IdInv, IdTypes
      <3>2. i_aux'[0] = i_no_clients /\ \A h \in Ids!Handlers : i_aux'[h] = i_aux[h]
        BY <1>0, <2>1, <2>3 DEF IdInv, IdTypes
      <3>3. Grows'
        BY <2>1, <2>3, <3>2 DEF IdInv, Grows
      <3> QED
        BY <2>2, <3>1, <3>3 DEF IdInv
    <2>4. CASE i_main = "store"
      <3>1. IdTypes'
        BY <1>0, <2>1, <2>4 DEF IdInv, IdTypes
      <3>2. Grows'
        BY <1>0, <2>1, <2>4 DEF IdInv, IdTypes, Grows
      <3> QED
        BY <2>2, <3>1, <3>2 DEF IdInv
    <2> QED
      BY <2>1, <2>3, <2>4
  <1> QED
    BY <1>1, <1>2, <1>3 DEF Ids!MainStep

LEMMA IdThreadInv == ASSUME IdInv, NEW h \in Ids!Handlers, Ids!ThreadStep(h) PROVE IdInv'
  <1>0. /\ UNCHANGED <<i_announced, i_taken, i_main, i_arg>>
        /\ h # 0 /\ h \in {0} \cup Ids!Handlers
    BY DEF Ids!ThreadStep, Ids!Handlers
  <1>1. CASE Ids!Count(h)
    <2>1. /\ UNCHANGED <<i_id, i_fresh>>
          /\ \/ /\ i_pc[h] = "load" /\ i_pc' = [i_pc EXCEPT ![h] = "store"]
                /\ i_aux' = [i_aux EXCEPT ![h] = i_no_clients]
                /\ UNCHANGED <<i_mutex, i_no_clients>>
             \/ /\ i_pc[h] = "store" /\ i_pc' = [i_pc EXCEPT ![h] = "unlock"]
                /\ i_no_clients' = i_aux[h] + 1 /\ UNCHANGED <<i_mutex, i_aux>>
             \/ /\ i_pc[h] = "unlock" /\ i_pc' = [i_pc EXCEPT ![h] = "id"]
                /\ i_mutex' = FALSE /\ UNCHANGED <<i_no_clients, i_aux>>
      BY <1>1 DEF Ids!Count, Ids!Move
    <2>2. h = i_taken /\ i_mutex /\ i_main # "read"
      BY <2>1 DEF IdInv, OneCounts, Counting
    <2>3. IdTypes'
      <3>1. i_pc' \in [Ids!Handlers -> Counting \cup {"new", "id", "strcpy", "sprintf", "name",
                                                       "open", "opened"}]
        BY <2>1 DEF IdInv, IdTypes, Counting
      <3>2. i_no_clients' \in Nat /\ i_aux' \in [{0} \cup Ids!Handlers -> Nat]
        BY <1>0, <2>1 DEF IdInv, IdTypes
      <3> QED
        BY <1>0, <2>1, <3>1, <3>2 DEF IdInv, IdTypes
    <2>4. OneCounts'
      BY <1>0, <2>1, <2>2 DEF IdInv, IdTypes, OneCounts, Counting, Ids!Handlers
    <2>5. Grows'
      <3>1. CASE i_pc[h] = "load"
        BY <1>0, <2>1, <3>1 DEF IdInv, IdTypes, Grows
      <3>2. CASE i_pc[h] = "store"
        BY <1>0, <2>1, <2>2, <3>2 DEF IdInv, IdTypes, Grows
      <3>3. CASE i_pc[h] = "unlock"
        BY <1>0, <2>1, <3>3 DEF IdInv, IdTypes, Grows
      <3> QED
        BY <2>1, <3>1, <3>2, <3>3
    <2>6. Fresh'
      BY <1>0, <2>1 DEF IdInv, Fresh, Ids!FreshIdsDiffer
    <2> QED
      BY <2>3, <2>4, <2>5, <2>6 DEF IdInv
  <1>2. CASE Ids!ReadId(h)
    <2>1. /\ i_pc[h] = "id" /\ i_pc' = [i_pc EXCEPT ![h] = "strcpy"]
          /\ i_id' = [i_id EXCEPT ![h] = i_arg]
          /\ i_fresh' = [i_fresh EXCEPT ![h] = i_taken = h]
          /\ UNCHANGED <<i_mutex, i_no_clients, i_aux>>
      BY <1>2 DEF Ids!ReadId, Ids!Move
    <2>2. IdTypes'
      BY <1>0, <2>1 DEF IdInv, IdTypes, Counting
    <2>3. OneCounts' /\ Grows'
      BY <1>0, <2>1 DEF IdInv, IdTypes, OneCounts, Grows, Counting
    <2>7. /\ i_id'[h] = i_arg
          /\ \A g \in Ids!Handlers \ {h} : i_id'[g] = i_id[g]
      BY <2>1 DEF IdInv, IdTypes
    <2>8. /\ i_fresh'[h] <=> i_taken = h
          /\ \A g \in Ids!Handlers \ {h} : i_fresh'[g] <=> i_fresh[g]
      BY <2>1, Zenon DEF IdInv, IdTypes
    <2>4. ASSUME NEW g \in Ids!Handlers, i_fresh'[g]
          PROVE  g <= i_taken /\ i_id'[g] <= i_arg /\ (g < i_taken => i_id'[g] < i_arg)
      <3>1. CASE g = h
        BY <2>7, <2>8, <2>4, <3>1 DEF IdInv, IdTypes, Ids!Handlers
      <3>2. CASE g # h
        BY <2>7, <2>8, <2>4, <3>2 DEF IdInv, Fresh
      <3> QED
        BY <3>1, <3>2
    <2>5. ASSUME NEW g \in Ids!Handlers, NEW k \in Ids!Handlers,
                 g < k, i_fresh'[g], i_fresh'[k]
          PROVE  i_id'[g] < i_id'[k]
      <3>1. k <= i_taken /\ g < i_taken
        BY <2>4, <2>5 DEF IdInv, IdTypes, Ids!Handlers
      <3>2. CASE k = h
        BY <2>7, <2>4, <2>5, <3>1, <3>2
      <3>3. CASE g = h
        BY <2>8, <2>5, <3>1, <3>3 DEF IdInv, IdTypes, Ids!Handlers
      <3>4. CASE g # h /\ k # h
        BY <2>7, <2>8, <2>5, <3>4 DEF IdInv, Fresh, Ids!FreshIdsDiffer
      <3> QED
        BY <3>2, <3>3, <3>4
    <2>6. Fresh'
      BY <1>0, <2>4, <2>5 DEF Fresh, Ids!FreshIdsDiffer
    <2> QED
      BY <2>2, <2>3, <2>6 DEF IdInv
  <1>3. CASE Ids!MakeName(h)
    <2>1. /\ UNCHANGED <<i_mutex, i_no_clients, i_aux, i_id, i_fresh>>
          /\ i_pc[h] \notin {"new", "load", "store", "unlock"}
      BY <1>3 DEF Ids!MakeName, Ids!Move
    <2>2. PICK to \in {"sprintf", "name", "open", "opened"} : i_pc' = [i_pc EXCEPT ![h] = to]
      BY <1>3 DEF Ids!MakeName, Ids!Move
    <2>3. IdTypes'
      BY <1>0, <2>1, <2>2 DEF IdInv, IdTypes
    <2>4. OneCounts' /\ Grows'
      BY <1>0, <2>1, <2>2 DEF IdInv, IdTypes, OneCounts, Grows, Counting
    <2>5. Fresh'
      BY <1>0, <2>1 DEF IdInv, Fresh, Ids!FreshIdsDiffer
    <2> QED
      BY <2>3, <2>4, <2>5 DEF IdInv
  <1> QED
    BY <1>1, <1>2, <1>3 DEF Ids!ThreadStep

LEMMA IdNext == IdInv /\ [Ids!Next]_idVars => IdInv'
  <1> SUFFICES ASSUME IdInv, [Ids!Next]_idVars PROVE IdInv'
    OBVIOUS
  <1>1. CASE UNCHANGED idVars
    BY <1>1 DEF idVars, IdInv, IdTypes, OneCounts, Grows, Fresh, Ids!FreshIdsDiffer
  <1>2. CASE Ids!Announce
    BY <1>2, ServerAssumption
    DEF Ids!Announce, IdInv, IdTypes, OneCounts, Grows, Fresh, Ids!FreshIdsDiffer
  <1> QED
    BY <1>1, <1>2, IdMainInv, IdThreadInv DEF Ids!Next

\* The id server and its clients by themselves.
IdSpec == Ids!Init /\ [][Ids!Next]_idVars

\* Although main and the threads count no_clients without a lock and lose increments, the
\* arguments of successive clients grow: of the threads that read theirs before main came
\* to the next client, no two have the same id, for every number of clients.
THEOREM IdsDiffer == IdSpec => []FreshIdsDiffer
  <1>1. IdInv => FreshIdsDiffer
    BY DEF IdInv, Fresh, FreshIdsDiffer
  <1> QED
    BY <1>1, IdInit, IdNext, PTL DEF IdSpec

\* The increments of main and the threads so far, the lost ones included.
MainCounted == i_taken - (IF i_main \in {"load", "store"} THEN 1 ELSE 0)
ThreadsCounted == {h \in Ids!Handlers : i_pc[h] \notin {"new", "load", "store"}}
Increments == MainCounted + Cardinality(ThreadsCounted)

\* What anybody reads and writes is not above the number of increments.
IdCounts ==
    /\ i_no_clients <= Increments
    /\ \A h \in {0} \cup Ids!Handlers : i_aux[h] <= Increments
    /\ i_arg <= 4 * N /\ \A h \in Ids!Handlers : i_id[h] <= i_arg

\* Each thread makes a name longer once, whoever's name it is by then.
Lengthened == {h \in Ids!Handlers : i_pc[h] \in {"name", "open", "opened"}}
Short(s) == s \in Seq(Nat) /\ Len(s) <= Cardinality(Lengthened)
IdNames ==
    /\ Short(i_name)
    /\ \A h \in Ids!Handlers : Short(i_str[h]) /\ Short(i_fifo[h])
    /\ i_str \in [Ids!Handlers -> Seq(Nat)] /\ i_fifo \in [Ids!Handlers -> Seq(Nat)]

IdBounds == IdInv /\ IdCounts /\ IdNames

LEMMA MainCountedIs ==
    ASSUME IdTypes
    PROVE  /\ i_taken \in Nat
           /\ i_main \in {"load", "store"} => MainCounted = i_taken - 1
           /\ i_main \notin {"load", "store"} => MainCounted = i_taken
  <1>1. i_taken \in Nat /\ i_taken - 0 = i_taken
    BY DEF IdTypes
  <1>2. CASE i_main \in {"load", "store"}
    BY <1>1, <1>2, Zenon DEF MainCounted
  <1>3. CASE i_main \notin {"load", "store"}
    <2>1. MainCounted = i_taken - 0
      BY <1>3, Zenon DEF MainCounted
    <2> QED
      BY <1>1, <1>3, <2>1
  <1> QED
    BY <1>1, <1>2, <1>3

LEMMA IdNumbers ==
    ASSUME IdTypes
    PROVE  /\ Ids!Handlers = Threads /\ N \in Nat /\ MainCounted \in Int /\ MainCounted <= N
           /\ IsFiniteSet(ThreadsCounted) /\ Cardinality(ThreadsCounted) \in Nat
           /\ Cardinality(ThreadsCounted) <= N /\ Increments \in Int /\ Increments <= 2 * N
           /\ IsFiniteSet(Lengthened) /\ Cardinality(Lengthened) \in Nat
           /\ Cardinality(Lengthened) <= N
  <1>1. Ids!Handlers = Threads
    BY DEF Ids!Handlers, Threads, Clients
  <1>2. ThreadsCounted \in SUBSET Threads /\ Lengthened \in SUBSET Threads
    BY <1>1 DEF ThreadsCounted, Lengthened
  <1>3. N \in Nat /\ i_taken \in Nat /\ i_taken <= N
    BY ServerAssumption DEF IdTypes
  <1>4. /\ IsFiniteSet(ThreadsCounted) /\ Cardinality(ThreadsCounted) \in Nat
        /\ Cardinality(ThreadsCounted) <= N
        /\ IsFiniteSet(Lengthened) /\ Cardinality(Lengthened) \in Nat
        /\ Cardinality(Lengthened) <= N
    BY <1>2, ThreadSets
  <1>5. MainCounted \in Int /\ MainCounted <= N
    BY <1>3, MainCountedIs
  <1> QED
    BY <1>1, <1>3, <1>4, <1>5 DEF Increments

LEMMA IncrementsGrow ==
    ASSUME IdTypes, IdTypes', MainCounted <= MainCounted', ThreadsCounted \subseteq ThreadsCounted'
    PROVE  Increments \in Int /\ Increments' \in Int /\ Increments <= Increments'
  <1>1. Ids!Handlers = Threads /\ ThreadsCounted' \in SUBSET Ids!Handlers
    BY IdNumbers DEF ThreadsCounted
  <1>2. IsFiniteSet(ThreadsCounted') /\ Cardinality(ThreadsCounted') \in Nat
    BY <1>1, ThreadSets
  <1>3. Cardinality(ThreadsCounted) <= Cardinality(ThreadsCounted')
    BY <1>2, FS_Subset
  <1>4. MainCounted' \in Int
    <2>1. i_taken' \in Nat
      BY DEF IdTypes
    <2>2. CASE i_main' \in {"load", "store"}
      <3>1. MainCounted' = i_taken' - 1
        BY <2>2, Zenon DEF MainCounted
      <3> QED
        BY <2>1, <3>1
    <2>3. CASE i_main' \notin {"load", "store"}
      <3>1. MainCounted' = i_taken' - 0
        BY <2>3, Zenon DEF MainCounted
      <3> QED
        BY <2>1, <3>1
    <2> QED
      BY <2>2, <2>3
  <1>5. MainCounted \in Int /\ Cardinality(ThreadsCounted) \in Nat
    BY IdNumbers
  <1> QED
    BY <1>2, <1>3, <1>4, <1>5 DEF Increments

LEMMA NamesStay ==
    ASSUME IdTypes, IdTypes', Lengthened \subseteq Lengthened'
    PROVE  /\ Cardinality(Lengthened) \in Nat /\ Cardinality(Lengthened') \in Nat
           /\ Cardinality(Lengthened) <= Cardinality(Lengthened')
  <1>1. Ids!Handlers = Threads /\ Lengthened' \in SUBSET Ids!Handlers
    BY IdNumbers DEF Lengthened
  <1>2. IsFiniteSet(Lengthened') /\ Cardinality(Lengthened') \in Nat
    BY <1>1, ThreadSets
  <1> QED
    BY <1>2, FS_Subset, IdNumbers

LEMMA IdBoundsInit == Ids!Init => IdBounds
  <1> SUFFICES ASSUME Ids!Init PROVE IdBounds
    OBVIOUS
  <1>1. IdInv /\ IdTypes
    BY IdInit DEF IdInv
  <1>2. /\ i_taken = 0 /\ i_main = "lock" /\ i_no_clients = 0 /\ i_arg = 0 /\ i_name = <<>>
        /\ i_aux = [h \in {0} \cup Ids!Handlers |-> 0] /\ i_id = [h \in Ids!Handlers |-> 0]
        /\ i_str = [h \in Ids!Handlers |-> <<>>] /\ i_fifo = [h \in Ids!Handlers |-> <<>>]
    BY DEF Ids!Init
  <1>3. MainCounted = 0
    <2>1. i_main \notin {"load", "store"} /\ 0 - 0 = 0
      BY <1>2
    <2>2. MainCounted = i_taken - 0
      BY <2>1, Zenon DEF MainCounted
    <2> QED
      BY <1>2, <2>1, <2>2
  <1>4. N \in Nat /\ Cardinality(ThreadsCounted) \in Nat /\ Cardinality(Lengthened) \in Nat
    BY <1>1, IdNumbers
  <1>5. Increments >= 0
    BY <1>3, <1>4 DEF Increments
  <1>6. IdCounts
    BY <1>2, <1>4, <1>5 DEF IdCounts
  <1>7. Short(<<>>)
    BY <1>4 DEF Short
  <1> QED
    BY <1>1, <1>2, <1>6, <1>7 DEF IdBounds, IdNames

LEMMA IdMainBounds == ASSUME IdBounds, Ids!MainStep PROVE IdBounds'
  <1>0. /\ IdInv /\ IdTypes /\ IdCounts /\ IdNames /\ IdInv' /\ IdTypes'
        /\ N \in Nat /\ 0 \in {0} \cup Ids!Handlers
        /\ UNCHANGED <<i_id, i_name, i_str, i_fifo>>
    BY IdMainInv, ServerAssumption DEF IdBounds, IdInv, Ids!MainStep, Ids!pipes
  <1>1. ASSUME UNCHANGED i_pc PROVE ThreadsCounted' = ThreadsCounted /\ IdNames'
    BY <1>0, <1>1 DEF ThreadsCounted, IdNames, Short, Lengthened
  <1>2. CASE Ids!MainLock
    <2>1. /\ i_main = "lock" /\ i_main' = "read"
          /\ UNCHANGED <<i_taken, i_no_clients, i_arg, i_aux, i_pc>>
      BY <1>2 DEF Ids!MainLock, Ids!Main
    <2>2. MainCounted' = MainCounted
      BY <2>1 DEF MainCounted
    <2>3. Increments' = Increments
      BY <1>1, <2>1, <2>2 DEF Increments
    <2> QED
      BY <1>0, <1>1, <2>1, <2>3 DEF IdBounds, IdCounts
  <1>3. CASE Ids!ReadArrival
    <2>1. /\ i_main = "read" /\ i_main' = "load" /\ i_taken < i_announced
          /\ i_taken' = i_taken + 1 /\ i_arg' = (i_no_clients + 1) * 2
          /\ i_pc' = [i_pc EXCEPT ![i_taken + 1] = "load"]
          /\ UNCHANGED <<i_no_clients, i_aux>>
      BY <1>3 DEF Ids!ReadArrival, Ids!Main
    <2>2. i_taken + 1 \in Ids!Handlers /\ i_pc[i_taken + 1] = "new"
      BY <1>0, <2>1 DEF IdInv, IdTypes, OneCounts, Ids!Handlers
    <2>3. \A h \in Ids!Handlers : i_pc'[h] = i_pc[h] \/ (i_pc[h] = "new" /\ i_pc'[h] = "load")
      BY <1>0, <2>1, <2>2 DEF IdTypes
    <2>4. ThreadsCounted' = ThreadsCounted /\ Lengthened' = Lengthened
      BY <2>3 DEF ThreadsCounted, Lengthened
    <2>5. MainCounted = i_taken /\ MainCounted' = i_taken /\ i_taken \in Nat /\ i_taken <= N - 1
      <3>1. i_taken' = i_taken + 1 /\ i_main' \in {"load", "store"} /\ i_main \notin {"load", "store"}
        BY <2>1
      <3>2. MainCounted = i_taken /\ i_taken \in Nat /\ MainCounted' = i_taken' - 1
        BY <1>0, <3>1, MainCountedIs DEF MainCounted
      <3> QED
        BY <1>0, <2>1, <3>1, <3>2 DEF IdTypes
    <2>6. Increments' = Increments /\ Increments <= (N - 1) + N /\ Increments \in Int
      BY <1>0, <2>4, <2>5, IdNumbers DEF Increments
    <2>7. i_no_clients \in Nat /\ i_no_clients <= Increments
      BY <1>0 DEF IdTypes, IdCounts
    <2>8. i_arg' <= 4 * N
      BY <1>0, <2>1, <2>6, <2>7
    <2>9. i_arg < i_arg' /\ i_arg \in Nat /\ i_arg' \in Nat
      BY <1>0, <2>1 DEF IdInv, IdTypes, Grows
    <2>10. \A h \in Ids!Handlers : i_id[h] \in Nat /\ i_id[h] <= i_arg'
      BY <1>0, <2>9 DEF IdTypes, IdCounts
    <2>11. IdCounts'
      BY <1>0, <2>1, <2>6, <2>8, <2>10 DEF IdCounts
    <2>12. IdNames'
      BY <1>0, <2>4 DEF IdNames, Short
    <2> QED
      BY <1>0, <2>11, <2>12 DEF IdBounds
  <1>4. CASE Ids!MainCount
    <2>1. /\ UNCHANGED <<i_taken, i_arg, i_pc>>
          /\ \/ /\ i_main = "load" /\ i_main' = "store" /\ i_no_clients' = i_no_clients
                /\ i_aux' = [i_aux EXCEPT ![0] = i_no_clients]
             \/ /\ i_main = "store" /\ i_main' = "lock"
                /\ i_no_clients' = i_aux[0] + 1 /\ i_aux' = i_aux
      BY <1>4 DEF Ids!MainCount, Ids!Main
    <2>2. Increments \in Int /\ MainCounted \in Int /\ Cardinality(ThreadsCounted) \in Nat
      BY <1>0, IdNumbers
    <2>3. CASE i_main = "load"
      <3>1. MainCounted' = MainCounted
        BY <2>1, <2>3 DEF MainCounted
      <3>2. Increments' = Increments
        BY <1>1, <2>1, <3>1 DEF Increments
      <3>3. i_aux'[0] = i_no_clients /\ \A h \in Ids!Handlers : i_aux'[h] = i_aux[h] \/ h = 0
        BY <1>0, <2>1, <2>3 DEF IdTypes
      <3>4. IdCounts'
        BY <1>0, <2>1, <2>3, <3>2, <3>3 DEF IdCounts
      <3> QED
        BY <1>0, <1>1, <2>1, <3>4 DEF IdBounds
    <2>4. CASE i_main = "store"
      <3>1. MainCounted' = MainCounted + 1
        <4>1. i_main \in {"load", "store"} /\ i_main' \notin {"load", "store"}
          BY <2>1, <2>4
        <4>2. MainCounted = i_taken - 1 /\ MainCounted' = i_taken - 0
          BY <2>1, <4>1, Zenon DEF MainCounted
        <4>3. i_taken \in Nat
          BY <1>0 DEF IdTypes
        <4> QED
          BY <4>2, <4>3
      <3>2. Increments' = Increments + 1
        BY <1>1, <2>1, <2>2, <3>1 DEF Increments
      <3>3. i_no_clients' = i_aux[0] + 1 /\ i_aux' = i_aux
        BY <2>1, <2>4
      <3>4. \A h \in {0} \cup Ids!Handlers : i_aux[h] \in Nat /\ i_aux[h] <= Increments
        BY <1>0 DEF IdTypes, IdCounts
      <3>5. IdCounts'
        BY <1>0, <2>1, <2>2, <3>2, <3>3, <3>4 DEF IdCounts
      <3> QED
        BY <1>0, <1>1, <2>1, <3>5 DEF IdBounds
    <2> QED
      BY <2>1, <2>3, <2>4
  <1> QED
    BY <1>2, <1>3, <1>4 DEF Ids!MainStep

LEMMA IdThreadBounds == ASSUME IdBounds, NEW h \in Ids!Handlers, Ids!ThreadStep(h) PROVE IdBounds'
  <1>0. /\ IdInv /\ IdTypes /\ IdCounts /\ IdNames /\ IdInv' /\ IdTypes'
        /\ N \in Nat /\ h # 0 /\ h \in {0} \cup Ids!Handlers
        /\ UNCHANGED <<i_taken, i_main, i_arg>>
    BY IdThreadInv, ServerAssumption DEF IdBounds, IdInv, Ids!ThreadStep, Ids!Handlers
  <1>1. MainCounted' = MainCounted /\ MainCounted \in Int
    BY <1>0, IdNumbers DEF MainCounted
  <1>2. PICK to \in {"store", "unlock", "id", "strcpy", "sprintf", "name", "open", "opened"} :
            /\ i_pc' = [i_pc EXCEPT ![h] = to]
            /\ i_pc[h] \in {"name", "open", "opened"} => to \in {"name", "open", "opened"}
            /\ i_pc[h] \notin {"new", "load", "store"} => to # "store"
            /\ i_pc[h] # "new"
    BY DEF Ids!ThreadStep, Ids!Count, Ids!ReadId, Ids!MakeName, Ids!Move
  <1>3. i_pc'[h] = to /\ \A g \in Ids!Handlers \ {h} : i_pc'[g] = i_pc[g]
    BY <1>0, <1>2 DEF IdTypes
  <1>4. ThreadsCounted \subseteq ThreadsCounted' /\ Lengthened \subseteq Lengthened'
    BY <1>2, <1>3 DEF ThreadsCounted, Lengthened
  <1>5. MainCounted <= MainCounted'
    BY <1>1
  <1>6. Increments \in Int /\ Increments' \in Int /\ Increments <= Increments'
    BY <1>0, <1>4, <1>5, IncrementsGrow
  <1> DEFINE Fits(s) == s \in Seq(Nat) /\ Len(s) <= Cardinality(Lengthened')
             AllFit(name, str, open) ==
                 Fits(name) /\ \A g \in Ids!Handlers : Fits(str[g]) /\ Fits(open[g])
  <1>7. /\ Cardinality(Lengthened) <= Cardinality(Lengthened') /\ Cardinality(Lengthened) \in Nat
        /\ Cardinality(Lengthened') \in Nat
    BY <1>0, <1>4, NamesStay
  <1>a. \A s : Short(s) => Fits(s)
    BY <1>7 DEF Short
  <1>b. ASSUME AllFit(i_name', i_str', i_fifo'), i_str' \in [Ids!Handlers -> Seq(Nat)],
               i_fifo' \in [Ids!Handlers -> Seq(Nat)]
        PROVE  IdNames'
    BY <1>b DEF IdNames, Short
  <1>c. AllFit(i_name, i_str, i_fifo)
    BY <1>0, <1>a DEF IdNames
  <1>d. Fits(<<>>)
    BY <1>7
  <1>e. i_str \in [Ids!Handlers -> Seq(Nat)] /\ i_fifo \in [Ids!Handlers -> Seq(Nat)]
    BY <1>0 DEF IdNames
  <1>8. /\ i_no_clients \in Nat /\ i_no_clients <= Increments /\ i_arg <= 4 * N
        /\ \A g \in {0} \cup Ids!Handlers : i_aux[g] \in Nat /\ i_aux[g] <= Increments
        /\ \A g \in Ids!Handlers : i_id[g] <= i_arg
    BY <1>0 DEF IdTypes, IdCounts
  <1>9. ASSUME UNCHANGED <<i_no_clients, i_aux, i_id>> PROVE IdCounts'
    BY <1>0, <1>6, <1>8, <1>9 DEF IdCounts
  <1>10. ASSUME UNCHANGED <<i_name, i_str, i_fifo>> PROVE IdNames'
    BY <1>b, <1>c, <1>e, <1>10
  <1>11. CASE Ids!Count(h)
    <2>1. /\ UNCHANGED <<i_id, i_name, i_str, i_fifo>>
          /\ \/ /\ i_pc[h] = "load" /\ i_aux' = [i_aux EXCEPT ![h] = i_no_clients]
                /\ UNCHANGED i_no_clients
             \/ /\ i_pc[h] = "store" /\ i_pc' = [i_pc EXCEPT ![h] = "unlock"]
                /\ i_no_clients' = i_aux[h] + 1 /\ UNCHANGED i_aux
             \/ i_pc[h] = "unlock" /\ UNCHANGED <<i_no_clients, i_aux>>
      BY <1>11 DEF Ids!Count, Ids!Move, Ids!pipes
    <2>2. CASE i_pc[h] = "load"
      <3>1. /\ i_no_clients' = i_no_clients /\ i_aux' = [i_aux EXCEPT ![h] = i_no_clients]
        BY <2>1, <2>2
      <3>2. \A g \in {0} \cup Ids!Handlers : i_aux'[g] = i_aux[g] \/ i_aux'[g] = i_no_clients
        BY <1>0, <3>1 DEF IdTypes
      <3>3. IdCounts'
        BY <1>0, <1>6, <1>8, <2>1, <3>1, <3>2 DEF IdCounts
      <3> QED
        BY <1>0, <1>10, <2>1, <3>3 DEF IdBounds
    <2>3. CASE i_pc[h] = "store"
      <3>1. /\ i_pc' = [i_pc EXCEPT ![h] = "unlock"]
            /\ i_no_clients' = i_aux[h] + 1 /\ i_aux' = i_aux
        BY <2>1, <2>3
      <3>2. i_pc'[h] = "unlock"
        BY <1>0, <3>1 DEF IdTypes
      <3>3. ThreadsCounted' = ThreadsCounted \cup {h} /\ h \notin ThreadsCounted
        BY <1>3, <2>3, <3>2 DEF ThreadsCounted
      <3>4. Cardinality(ThreadsCounted') = Cardinality(ThreadsCounted) + 1
        BY <1>0, <3>3, IdNumbers, FS_AddElement
      <3>5. Increments' = Increments + 1
        BY <1>0, <1>1, <3>4, IdNumbers DEF Increments
      <3>6. IdCounts'
        BY <1>0, <1>6, <1>8, <2>1, <3>1, <3>5 DEF IdCounts
      <3> QED
        BY <1>0, <1>10, <2>1, <3>6 DEF IdBounds
    <2>4. CASE i_pc[h] = "unlock"
      BY <1>0, <1>9, <1>10, <2>1, <2>4 DEF IdBounds
    <2> QED
      BY <2>1, <2>2, <2>3, <2>4
  <1>12. CASE Ids!ReadId(h)
    <2>1. /\ i_id' = [i_id EXCEPT ![h] = i_arg]
          /\ UNCHANGED <<i_no_clients, i_aux, i_name, i_str, i_fifo>>
      BY <1>12 DEF Ids!ReadId, Ids!pipes
    <2>2. \A g \in Ids!Handlers : i_id'[g] = i_id[g] \/ i_id'[g] = i_arg
      BY <1>0, <2>1 DEF IdTypes
    <2>3. i_arg <= i_arg
      BY <1>0 DEF IdTypes
    <2>4. IdCounts'
      BY <1>0, <1>6, <1>8, <2>1, <2>2, <2>3 DEF IdCounts
    <2> QED
      BY <1>0, <1>10, <2>1, <2>4 DEF IdBounds
  <1>13. CASE Ids!MakeName(h)
    <2>1. UNCHANGED <<i_no_clients, i_aux, i_id>>
      BY <1>13 DEF Ids!MakeName
    <2>2. CASE i_pc[h] = "strcpy"
      <3>1. i_name' = <<>> /\ UNCHANGED <<i_str, i_fifo>>
        BY <1>13, <2>2 DEF Ids!MakeName, Ids!Move
      <3>2. IdNames'
        BY <1>b, <1>c, <1>d, <1>e, <3>1
      <3> QED
        BY <1>0, <1>9, <2>1, <3>2 DEF IdBounds
    <2>3. CASE i_pc[h] = "sprintf"
      <3>1. /\ i_pc' = [i_pc EXCEPT ![h] = "name"]
            /\ i_str' = [i_str EXCEPT ![h] = Append(i_name, i_id[h])]
            /\ UNCHANGED <<i_name, i_fifo>>
        BY <1>13, <2>3 DEF Ids!MakeName, Ids!Move
      <3>2. i_pc'[h] = "name"
        BY <1>0, <3>1 DEF IdTypes
      <3>3. Lengthened' = Lengthened \cup {h} /\ h \notin Lengthened
        BY <1>3, <2>3, <3>2 DEF Lengthened
      <3>4. Cardinality(Lengthened') = Cardinality(Lengthened) + 1
        BY <1>0, <3>3, IdNumbers, FS_AddElement
      <3>5. i_name \in Seq(Nat) /\ Len(i_name) <= Cardinality(Lengthened) /\ i_id[h] \in Nat
        BY <1>0 DEF IdNames, Short, IdTypes
      <3>6. Fits(Append(i_name, i_id[h])) /\ Append(i_name, i_id[h]) \in Seq(Nat)
        BY <1>7, <3>4, <3>5
      <3>7. /\ i_str' \in [Ids!Handlers -> Seq(Nat)]
            /\ \A g \in Ids!Handlers : i_str'[g] = i_str[g] \/ i_str'[g] = Append(i_name, i_id[h])
        BY <1>e, <3>1, <3>6
      <3>8. AllFit(i_name', i_str', i_fifo')
        BY <1>c, <3>1, <3>6, <3>7
      <3>9. IdNames'
        BY <1>b, <1>e, <3>1, <3>7, <3>8
      <3> QED
        BY <1>0, <1>9, <2>1, <3>9 DEF IdBounds
    <2>4. CASE i_pc[h] = "name"
      <3>1. i_name' = i_str[h] /\ UNCHANGED <<i_str, i_fifo>>
        BY <1>13, <2>4 DEF Ids!MakeName, Ids!Move
      <3>2. IdNames'
        BY <1>b, <1>c, <1>e, <3>1
      <3> QED
        BY <1>0, <1>9, <2>1, <3>2 DEF IdBounds
    <2>5. CASE i_pc[h] = "open"
      <3>1. i_fifo' = [i_fifo EXCEPT ![h] = i_name] /\ UNCHANGED <<i_name, i_str>>
        BY <1>13, <2>5 DEF Ids!MakeName, Ids!Move
      <3>2. i_name \in Seq(Nat)
        BY <1>0 DEF IdNames, Short
      <3>3. /\ i_fifo' \in [Ids!Handlers -> Seq(Nat)]
            /\ \A g \in Ids!Handlers : i_fifo'[g] = i_fifo[g] \/ i_fifo'[g] = i_name
        BY <1>e, <3>1, <3>2
      <3>4. AllFit(i_name', i_str', i_fifo')
        BY <1>c, <3>1, <3>3
      <3>5. IdNames'
        BY <1>b, <1>e, <3>1, <3>3, <3>4
      <3> QED
        BY <1>0, <1>9, <2>1, <3>5 DEF IdBounds
    <2> QED
      BY <1>13, <2>2, <2>3, <2>4, <2>5 DEF Ids!MakeName, Ids!Move
  <1> QED
    BY <1>11, <1>12, <1>13 DEF Ids!ThreadStep

LEMMA IdBoundsNext == IdBounds /\ [Ids!Next]_idVars => IdBounds'
  <1> SUFFICES ASSUME IdBounds, [Ids!Next]_idVars PROVE IdBounds'
    OBVIOUS
  <1>1. IdInv'
    BY IdNext DEF IdBounds
  <1>2. CASE UNCHANGED idVars \/ Ids!Announce
    <2>1. UNCHANGED <<i_taken, i_main, i_no_clients, i_arg, i_aux, i_pc, i_id, i_name, i_str, i_fifo>>
      BY <1>2 DEF idVars, Ids!Announce, Ids!pipes
    <2>2. Increments' = Increments /\ Lengthened' = Lengthened
      BY <2>1 DEF Increments, MainCounted, ThreadsCounted, Lengthened
    <2>3. IdCounts' /\ IdNames'
      BY <2>1, <2>2 DEF IdBounds, IdCounts, IdNames, Short
    <2> QED
      BY <1>1, <2>3 DEF IdBounds
  <1> QED
    BY <1>2, IdMainBounds, IdThreadBounds DEF Ids!Next

LEMMA IdTypeOK == IdBounds => Ids!TypeOK
  <1> SUFFICES ASSUME IdBounds PROVE Ids!TypeOK
    OBVIOUS
  <1>1. IdTypes /\ IdCounts /\ IdNames
    BY DEF IdBounds, IdInv
  <1>2. /\ N \in Nat /\ Increments \in Int /\ Increments <= 2 * N
        /\ Cardinality(Lengthened) \in Nat /\ Cardinality(Lengthened) <= N
    BY <1>1, IdNumbers
  <1>3. /\ i_announced \in 0 .. N /\ i_taken \in 0 .. i_announced
        /\ i_main \in {"lock", "read", "load", "store"} /\ i_mutex \in BOOLEAN
    BY <1>1, <1>2 DEF IdTypes
  <1>4. i_no_clients \in 0 .. 2 * N /\ i_arg \in 0 .. 4 * N
    BY <1>1, <1>2 DEF IdTypes, IdCounts
  <1>5. \A h \in Ids!Handlers : i_id[h] \in 0 .. i_arg
    BY <1>1 DEF IdTypes, IdCounts
  <1>6. \A h \in Ids!Handlers : Len(i_fifo[h]) <= N
    BY <1>1, <1>2 DEF IdNames, Short
  <1> QED
    BY <1>3, <1>4, <1>5, <1>6 DEF Ids!TypeOK
------------------------------------------------------------------------------
(***************************************************************************)
(* The file transfer of ex6_server.c and ex6_client.c.  What a client      *)
(* sends is one line of items, and its stream is the part of that line     *)
(* that is on its way.                                                     *)
(***************************************************************************)
Byte(c, j) == <<"byte", <<c, j>>>>
Stored == ({"byte"} \X (Clients \X Nat)) \cup {Transfer!Hole}

Item(c, file, k) ==
    IF k = 1 THEN <<"header", file.size % WRAP>>
    ELSE IF k = 2 THEN <<"name", file.name>> ELSE Byte(c, k - 2)

Items(c, file) == {Item(c, file, k) : k \in Nat}

\* The items behind the first from of a client that has sent so many bytes.
Line(c, file, from, sent) == [j \in 1 .. sent + 2 - from |-> Item(c, file, from + j)]

\* What is left of a stream when k items are taken.
Rest(s, k) == SubSeq(s, k + 1, Len(s))

ClientStates == [pc : {"new", "header", "data", "done", "gone"}, file : Files, sent : Nat]
HandlerStates == [pc : {"new", "copy", "header", "name", "data", "garbled", "close", "over"},
                  socket : 0 .. N, conn : 0 .. N, size : Nat, name : Transfer!Names \cup {"none"},
                  off : Nat, ret : {"none", "received", "failed"}]

TransferTypes ==
    /\ t_client \in [Clients -> ClientStates]
    /\ t_stream = [c \in Clients |-> t_stream[c]]
    /\ t_accepted \in 0 .. N
    /\ t_descriptor \in [Clients -> 0 .. t_accepted]
    /\ t_thread \in [Clients -> HandlerStates]
    /\ t_disk \in [Transfer!Names -> Seq(Stored)]

\* Each descriptor is another connection, and each handler has its own.
Connected ==
    /\ \A d, e \in Clients : t_descriptor[d] = t_descriptor[e] /\ t_descriptor[d] # None => d = e
    /\ \A t \in Clients : t > t_accepted => t_thread[t].pc = "new"
    /\ \A t \in Clients : t_thread[t].pc = "copy" =>
          t_new_data \in Clients /\ t_descriptor[t_new_data] = t
    /\ \A t \in Clients : t_thread[t].pc \in Transfer!Receiving \cup {"close"} =>
          t_thread[t].socket \in Clients /\ t_descriptor[t_thread[t].socket] = t

\* How many items a handler has taken from its stream.
Taken(th) ==
    IF th.pc = "name" THEN 1 ELSE IF th.pc = "data" THEN 2 + th.off ELSE 0

\* A client that has sent nothing, and its handler.
Unsent(cl, th, s) ==
    /\ cl.pc \in {"new", "header", "gone"} /\ cl.sent = 0 /\ s = <<>>
    /\ th.pc \notin {"name", "data"} /\ (th.pc = "garbled" => cl.pc = "gone")
    /\ th.name = "none" /\ th.off = 0
    /\ IF th.pc \in {"close", "over"} THEN th.ret # "received" ELSE th.ret = "none"

\* A client that has sent its header, and its handler.
Sent(cl, th) ==
    /\ cl.pc \notin {"new", "header"}
    /\ cl.file.size \in Nat /\ th.off <= cl.sent /\ cl.sent <= cl.file.size
    /\ th.pc # "garbled"
    /\ th.pc \in {"name", "data"} => th.size = cl.file.size % WRAP
    /\ IF th.pc \in {"new", "copy", "header", "name"} THEN th.name = "none" /\ th.off = 0
       ELSE th.pc = "data" => th.name # "none"
    /\ th.name \in {"none", cl.file.name}
    /\ IF th.pc \in {"close", "over"} THEN th.ret = "received" => th.off % WRAP >= cl.file.size % WRAP
       ELSE th.ret = "none"

\* The stream of a client whose handler still receives.
Flows(c, cl, th, s) ==
    th.pc \notin {"close", "over"} => s = Line(c, cl.file, Taken(th), cl.sent)

Channel(c, cl, th, s) ==
    /\ th.conn \in {None, c}
    /\ Unsent(cl, th, s) \/ (Sent(cl, th) /\ Flows(c, cl, th, s))

\* The handler that emptied a file last has written all it received to it, and the file
\* ends where one of the handlers is.
Written(n) ==
    LET W == Transfer!WritersOf(n)
        f == t_disk[n]
    IN  /\ \A j \in 1 .. Len(f) : f[j] \in {Byte(t, j) : t \in W} \cup {Transfer!Hole}
        /\ W # {} =>
              /\ \E t \in W : \A j \in 1 .. t_thread[t].off : j <= Len(f) /\ f[j] # Transfer!Hole
              /\ \E t \in W : Len(f) <= t_thread[t].off

Transferred ==
    /\ TransferTypes /\ Connected
    /\ \A c \in Clients : Channel(c, t_client[c], t_thread[c], t_stream[c])
    /\ \A n \in Transfer!Names : Written(n)

TransferInv == t_overwritten \in BOOLEAN /\ (~t_overwritten => Transferred)

LEMMA LineItem ==
    ASSUME NEW c, NEW file, NEW from \in Nat, NEW sent \in Nat, NEW j \in 1 .. sent + 2 - from
    PROVE  Line(c, file, from, sent)[j] = Item(c, file, from + j)
  BY DEF Line

LEMMA LineLen ==
    ASSUME NEW c, NEW file, NEW from \in Nat, NEW sent \in Nat, from <= sent + 2
    PROVE  /\ Line(c, file, from, sent) \in Seq(Items(c, file))
           /\ Len(Line(c, file, from, sent)) = sent + 2 - from
  <1> DEFINE n == sent + 2 - from
  <1>1. n \in Nat /\ \A j \in 1 .. n : Item(c, file, from + j) \in Items(c, file)
    BY DEF Items
  <1>2. Line(c, file, from, sent) = [j \in 1 .. n |-> Item(c, file, from + j)]
    BY DEF Line
  <1> HIDE DEF n
  <1>3. Line(c, file, from, sent) \in Seq(Items(c, file)) /\ Len(Line(c, file, from, sent)) = n
    BY <1>1, <1>2
  <1> QED
    BY <1>3 DEF n

LEMMA LineHead ==
    ASSUME NEW c, NEW file, NEW from \in Nat, NEW sent \in Nat, from <= sent + 2
    PROVE  /\ from = sent + 2 <=> Line(c, file, from, sent) = <<>>
           /\ from < sent + 2 => Head(Line(c, file, from, sent)) = Item(c, file, from + 1)
  <1> DEFINE s == Line(c, file, from, sent)
             S == Items(c, file)
  <1>1. s \in Seq(S) /\ Len(s) = sent + 2 - from
    BY LineLen
  <1>2. from < sent + 2 => s[1] = Item(c, file, from + 1)
    <2>1. from < sent + 2 => 1 \in 1 .. sent + 2 - from
      OBVIOUS
    <2> QED
      BY <2>1, LineItem
  <1>3. Head(s) = s[1]
    <2> HIDE DEF s, S
    <2> QED
      BY <1>1
  <1>4. s = <<>> <=> Len(s) = 0
    <2> HIDE DEF s, S
    <2> QED
      BY <1>1
  <1> HIDE DEF s, S
  <1>5. from = sent + 2 <=> s = <<>>
    BY <1>1, <1>4
  <1> QED
    BY <1>2, <1>3, <1>5 DEF s

LEMMA LineRest ==
    ASSUME NEW c, NEW file, NEW from \in Nat, NEW sent \in Nat,
           NEW s, s = Line(c, file, from, sent)
    PROVE  \A k \in Nat : from + k <= sent + 2 =>
             Rest(s, k) = Line(c, file, from + k, sent)
  <1> SUFFICES ASSUME NEW k \in Nat, from + k <= sent + 2
               PROVE  Rest(s, k) = Line(c, file, from + k, sent)
    OBVIOUS
  <1> DEFINE n == sent + 2 - from
             m == sent + 2 - (from + k)
  <1>0. from <= sent + 2
    OBVIOUS
  <1>1. Len(s) = n
    BY <1>0, LineLen
  <1>2. n \in Nat /\ m \in Nat /\ n - k = m
    OBVIOUS
  <1>3. ASSUME NEW j \in 1 .. m PROVE s[j + k] = Item(c, file, from + k + j)
    <2>1. j + k \in 1 .. sent + 2 - from /\ from + (j + k) = from + k + j
      OBVIOUS
    <2>2. s[j + k] = Item(c, file, from + (j + k))
      BY <2>1, LineItem
    <2> QED
      BY <2>1, <2>2
  <1>4. Line(c, file, from + k, sent) = [j \in 1 .. m |-> Item(c, file, from + k + j)]
    BY DEF Line
  <1> HIDE DEF n, m
  <1>5. SubSeq(s, k + 1, n) = [j \in 1 .. m |-> s[j + k]]
    BY <1>2
  <1>6. SubSeq(s, k + 1, n) = Line(c, file, from + k, sent)
    BY <1>3, <1>4, <1>5
  <1> QED
    BY <1>1, <1>6 DEF Rest

LEMMA LineGoesOn ==
    ASSUME NEW c, NEW file, NEW from \in Nat, NEW sent \in Nat, NEW to \in Nat,
           from <= sent + 2, sent <= to
    PROVE  Line(c, file, from, sent) \o Transfer!Bytes(c, sent, to) = Line(c, file, from, to)
  <1> DEFINE s == Line(c, file, from, sent)
             b == Line(c, file, sent + 2, to)
             all == Line(c, file, from, to)
             S == Items(c, file)
             n == sent + 2 - from
             more == to - sent
             m == to + 2 - from
  <1>1. /\ n \in Nat /\ more \in Nat /\ m \in Nat /\ m = n + more
        /\ to + 2 - (sent + 2) = more /\ from <= to + 2 /\ sent + 2 \in Nat
        /\ sent + 2 <= to + 2
    OBVIOUS
  <1>2. Transfer!Bytes(c, sent, to) = b
    <2>1. ASSUME NEW j \in 1 .. to - sent
          PROVE  <<"byte", <<c, sent + j>>>> = Item(c, file, sent + 2 + j)
      <3>1. sent + 2 + j # 1 /\ sent + 2 + j # 2 /\ sent + 2 + j - 2 = sent + j
        OBVIOUS
      <3> QED
        BY <3>1 DEF Item, Byte
    <2> QED
      BY <1>1, <2>1 DEF Transfer!Bytes, Line
  <1>3. s \in Seq(S) /\ Len(s) = n
    BY LineLen
  <1>4. b \in Seq(S) /\ Len(b) = more
    <2>1. \A p \in Nat : p <= to + 2 =>
             Line(c, file, p, to) \in Seq(S) /\ Len(Line(c, file, p, to)) = to + 2 - p
      BY LineLen
    <2> QED
      BY <1>1, <2>1
  <1>5. all \in Seq(S) /\ Len(all) = m
    <2>1. from <= to + 2
      BY <1>1
    <2> QED
      BY <2>1, LineLen
  <1>6. \A j \in 1 .. n : s[j] = Item(c, file, from + j)
    BY LineItem
  <1>7. \A j \in 1 .. more : b[j] = Item(c, file, sent + 2 + j)
    BY <1>1, LineItem
  <1>8. \A j \in 1 .. m : all[j] = Item(c, file, from + j)
    BY LineItem
  <1> HIDE DEF s, b, S, all
  <1>9. /\ s \o b \in Seq(S) /\ Len(s \o b) = m
        /\ \A j \in 1 .. m : (s \o b)[j] = IF j <= n THEN s[j] ELSE b[j - n]
    <2>1. /\ s \o b \in Seq(S) /\ Len(s \o b) = Len(s) + Len(b)
          /\ \A j \in 1 .. Len(s) + Len(b) :
               (s \o b)[j] = IF j <= Len(s) THEN s[j] ELSE b[j - Len(s)]
      BY <1>3, <1>4, ConcatProperties
    <2> HIDE DEF n, m, more
    <2> QED
      BY <1>1, <1>3, <1>4, <2>1
  <1>10. ASSUME NEW j \in 1 .. m PROVE (s \o b)[j] = all[j]
    <2>1. CASE j <= n
      BY <1>6, <1>8, <1>9, <2>1
    <2>2. CASE ~(j <= n)
      <3>1. j - n \in 1 .. more /\ sent + 2 + (j - n) = from + j
        BY <1>1, <2>2
      <3>2. b[j - n] = Item(c, file, from + j)
        BY <1>7, <3>1
      <3> QED
        BY <1>8, <1>9, <2>2, <3>2
    <2> QED
      BY <2>1, <2>2
  <1>11. s \o b = all
    BY <1>5, <1>9, <1>10, SeqEqual
  <1> QED
    BY <1>2, <1>11 DEF s, b, all

LEMMA TwoNumbers ==
    ASSUME NEW a \in Nat, NEW b \in Nat
    PROVE  /\ Transfer!Max({a, b}) = IF a >= b THEN a ELSE b
           /\ Transfer!Min({a, b}) = IF a <= b THEN a ELSE b
  <1>1. \A y \in {a, b} : (IF a >= b THEN a ELSE b) >= y /\ (IF a <= b THEN a ELSE b) <= y
    OBVIOUS
  <1>2. \A x \in {a, b} : (\A y \in {a, b} : x >= y) => x = IF a >= b THEN a ELSE b
    OBVIOUS
  <1>3. \A x \in {a, b} : (\A y \in {a, b} : x <= y) => x = IF a <= b THEN a ELSE b
    OBVIOUS
  <1>4. (IF a >= b THEN a ELSE b) \in {a, b} /\ (IF a <= b THEN a ELSE b) \in {a, b}
    OBVIOUS
  <1>5. Transfer!Max({a, b}) \in {a, b} /\ \A y \in {a, b} : Transfer!Max({a, b}) >= y
    BY <1>1, <1>4 DEF Transfer!Max
  <1>6. Transfer!Min({a, b}) \in {a, b} /\ \A y \in {a, b} : Transfer!Min({a, b}) <= y
    BY <1>1, <1>4 DEF Transfer!Min
  <1> QED
    BY <1>2, <1>3, <1>5, <1>6

\* The file w is f with k bytes of data written at off.
Overwrites(w, f, off, data, k) ==
    /\ w \in Seq(Stored)
    /\ Len(w) = IF Len(f) >= off + k THEN Len(f) ELSE off + k
    /\ \A j \in 1 .. Len(w) :
         w[j] = IF j \in off + 1 .. off + k THEN data[j - off]
                ELSE IF j <= Len(f) THEN f[j] ELSE Transfer!Hole

LEMMA WriteAtFacts ==
    ASSUME NEW f \in Seq(Stored), NEW off \in Nat, NEW data \in Seq(Stored),
           NEW k \in Nat, Len(data) = k, NEW w, w = Transfer!WriteAt(f, off, data)
    PROVE  Overwrites(w, f, off, data, k)
  <1> DEFINE top == IF Len(f) >= off + k THEN Len(f) ELSE off + k
             At(j) == IF j \in off + 1 .. off + k THEN data[j - off]
                      ELSE IF j <= Len(f) THEN f[j] ELSE Transfer!Hole
  <1>1. top \in Nat /\ Len(f) \in Nat /\ off + k \in Nat
    OBVIOUS
  <1>2. Transfer!Max({Len(f), off + k}) = top
    BY <1>1, TwoNumbers
  <1>3. w = [j \in 1 .. top |-> At(j)]
    BY <1>2 DEF Transfer!WriteAt
  <1>4. \A j \in 1 .. top : At(j) \in Stored
    <2>1. Transfer!Hole \in Stored
      BY DEF Stored
    <2> SUFFICES ASSUME NEW j \in 1 .. top PROVE At(j) \in Stored
      OBVIOUS
    <2>2. CASE j \in off + 1 .. off + k
      <3>1. j - off \in 1 .. Len(data)
        BY <1>1, <2>2
      <3>2. data[j - off] \in Stored
        BY <3>1
      <3> QED
        BY <2>2, <3>2
    <2>3. CASE j \notin off + 1 .. off + k /\ j <= Len(f)
      <3>1. f[j] \in Stored
        BY <2>3, <1>1
      <3> QED
        BY <2>3, <3>1
    <2> QED
      BY <2>1, <2>2, <2>3
  <1>5. w \in Seq(Stored) /\ Len(w) = top /\ \A j \in 1 .. top : w[j] = At(j)
    <2> HIDE DEF At, top
    <2> QED
      BY <1>1, <1>3, <1>4
  <1> QED
    BY <1>5 DEF Overwrites

LEMMA SameClients == Transfer!Clients = Clients /\ Transfer!None = None /\ None = 0
  BY DEF Transfer!Clients, Clients, Transfer!None, None

LEMMA TransferInit == Transfer!Init => TransferInv
  <1> SUFFICES ASSUME Transfer!Init PROVE Transferred /\ t_overwritten \in BOOLEAN
    BY DEF TransferInv
  <1>0. 0 \in 0 .. N /\ 0 \in Nat /\ N \in Nat
    BY ServerAssumption
  <1> DEFINE idle == [pc |-> "new", socket |-> None, conn |-> None, size |-> 0, name |-> "none",
                      off |-> 0, ret |-> "none"]
  <1>1. t_accepted = 0 /\ t_overwritten = FALSE /\ t_disk = [n \in Transfer!Names |-> <<>>]
    BY DEF Transfer!Init
  <1>2. t_thread = [t \in Clients |-> idle]
    BY SameClients DEF Transfer!Init
  <1>3. t_client \in [Clients -> [pc : {"new"}, file : Files, sent : {0}]]
    BY SameClients DEF Transfer!Init
  <1>4. t_stream = [c \in Clients |-> <<>>]
    BY SameClients DEF Transfer!Init
  <1>5. t_descriptor = [d \in Clients |-> None]
    BY SameClients DEF Transfer!Init
  <1>6. /\ idle \in HandlerStates /\ idle.pc = "new" /\ idle.conn = None /\ idle.name = "none"
        /\ idle.off = 0 /\ idle.ret = "none"
    BY <1>0 DEF HandlerStates, None
  <1> HIDE DEF idle
  <1>7. t_thread \in [Clients -> HandlerStates] /\ \A t \in Clients : t_thread[t] = idle
    BY <1>2, <1>6
  <1>8. t_descriptor \in [Clients -> {None}]
    BY <1>5
  <1>9. TransferTypes
    <2>1. t_client \in [Clients -> ClientStates]
      <3>1. [pc : {"new"}, file : Files, sent : {0}] \subseteq ClientStates
        BY DEF ClientStates
      <3> QED
        BY <1>3, <3>1
    <2>2. t_descriptor \in [Clients -> 0 .. t_accepted]
      <3>1. None \in 0 .. t_accepted
        BY <1>1 DEF None
      <3> QED
        BY <1>8, <3>1
    <2>3. t_disk \in [Transfer!Names -> Seq(Stored)]
      BY <1>1
    <2>4. t_accepted \in 0 .. N
      BY <1>0, <1>1
    <2>5. t_stream = [c \in Clients |-> t_stream[c]]
      BY <1>4
    <2> QED
      BY <1>7, <2>1, <2>2, <2>3, <2>4, <2>5 DEF TransferTypes
  <1>10. Connected
    <2>1. \A t \in Clients : t_thread[t].pc = "new"
      BY <1>6, <1>7
    <2>2. \A d \in Clients : t_descriptor[d] = None
      BY <1>8
    <2> QED
      BY <2>1, <2>2 DEF Connected, Transfer!Receiving
  <1>11. ASSUME NEW c \in Clients PROVE Channel(c, t_client[c], t_thread[c], t_stream[c])
    <2>1. t_client[c].pc = "new" /\ t_client[c].sent = 0
      BY <1>3
    <2>2. t_stream[c] = <<>> /\ t_thread[c] = idle
      BY <1>4, <1>7
    <2> QED
      BY <1>6, <2>1, <2>2 DEF Channel, Unsent
  <1>12. ASSUME NEW n \in Transfer!Names PROVE Written(n)
    <2>1. n # "none"
      BY TransferAssumption DEF Transfer!Names
    <2>2. \A t \in Clients : t_thread[t].name = "none"
      BY <1>6, <1>7
    <2>3. Transfer!WritersOf(n) = {}
      BY <2>1, <2>2, SameClients DEF Transfer!WritersOf
    <2>4. t_disk[n] = <<>> /\ Len(<<>>) = 0 /\ 1 .. 0 = {}
      BY <1>1
    <2>5. \A j \in 1 .. Len(t_disk[n]) : FALSE
      BY <2>4
    <2> QED
      BY <2>3, <2>5 DEF Written
  <1> QED
    BY <1>1, <1>9, <1>10, <1>11, <1>12 DEF Transferred

\* A file that nobody writes to is as it was.
LEMMA WrittenStays ==
    ASSUME NEW n, Written(n), t_disk'[n] = t_disk[n],
           \A t \in Clients : /\ t_thread'[t].name = n <=> t_thread[t].name = n
                              /\ t_thread[t].name = n => t_thread'[t].off = t_thread[t].off
    PROVE  Written(n)'
  <1>1. Transfer!WritersOf(n)' = Transfer!WritersOf(n)
    BY SameClients DEF Transfer!WritersOf
  <1>2. \A t \in Transfer!WritersOf(n) : t_thread'[t].off = t_thread[t].off
    BY SameClients DEF Transfer!WritersOf
  <1> QED
    BY <1>1, <1>2 DEF Written

LEMMA ClientChange ==
    ASSUME Transferred, NEW c \in Clients, NEW cl \in ClientStates, NEW s,
           t_client' = [t_client EXCEPT ![c] = cl], t_stream' = [t_stream EXCEPT ![c] = s],
           UNCHANGED transferServer,
           Channel(c, cl, t_thread[c], s)
    PROVE  Transferred'
  <1>1. TransferTypes'
    BY DEF Transferred, TransferTypes, transferServer
  <1>2. Connected'
    BY DEF Transferred, Connected, transferServer
  <1>3. /\ t_client'[c] = cl /\ t_stream'[c] = s
        /\ \A b \in Clients \ {c} : t_client'[b] = t_client[b] /\ t_stream'[b] = t_stream[b]
    BY DEF Transferred, TransferTypes
  <1>4. ASSUME NEW b \in Clients PROVE Channel(b, t_client'[b], t_thread'[b], t_stream'[b])
    <2>1. CASE b = c
      BY <1>3, <2>1 DEF transferServer
    <2>2. CASE b # c
      BY <1>3, <2>2 DEF transferServer, Transferred
    <2> QED
      BY <2>1, <2>2
  <1>5. ASSUME NEW n \in Transfer!Names PROVE Written(n)'
    BY WrittenStays DEF transferServer, Transferred
  <1> QED
    BY <1>1, <1>2, <1>4, <1>5 DEF Transferred

LEMMA TransferClientInv ==
    ASSUME Transferred, NEW c \in Clients, Transfer!ClientStep(c)
    PROVE  Transferred'
  <1> DEFINE cl == t_client[c]
             th == t_thread[c]
             s == t_stream[c]
             Went(pc) == [cl EXCEPT !.pc = pc]
  <1>1. /\ cl \in ClientStates /\ th \in HandlerStates /\ Channel(c, cl, th, s)
        /\ t_stream = [b \in Clients |-> t_stream[b]]
    BY DEF Transferred, TransferTypes
  <1>2. UNCHANGED transferServer
    BY DEF Transfer!ClientStep, Transfer!serverVars, Transfer!mainVars, transferServer
  <1>3. ASSUME NEW pc \in {"header", "done", "gone"},
               t_client' = [t_client EXCEPT ![c].pc = pc], UNCHANGED t_stream,
               pc = "header" => cl.pc = "new", pc = "done" => cl.pc = "data"
        PROVE  Transferred'
    <2>1. /\ Went(pc) \in ClientStates /\ Went(pc).pc = pc
          /\ Went(pc).file = cl.file /\ Went(pc).sent = cl.sent
      BY <1>1 DEF ClientStates
    <2>2. t_client' = [t_client EXCEPT ![c] = Went(pc)]
      BY <1>3
    <2>3. t_stream' = [t_stream EXCEPT ![c] = s]
      BY <1>1, <1>3
    <2>4. Channel(c, Went(pc), th, s)
      <3>1. CASE Unsent(cl, th, s)
        BY <1>1, <1>3, <2>1, <3>1 DEF Channel, Unsent
      <3>2. CASE Sent(cl, th) /\ Flows(c, cl, th, s)
        <4>1. Sent(Went(pc), th)
          BY <1>1, <1>3, <2>1, <3>2 DEF Sent
        <4>2. Flows(c, Went(pc), th, s)
          <5> HIDE DEF cl, th, s, Went
          <5> QED
            BY <2>1, <3>2 DEF Flows
        <4> QED
          BY <1>1, <4>1, <4>2 DEF Channel
      <3> QED
        BY <1>1, <3>1, <3>2 DEF Channel
    <2> HIDE DEF cl, th, s, Went
    <2> QED
      BY <1>2, <2>1, <2>2, <2>3, <2>4, ClientChange DEF th
  <1>4. CASE Transfer!Connect(c)
    BY <1>3, <1>4 DEF Transfer!Connect, Transfer!Is, Transfer!Go
  <1>5. CASE Transfer!SendFails(c) \/ Transfer!Kill(c)
    BY <1>3, <1>5 DEF Transfer!SendFails, Transfer!Kill, Transfer!Go
  <1>6. CASE Transfer!SendHeader(c)
    <2>1. CASE cl.file.size = Transfer!NoFile
      BY <1>3, <1>6, <2>1 DEF Transfer!SendHeader, Transfer!Is, Transfer!Go
    <2>2. CASE cl.file.size # Transfer!NoFile
      <3> DEFINE to == Line(c, cl.file, 0, 0)
      <3>1. cl.pc = "header" /\ t_client' = [t_client EXCEPT ![c].pc = "data"]
        BY <1>6, <2>2 DEF Transfer!SendHeader, Transfer!Is, Transfer!Go
      <3>2. /\ Went("data") \in ClientStates /\ Went("data").pc = "data"
            /\ Went("data").file = cl.file /\ Went("data").sent = cl.sent
        BY <1>1 DEF ClientStates
      <3>3. t_client' = [t_client EXCEPT ![c] = Went("data")]
        BY <3>1
      <3>4. to = <<<<"header", cl.file.size % WRAP>>, <<"name", cl.file.name>>>>
        <4>1. to = [j \in 1 .. 2 |-> Item(c, cl.file, j)]
          BY DEF Line
        <4>2. /\ Item(c, cl.file, 1) = <<"header", cl.file.size % WRAP>>
              /\ Item(c, cl.file, 2) = <<"name", cl.file.name>>
          BY DEF Item
        <4> HIDE DEF to
        <4> QED
          BY <4>1, <4>2
      <3>5. t_stream' = [t_stream EXCEPT ![c] = to]
        BY <1>6, <2>2, <3>4 DEF Transfer!SendHeader
      <3>6. cl.file.size \in Nat
        BY <1>1, <2>2, TransferAssumption DEF ClientStates, Transfer!NoFile
      <3>7. Unsent(cl, th, s)
        BY <1>1, <3>1 DEF Channel, Sent
      <3>8. Channel(c, Went("data"), th, to)
        <4>1. th.pc # "garbled" /\ Taken(th) = 0 /\ cl.sent = 0
          BY <3>1, <3>7 DEF Unsent, Taken
        <4> HIDE DEF cl, th, s, Went, to
        <4>2. Sent(Went("data"), th)
          BY <3>2, <3>6, <3>7, <4>1 DEF Unsent, Sent
        <4>3. Flows(c, Went("data"), th, to)
          BY <3>2, <4>1 DEF Flows, to
        <4> QED
          BY <1>1, <4>2, <4>3 DEF Channel
      <3> HIDE DEF cl, th, s, Went, to
      <3> QED
        BY <1>2, <3>2, <3>3, <3>5, <3>8, ClientChange DEF th
    <2> QED
      BY <2>1, <2>2
  <1>7. CASE Transfer!SendData(c)
    <2> DEFINE size == cl.file.size
               to == Transfer!Min({size, cl.sent + CHUNK})
    <2>1. cl.pc = "data" /\ Sent(cl, th) /\ Flows(c, cl, th, s)
      BY <1>1, <1>7 DEF Transfer!SendData, Transfer!Is, Channel, Unsent
    <2>2. size \in Nat /\ cl.sent \in Nat /\ th.off \in Nat /\ th.off <= cl.sent /\ cl.sent <= size
      BY <1>1, <2>1 DEF Sent, ClientStates, HandlerStates
    <2>3. CHUNK \in Nat /\ cl.sent + CHUNK \in Nat
      BY <2>2, TransferAssumption
    <2>4. to = IF size <= cl.sent + CHUNK THEN size ELSE cl.sent + CHUNK
      BY <2>2, <2>3, TwoNumbers
    <2>5. to \in Nat /\ cl.sent <= to /\ to <= size
      BY <2>2, <2>3, <2>4
    <2>6. CASE to = cl.sent
      BY <1>3, <1>7, <2>1, <2>6 DEF Transfer!SendData, Transfer!Go
    <2>7. CASE to # cl.sent
      <3> DEFINE new == [cl EXCEPT !.sent = to]
                 more == s \o Transfer!Bytes(c, cl.sent, to)
      <3>1. t_client' = [t_client EXCEPT ![c] = new] /\ t_stream' = [t_stream EXCEPT ![c] = more]
        BY <1>7, <2>7 DEF Transfer!SendData
      <3>2. new \in ClientStates /\ new.pc = "data" /\ new.file = cl.file /\ new.sent = to
        BY <1>1, <2>1, <2>5 DEF ClientStates
      <3>3. th.pc \notin {"close", "over"} => more = Line(c, cl.file, Taken(th), to)
        <4> SUFFICES ASSUME th.pc \notin {"close", "over"}
                     PROVE  more = Line(c, cl.file, Taken(th), to)
          OBVIOUS
        <4> DEFINE from == Taken(th)
                   sent == cl.sent
                   file == cl.file
        <4>1. s = Line(c, file, from, sent)
          BY <2>1 DEF Flows
        <4>2. from \in Nat /\ from <= sent + 2 /\ sent \in Nat /\ to \in Nat /\ sent <= to
          BY <2>2, <2>5 DEF Taken
        <4> HIDE DEF from, sent, file, to
        <4>3. Line(c, file, from, sent) \o Transfer!Bytes(c, sent, to) = Line(c, file, from, to)
          BY <4>2, LineGoesOn
        <4> QED
          BY <4>1, <4>3 DEF from, sent, file
      <3>4. Channel(c, new, th, more)
        <4>1. th.off <= to
          BY <2>2, <2>5
        <4> HIDE DEF cl, new, more, to, th
        <4>2. Sent(new, th)
          BY <2>1, <2>5, <3>2, <4>1 DEF Sent
        <4>3. Flows(c, new, th, more)
          BY <3>2, <3>3 DEF Flows
        <4> QED
          BY <1>1, <4>2, <4>3 DEF Channel
      <3> HIDE DEF cl, th, s, to, new, more
      <3> QED
        BY <1>2, <3>1, <3>2, <3>4, ClientChange DEF th
    <2> QED
      BY <2>6, <2>7
  <1> QED
    BY <1>4, <1>5, <1>6, <1>7 DEF Transfer!ClientStep, Transfer!ClientRuns

LEMMA TransferAcceptInv ==
    ASSUME Transferred, Transfer!Accept, ~t_overwritten' PROVE Transferred'
  <1> DEFINE a == t_accepted + 1
             free == Transfer!Min({d \in Transfer!Clients : t_descriptor[d] = Transfer!None})
             new == [t_thread[a] EXCEPT !.pc = "copy"]
  <1>1. free \in Clients /\ t_descriptor[free] = None
    <2>1. t_accepted \in Nat /\ t_accepted < N /\ t_descriptor \in [1 .. N -> 0 .. t_accepted]
      BY ServerAssumption, SameClients
      DEF Transfer!Accept, Transferred, TransferTypes, Clients
    <2>2. {d \in Clients : t_descriptor[d] = None} # {}
      <3>1. \A d, e \in 1 .. N : t_descriptor[d] = t_descriptor[e] /\ t_descriptor[d] # 0 => d = e
        BY DEF Transferred, Connected, Clients, None
      <3>2. {d \in 1 .. N : t_descriptor[d] = 0} # {}
        BY <2>1, <3>1, SomeFree
      <3> QED
        BY <3>2 DEF Clients, None
    <2>3. {d \in Clients : t_descriptor[d] = None} \in SUBSET Nat
      BY DEF Clients
    <2>4. Min({d \in Clients : t_descriptor[d] = None}) \in
             {d \in Clients : t_descriptor[d] = None}
      BY <2>2, <2>3, LeastIsIn
    <2> QED
      BY <2>4, SameClients DEF Min, Transfer!Min
  <1>2. /\ t_accepted < N /\ t_accepted' = a
        /\ t_descriptor' = [t_descriptor EXCEPT ![free] = a] /\ t_new_data' = free
        /\ t_thread' = [t_thread EXCEPT ![a] = new]
        /\ UNCHANGED <<t_client, t_stream, t_disk>>
    BY DEF Transfer!Accept
  <1>3. \A t \in Clients : t_thread[t].pc # "copy"
    BY SameClients DEF Transfer!Accept
  <1> HIDE DEF free
  <1>4. a \in Clients /\ t_thread[a].pc = "new" /\ t_accepted \in Nat
    BY <1>2, ServerAssumption DEF Transferred, TransferTypes, Connected, Clients
  <1>5. /\ new \in HandlerStates /\ new.pc = "copy"
        /\ \A f \in {"socket", "conn", "size", "name", "off", "ret"} : new[f] = t_thread[a][f]
    BY <1>4 DEF Transferred, TransferTypes, HandlerStates
  <1> HIDE DEF new
  <1>6. /\ t_thread'[a] = new /\ t_descriptor'[free] = a
        /\ \A t \in Clients \ {a} : t_thread'[t] = t_thread[t]
        /\ \A d \in Clients \ {free} : t_descriptor'[d] = t_descriptor[d]
    BY <1>1, <1>2, <1>4 DEF Transferred, TransferTypes
  <1>7. TransferTypes'
    <2>1. t_descriptor' \in [Clients -> 0 .. t_accepted']
      <3>1. 0 .. t_accepted \subseteq 0 .. a /\ a \in 0 .. a
        BY <1>4
      <3>2. t_descriptor \in [Clients -> 0 .. a]
        BY <3>1 DEF Transferred, TransferTypes
      <3> QED
        BY <1>2, <3>1, <3>2
    <2>2. t_thread' \in [Clients -> HandlerStates] /\ t_accepted' \in 0 .. N
      BY <1>2, <1>4, <1>5, ServerAssumption DEF Transferred, TransferTypes
    <2> QED
      BY <1>2, <2>1, <2>2 DEF Transferred, TransferTypes
  <1>8. Connected'
    <2>1. \A d \in Clients : t_descriptor[d] \in 0 .. t_accepted
      BY DEF Transferred, TransferTypes
    <2>2. \A d, e \in Clients :
             t_descriptor'[d] = t_descriptor'[e] /\ t_descriptor'[d] # None => d = e
      BY <1>1, <1>4, <1>6, <2>1 DEF Transferred, Connected
    <2>3. \A t \in Clients : t > a => t_thread'[t].pc = "new"
      BY <1>4, <1>6 DEF Transferred, Connected, Clients
    <2>4. \A t \in Clients : t_thread'[t].pc = "copy" => t = a
      BY <1>3, <1>6
    <2>5. ASSUME NEW t \in Clients, t_thread'[t].pc \in Transfer!Receiving \cup {"close"}
          PROVE  t_thread'[t].socket \in Clients /\ t_descriptor'[t_thread'[t].socket] = t
      <3>1. t # a
        BY <1>5, <1>6, <2>5 DEF Transfer!Receiving
      <3>2. t_thread'[t] = t_thread[t]
        BY <1>6, <3>1
      <3>3. t_thread[t].socket \in Clients /\ t_descriptor[t_thread[t].socket] = t /\ t # None
        BY <2>5, <3>2 DEF Transferred, Connected, Clients, None
      <3> QED
        BY <1>1, <1>6, <3>2, <3>3
    <2> QED
      BY <1>1, <1>2, <1>6, <2>2, <2>3, <2>4, <2>5 DEF Connected
  <1>9. ASSUME NEW c \in Clients PROVE Channel(c, t_client'[c], t_thread'[c], t_stream'[c])
    <2>1. CASE c # a
      BY <1>2, <1>6, <2>1 DEF Transferred
    <2>2. CASE c = a
      <3>1. Channel(a, t_client[a], new, t_stream[a])
        BY <1>4, <1>5 DEF Transferred, Channel, Unsent, Sent, Flows, Taken
      <3> QED
        BY <1>2, <1>6, <2>2, <3>1
    <2> QED
      BY <2>1, <2>2
  <1>10. ASSUME NEW n \in Transfer!Names PROVE Written(n)'
    <2>1. \A t \in Clients : /\ t_thread'[t].name = t_thread[t].name
                             /\ t_thread'[t].off = t_thread[t].off
      BY <1>5, <1>6
    <2> QED
      BY <1>2, <2>1, WrittenStays DEF Transferred
  <1> QED
    BY <1>7, <1>8, <1>9, <1>10 DEF Transferred

\* A step of a handler that keeps its descriptor; what it writes is shown apart.
LEMMA HandlerChange ==
    ASSUME Transferred, NEW t \in Clients, NEW th \in HandlerStates, NEW s,
           t_thread' = [t_thread EXCEPT ![t] = th], t_stream' = [t_stream EXCEPT ![t] = s],
           t_disk' \in [Transfer!Names -> Seq(Stored)],
           UNCHANGED <<t_client, t_accepted, t_descriptor, t_new_data>>,
           {t_thread[t].pc, th.pc} \subseteq Transfer!Receiving \cup {"close"},
           th.socket = t_thread[t].socket,
           Channel(t, t_client[t], th, s),
           \A n \in Transfer!Names : Written(n)'
    PROVE  Transferred'
  <1>1. TransferTypes'
    BY DEF Transferred, TransferTypes
  <1>2. /\ t_thread'[t] = th /\ t_stream'[t] = s
        /\ \A u \in Clients \ {t} : t_thread'[u] = t_thread[u] /\ t_stream'[u] = t_stream[u]
    BY DEF Transferred, TransferTypes
  <1>3. th.pc # "new" /\ th.pc # "copy" /\ t_thread[t].pc # "new"
    BY DEF Transfer!Receiving
  <1>4. Connected'
    <2>1. \A u \in Clients : u > t_accepted => t_thread'[u].pc = "new"
      BY <1>2, <1>3 DEF Transferred, Connected
    <2>2. \A u \in Clients : t_thread'[u].pc = "copy" => t_thread[u].pc = "copy"
      BY <1>2, <1>3
    <2>3. ASSUME NEW u \in Clients, t_thread'[u].pc \in Transfer!Receiving \cup {"close"}
          PROVE  t_thread'[u].socket \in Clients /\ t_descriptor[t_thread'[u].socket] = u
      <3>1. CASE u = t
        BY <1>2, <3>1 DEF Transferred, Connected
      <3>2. CASE u # t
        BY <1>2, <2>3, <3>2 DEF Transferred, Connected
      <3> QED
        BY <3>1, <3>2
    <2> QED
      BY <2>1, <2>2, <2>3 DEF Transferred, Connected
  <1>5. ASSUME NEW c \in Clients PROVE Channel(c, t_client'[c], t_thread'[c], t_stream'[c])
    <2>1. CASE c = t
      BY <1>2, <2>1
    <2>2. CASE c # t
      BY <1>2, <2>2 DEF Transferred
    <2> QED
      BY <2>1, <2>2
  <1> QED
    BY <1>1, <1>4, <1>5 DEF Transferred

LEMMA TransferCopyInv ==
    ASSUME Transferred, NEW t \in Clients, Transfer!Copy(t),
           UNCHANGED <<t_client, t_accepted, t_new_data>>
    PROVE  Transferred'
  <1> DEFINE th == t_thread[t]
             new == [th EXCEPT !.pc = "header", !.socket = t_new_data]
  <1>1. /\ th.pc = "copy" /\ t_thread' = [t_thread EXCEPT ![t] = new]
        /\ UNCHANGED <<t_stream, t_descriptor, t_disk>>
    BY DEF Transfer!Copy, Transfer!At, Transfer!Set
  <1>2. th \in HandlerStates /\ t_new_data \in Clients /\ t_descriptor[t_new_data] = t
    BY <1>1 DEF Transferred, TransferTypes, Connected
  <1>3. /\ new \in HandlerStates /\ new.pc = "header" /\ new.socket = t_new_data
        /\ new.conn = th.conn /\ new.name = th.name /\ new.off = th.off /\ new.ret = th.ret
    <2>1. t_new_data \in 0 .. N
      BY <1>2, ServerAssumption DEF Clients
    <2> HIDE DEF th
    <2> QED
      BY <1>2, <2>1 DEF HandlerStates
  <1>4. Channel(t, t_client[t], th, t_stream[t])
    BY DEF Transferred
  <1>5. Channel(t, t_client[t], new, t_stream[t])
    <2> HIDE DEF th, new
    <2> QED
      BY <1>1, <1>3, <1>4 DEF Channel, Unsent, Sent, Flows, Taken, th
  <1> HIDE DEF new
  <1>6. t_thread'[t] = new /\ \A u \in Clients \ {t} : t_thread'[u] = t_thread[u]
    BY <1>1 DEF Transferred, TransferTypes
  <1>7. TransferTypes'
    BY <1>1, <1>3 DEF Transferred, TransferTypes
  <1>8. Connected'
    <2>1. \A u \in Clients : u > t_accepted => t_thread'[u].pc = "new"
      BY <1>1, <1>6 DEF Transferred, Connected
    <2>2. \A u \in Clients : t_thread'[u].pc = "copy" => t_thread[u].pc = "copy"
      BY <1>3, <1>6
    <2>3. ASSUME NEW u \in Clients, t_thread'[u].pc \in Transfer!Receiving \cup {"close"}
          PROVE  t_thread'[u].socket \in Clients /\ t_descriptor[t_thread'[u].socket] = u
      <3>1. CASE u = t
        BY <1>2, <1>3, <1>6, <3>1
      <3>2. CASE u # t
        BY <1>6, <2>3, <3>2 DEF Transferred, Connected
      <3> QED
        BY <3>1, <3>2
    <2> QED
      BY <1>1, <2>1, <2>2, <2>3 DEF Transferred, Connected
  <1>9. ASSUME NEW c \in Clients PROVE Channel(c, t_client'[c], t_thread'[c], t_stream'[c])
    <2>1. CASE c = t
      BY <1>1, <1>5, <1>6, <2>1
    <2>2. CASE c # t
      BY <1>1, <1>6, <2>2 DEF Transferred
    <2> QED
      BY <2>1, <2>2
  <1>10. ASSUME NEW n \in Transfer!Names PROVE Written(n)'
    BY <1>1, <1>3, <1>6, WrittenStays DEF Transferred
  <1> QED
    BY <1>7, <1>8, <1>9, <1>10 DEF Transferred

LEMMA TransferCloseInv ==
    ASSUME Transferred, NEW t \in Clients, Transfer!Close(t),
           UNCHANGED <<t_client, t_accepted, t_new_data>>
    PROVE  Transferred'
  <1> DEFINE th == t_thread[t]
             new == [th EXCEPT !.pc = "over"]
  <1>1. /\ th.pc = "close" /\ t_thread' = [t_thread EXCEPT ![t] = new]
        /\ t_descriptor' = [t_descriptor EXCEPT ![th.socket] = None]
        /\ UNCHANGED <<t_stream, t_disk>>
    BY SameClients DEF Transfer!Close, Transfer!At, Transfer!Set
  <1>2. th \in HandlerStates /\ th.socket \in Clients /\ t_descriptor[th.socket] = t
    BY <1>1 DEF Transferred, TransferTypes, Connected
  <1>3. /\ new \in HandlerStates /\ new.pc = "over" /\ new.conn = th.conn
        /\ new.name = th.name /\ new.off = th.off /\ new.ret = th.ret
    BY <1>2 DEF HandlerStates
  <1>4. Channel(t, t_client[t], th, t_stream[t])
    BY DEF Transferred
  <1>5. Channel(t, t_client[t], new, t_stream[t])
    <2> HIDE DEF th, new
    <2> QED
      BY <1>1, <1>3, <1>4 DEF Channel, Unsent, Sent, Flows, Taken, th
  <1> HIDE DEF new
  <1>6. /\ t_thread'[t] = new /\ \A u \in Clients \ {t} : t_thread'[u] = t_thread[u]
        /\ t_descriptor'[th.socket] = None
        /\ \A d \in Clients \ {th.socket} : t_descriptor'[d] = t_descriptor[d]
    BY <1>1, <1>2 DEF Transferred, TransferTypes
  <1>7. TransferTypes'
    <2>1. None \in 0 .. t_accepted
      BY ServerAssumption DEF Transferred, TransferTypes, None
    <2> QED
      BY <1>1, <1>3, <2>1 DEF Transferred, TransferTypes
  <1>8. Connected'
    <2>1. ASSUME NEW u \in Clients, u # t, NEW d \in Clients, t_descriptor[d] = u
          PROVE  t_descriptor'[d] = u
      BY <1>2, <1>6, <2>1
    <2>2. \A u \in Clients : u > t_accepted => t_thread'[u].pc = "new"
      BY <1>1, <1>6 DEF Transferred, Connected
    <2>3. ASSUME NEW u \in Clients, t_thread'[u].pc = "copy"
          PROVE  t_new_data \in Clients /\ t_descriptor'[t_new_data] = u
      <3>1. u # t /\ t_thread[u].pc = "copy"
        BY <1>3, <1>6, <2>3
      <3> QED
        BY <2>1, <3>1 DEF Transferred, Connected
    <2>4. ASSUME NEW u \in Clients, t_thread'[u].pc \in Transfer!Receiving \cup {"close"}
          PROVE  t_thread'[u].socket \in Clients /\ t_descriptor'[t_thread'[u].socket] = u
      <3>1. u # t
        BY <1>3, <1>6, <2>4 DEF Transfer!Receiving
      <3>2. t_thread'[u] = t_thread[u]
        BY <1>6, <3>1
      <3> QED
        BY <2>1, <2>4, <3>1, <3>2 DEF Transferred, Connected
    <2>5. \A d, e \in Clients :
             t_descriptor'[d] = t_descriptor'[e] /\ t_descriptor'[d] # None => d = e
      BY <1>6 DEF Transferred, Connected
    <2> QED
      BY <1>1, <2>2, <2>3, <2>4, <2>5 DEF Connected
  <1>9. ASSUME NEW c \in Clients PROVE Channel(c, t_client'[c], t_thread'[c], t_stream'[c])
    <2>1. CASE c = t
      BY <1>1, <1>5, <1>6, <2>1
    <2>2. CASE c # t
      BY <1>1, <1>6, <2>2 DEF Transferred
    <2> QED
      BY <2>1, <2>2
  <1>10. ASSUME NEW n \in Transfer!Names PROVE Written(n)'
    BY <1>1, <1>3, <1>6, WrittenStays DEF Transferred
  <1> QED
    BY <1>7, <1>8, <1>9, <1>10 DEF Transferred

\* A step of a handler that writes nothing.
LEMMA HandlerReads ==
    ASSUME Transferred, NEW t \in Clients, NEW th \in HandlerStates, NEW s,
           t_thread' = [t_thread EXCEPT ![t] = th], t_stream' = [t_stream EXCEPT ![t] = s],
           UNCHANGED <<t_client, t_accepted, t_descriptor, t_new_data, t_disk>>,
           {t_thread[t].pc, th.pc} \subseteq Transfer!Receiving \cup {"close"},
           th.socket = t_thread[t].socket,
           th.name = t_thread[t].name, th.off = t_thread[t].off,
           Channel(t, t_client[t], th, s)
    PROVE  Transferred'
  <1>1. \A u \in Clients : /\ t_thread'[u].name = t_thread[u].name
                           /\ t_thread'[u].off = t_thread[u].off
    BY DEF Transferred, TransferTypes
  <1>2. \A n \in Transfer!Names : Written(n)'
    BY <1>1, WrittenStays DEF Transferred
  <1>3. t_disk' \in [Transfer!Names -> Seq(Stored)]
    BY DEF Transferred, TransferTypes
  <1> QED
    BY <1>2, <1>3, HandlerChange

LEMMA TransferCallInv ==
    ASSUME Transferred, NEW t \in Clients, Transfer!Call(t),
           UNCHANGED <<t_client, t_accepted, t_new_data>>
    PROVE  Transferred'
  <1> DEFINE th == t_thread[t]
             new == [th EXCEPT !.conn = t]
  <1>1. /\ th \in HandlerStates /\ t # None
        /\ t_stream = [b \in Clients |-> t_stream[b]]
    BY DEF Transferred, TransferTypes, Clients, None
  <1>2. th.pc \in Transfer!Receiving /\ UNCHANGED <<t_stream, t_descriptor, t_disk>>
    BY DEF Transfer!Call
  <1>3. t_descriptor[th.socket] = t
    BY <1>2 DEF Transferred, Connected
  <1>4. t_thread' = [t_thread EXCEPT ![t] = new]
    BY <1>1, <1>3, SameClients DEF Transfer!Call, Transfer!Set
  <1>5. /\ new \in HandlerStates /\ new.pc = th.pc /\ new.socket = th.socket /\ new.conn = t
        /\ new.size = th.size /\ new.name = th.name /\ new.off = th.off /\ new.ret = th.ret
    BY <1>1 DEF HandlerStates, Clients
  <1>6. Channel(t, t_client[t], th, t_stream[t])
    BY DEF Transferred
  <1>7. Channel(t, t_client[t], new, t_stream[t])
    <2> HIDE DEF th, new
    <2> QED
      BY <1>5, <1>6 DEF Channel, Unsent, Sent, Flows, Taken
  <1>8. t_stream' = [t_stream EXCEPT ![t] = t_stream[t]]
    BY <1>1, <1>2
  <1>9. {th.pc, new.pc} \subseteq Transfer!Receiving \cup {"close"}
    BY <1>2, <1>5
  <1> HIDE DEF new
  <1> QED
    BY <1>2, <1>4, <1>5, <1>7, <1>8, <1>9, HandlerReads

\* What is on its way to a handler that receives.
LEMMA Coming ==
    ASSUME Transferred, NEW t \in Clients, t_thread[t].pc \in {"header", "name", "data"},
           Sent(t_client[t], t_thread[t]),
           Flows(t, t_client[t], t_thread[t], t_stream[t])
    PROVE  LET from == Taken(t_thread[t])
               sent == t_client[t].sent
               file == t_client[t].file
               s == t_stream[t]
           IN  /\ from \in Nat /\ sent \in Nat /\ from <= sent + 2
               /\ s = Line(t, file, from, sent) /\ Len(s) = sent + 2 - from
               /\ from = sent + 2 <=> s = <<>>
               /\ s # <<>> => Head(s) = Item(t, file, from + 1)
               /\ \A k \in Nat : from + k <= sent + 2 =>
                    Rest(s, k) = Line(t, file, from + k, sent)
               /\ s = <<>> => t_thread[t].pc = "data"
  <1> DEFINE from == Taken(t_thread[t])
             sent == t_client[t].sent
             file == t_client[t].file
             s == t_stream[t]
  <1>1. sent \in Nat /\ t_thread[t].off \in Nat /\ t_thread[t].off <= sent
    BY DEF Transferred, TransferTypes, ClientStates, HandlerStates, Sent
  <1>2. from \in Nat /\ from <= sent + 2 /\ (from = sent + 2 => t_thread[t].pc = "data")
    BY <1>1 DEF Taken
  <1>3. s = Line(t, file, from, sent)
    BY DEF Flows
  <1> HIDE DEF from, sent, file, s
  <1>4. Len(s) = sent + 2 - from
    BY <1>1, <1>2, <1>3, LineLen
  <1>5. from = sent + 2 <=> s = <<>>
    BY <1>1, <1>2, <1>3, LineHead
  <1>6. from < sent + 2 => Head(s) = Item(t, file, from + 1)
    BY <1>1, <1>2, <1>3, LineHead
  <1>7. \A k \in Nat : from + k <= sent + 2 =>
           Rest(s, k) = Line(t, file, from + k, sent)
    BY <1>1, <1>2, <1>3, LineRest
  <1>8. s # <<>> => from < sent + 2
    BY <1>1, <1>2, <1>5
  <1> QED
    BY <1>1, <1>2, <1>3, <1>4, <1>5, <1>6, <1>7, <1>8 DEF from, sent, file, s

\* An unsent client has sent nothing that could be taken for the item a handler expects.
LEMMA Expected ==
    ASSUME Transferred, NEW t \in Clients, NEW pc \in {"header", "name", "data"}, NEW kind,
           Transfer!Gets(t, pc, kind)
    PROVE  /\ t_thread[t].conn = t /\ t_thread[t].pc = pc /\ t_stream[t] # <<>>
           /\ Sent(t_client[t], t_thread[t])
           /\ Flows(t, t_client[t], t_thread[t], t_stream[t])
  <1>1. Channel(t, t_client[t], t_thread[t], t_stream[t])
    BY DEF Transferred
  <1> QED
    BY <1>1, SameClients DEF Transfer!Gets, Transfer!At, Channel, Unsent

LEMMA TransferHeaderInv ==
    ASSUME Transferred, NEW t \in Clients, Transfer!RecvHeader(t),
           UNCHANGED <<t_client, t_accepted, t_new_data>>
    PROVE  Transferred'
  <1> DEFINE cl == t_client[t]
             th == t_thread[t]
             s == t_stream[t]
             size == cl.file.size % WRAP
             new == [th EXCEPT !.pc = "name", !.conn = None, !.size = size]
             rest == Line(t, cl.file, 1, cl.sent)
  <1>1. /\ th.conn = t /\ th.pc = "header" /\ s # <<>>
        /\ Sent(cl, th) /\ Flows(t, cl, th, s)
    BY Expected DEF Transfer!RecvHeader
  <1>2. th \in HandlerStates /\ cl \in ClientStates
    BY DEF Transferred, TransferTypes
  <1>3. cl.sent \in Nat /\ cl.file.size \in Nat /\ size \in Nat
    BY <1>1, <1>2, TransferAssumption DEF Sent, ClientStates
  <1>4. Head(s) = <<"header", size>> /\ Rest(s, 1) = rest
    <2>1. Taken(th) = 0
      BY <1>1 DEF Taken
    <2>2. Head(s) = Item(t, cl.file, 0 + 1)
      BY <1>1, <2>1, Coming
    <2>3. 0 + 1 <= cl.sent + 2 /\ 1 \in Nat /\ 0 + 1 = 1
      BY <1>3
    <2>4. Rest(s, 1) = Line(t, cl.file, 0 + 1, cl.sent)
      BY <1>1, <2>1, <2>3, Coming
    <2>5. Head(s) = <<"header", size>>
      BY <2>2, <2>3 DEF Item
    <2> QED
      BY <2>3, <2>4, <2>5
  <1>5. /\ t_thread' = [t_thread EXCEPT ![t] = new] /\ t_stream' = [t_stream EXCEPT ![t] = rest]
        /\ UNCHANGED <<t_descriptor, t_disk>>
    <2>1. Transfer!Value(t) = size
      BY <1>1, <1>4 DEF Transfer!Value
    <2>2. t_thread' = [t_thread EXCEPT ![t] = new]
      BY <2>1, SameClients DEF Transfer!RecvHeader, Transfer!Set
    <2>3. t_stream' = [t_stream EXCEPT ![t] = Rest(s, 1)]
      BY <1>1 DEF Transfer!RecvHeader, Transfer!Consume, Rest
    <2> QED
      BY <1>4, <2>2, <2>3 DEF Transfer!RecvHeader
  <1>6. /\ new \in HandlerStates /\ new.pc = "name" /\ new.conn = None /\ new.size = size
        /\ new.socket = th.socket /\ new.name = th.name /\ new.off = th.off /\ new.ret = th.ret
    <2>1. None \in 0 .. N
      BY ServerAssumption DEF None
    <2> QED
      BY <1>2, <1>3, <2>1 DEF HandlerStates
  <1>7. Channel(t, cl, new, rest)
    <2>1. Taken(new) = 1
      BY <1>6 DEF Taken
    <2> HIDE DEF new, th, cl, s
    <2>2. Sent(cl, new)
      BY <1>1, <1>6 DEF Sent
    <2>3. Flows(t, cl, new, rest)
      BY <2>1 DEF Flows, rest
    <2> QED
      BY <1>6, <2>2, <2>3 DEF Channel
  <1>8. {th.pc, new.pc} \subseteq Transfer!Receiving \cup {"close"}
    BY <1>1, <1>6 DEF Transfer!Receiving
  <1> HIDE DEF new, rest
  <1> QED
    BY <1>5, <1>6, <1>7, <1>8, HandlerReads

LEMMA TransferGarbleInv ==
    ASSUME Transferred, NEW t \in Clients, Transfer!Garble(t),
           UNCHANGED <<t_client, t_accepted, t_new_data>>
    PROVE  Transferred'
  <1> DEFINE cl == t_client[t]
             th == t_thread[t]
             s == t_stream[t]
  <1>1. th \in HandlerStates /\ cl \in ClientStates
    BY DEF Transferred, TransferTypes
  <1>2. Channel(t, cl, th, s)
    BY DEF Transferred
  <1>3. th.conn = t /\ th.pc \in Transfer!Receiving
    BY <1>2, SameClients DEF Transfer!Garble, Channel
  <1>4. IF s = <<>> THEN Transfer!Ended(t) /\ th.pc # "data"
        ELSE Head(s)[1] # IF th.pc = "data" THEN "byte" ELSE th.pc
    BY <1>3 DEF Transfer!Garble
  <1>5. Unsent(cl, th, s)
    <2> SUFFICES ASSUME Sent(cl, th), Flows(t, cl, th, s) PROVE FALSE
      BY <1>2 DEF Channel
    <2> DEFINE from == Taken(th)
    <2>1. th.pc \in {"header", "name", "data"}
      BY <1>3 DEF Sent, Transfer!Receiving
    <2>2. (s = <<>> => th.pc = "data") /\ (s # <<>> => Head(s) = Item(t, cl.file, from + 1))
      BY <2>1, Coming
    <2>3. s # <<>>
      BY <1>4, <2>2
    <2>4. Head(s)[1] # IF th.pc = "data" THEN "byte" ELSE th.pc
      BY <1>4, <2>3
    <2>5. th.off \in Nat
      BY <1>1 DEF HandlerStates
    <2>6. Item(t, cl.file, from + 1)[1] = IF th.pc = "data" THEN "byte" ELSE th.pc
      BY <2>1, <2>5 DEF Item, Byte, Taken
    <2> HIDE DEF from
    <2> QED
      BY <2>2, <2>3, <2>4, <2>6
  <1>6. s = <<>> /\ cl.pc = "gone"
    BY <1>4, <1>5, SameClients DEF Unsent, Transfer!Ended
  <1>7. t_stream' = [t_stream EXCEPT ![t] = <<>>]
    <2>1. PICK k \in 0 .. Len(s) : Transfer!Consume(t, k)
      BY <1>3 DEF Transfer!Garble
    <2>2. k = 0 /\ Len(<<>>) = 0 /\ SubSeq(<<>>, 0 + 1, 0) = <<>>
      BY <1>6, <2>1
    <2> QED
      BY <1>3, <1>6, <2>1, <2>2 DEF Transfer!Consume
  <1>8. UNCHANGED <<t_descriptor, t_disk>>
    BY DEF Transfer!Garble
  <1>9. PICK new \in {[th EXCEPT !.pc = "garbled", !.conn = None],
                      [th EXCEPT !.pc = "close", !.conn = None, !.ret = "failed"]} :
           t_thread' = [t_thread EXCEPT ![t] = new]
    BY SameClients DEF Transfer!Garble, Transfer!Set, Transfer!Return
  <1>10. /\ new \in HandlerStates /\ new.conn = None /\ new.socket = th.socket
         /\ new.name = th.name /\ new.off = th.off
         /\ \/ new.pc = "garbled" /\ new.ret = th.ret
            \/ new.pc = "close" /\ new.ret = "failed"
    <2>1. None \in 0 .. N
      BY ServerAssumption DEF None
    <2>2. CASE new = [th EXCEPT !.pc = "garbled", !.conn = None]
      BY <1>1, <2>1, <2>2 DEF HandlerStates
    <2>3. CASE new = [th EXCEPT !.pc = "close", !.conn = None, !.ret = "failed"]
      BY <1>1, <2>1, <2>3 DEF HandlerStates
    <2> QED
      BY <1>9, <2>2, <2>3
  <1>11. Channel(t, cl, new, <<>>)
    <2>1. th.ret = "none"
      BY <1>3, <1>5 DEF Unsent, Transfer!Receiving
    <2>2. Unsent(cl, new, <<>>)
      <3> HIDE DEF th, cl, s
      <3> QED
        BY <1>5, <1>6, <1>10, <2>1 DEF Unsent
    <2> QED
      BY <1>10, <2>2 DEF Channel
  <1>12. {th.pc, new.pc} \subseteq Transfer!Receiving \cup {"close"}
    BY <1>3, <1>10 DEF Transfer!Receiving
  <1> QED
    BY <1>7, <1>8, <1>9, <1>10, <1>11, <1>12, HandlerReads

LEMMA LoopFacts ==
    ASSUME NEW th \in HandlerStates
    PROVE  LET new == Transfer!Loop(th)
           IN  /\ new \in HandlerStates /\ new.conn = None
               /\ new.socket = th.socket /\ new.size = th.size
               /\ new.name = th.name /\ new.off = th.off
               /\ \/ new.pc = "data" /\ new.ret = th.ret
                  \/ new.pc = "close" /\ new.ret = "received" /\ th.off % WRAP >= th.size
  <1>1. None \in 0 .. N
    BY ServerAssumption DEF None
  <1>2. th.off % WRAP \in Nat /\ th.size \in Nat
    BY TransferAssumption DEF HandlerStates
  <1>3. CASE th.off % WRAP < th.size
    BY <1>1, <1>3, SameClients DEF Transfer!Loop, HandlerStates
  <1>4. CASE ~(th.off % WRAP < th.size)
    <2>1. th.off % WRAP >= th.size
      BY <1>2, <1>4
    <2> QED
      BY <1>1, <1>4, <2>1, SameClients DEF Transfer!Loop, Transfer!Return, HandlerStates
  <1> QED
    BY <1>3, <1>4

LEMMA TransferNameInv ==
    ASSUME Transferred, NEW t \in Clients, Transfer!RecvName(t),
           UNCHANGED <<t_client, t_accepted, t_new_data>>
    PROVE  Transferred'
  <1> DEFINE cl == t_client[t]
             th == t_thread[t]
             s == t_stream[t]
             nm == cl.file.name
             rest == Line(t, cl.file, 2, cl.sent)
  <1>1. /\ th.conn = t /\ th.pc = "name" /\ s # <<>>
        /\ Sent(cl, th) /\ Flows(t, cl, th, s)
    BY Expected DEF Transfer!RecvName
  <1>2. th \in HandlerStates /\ cl \in ClientStates
    BY DEF Transferred, TransferTypes
  <1>3. cl.sent \in Nat /\ nm # "none" /\ nm \in Transfer!Names
    BY <1>2, TransferAssumption DEF ClientStates, Transfer!Names
  <1>4. /\ th.name = "none" /\ th.off = 0 /\ th.ret = "none" /\ th.size = cl.file.size % WRAP
        /\ cl.pc \notin {"new", "header"} /\ cl.file.size \in Nat /\ cl.sent <= cl.file.size
    BY <1>1 DEF Sent
  <1>5. Head(s) = <<"name", nm>> /\ Rest(s, 1) = rest
    <2>1. Taken(th) = 1
      BY <1>1 DEF Taken
    <2>2. Head(s) = Item(t, cl.file, 1 + 1)
      BY <1>1, <2>1, Coming
    <2>3. 1 + 1 <= cl.sent + 2 /\ 1 \in Nat /\ 1 + 1 = 2
      BY <1>3
    <2>4. Rest(s, 1) = Line(t, cl.file, 1 + 1, cl.sent)
      BY <1>1, <2>1, <2>3, Coming
    <2> QED
      BY <2>2, <2>3, <2>4 DEF Item
  <1>6. /\ t_stream' = [t_stream EXCEPT ![t] = rest] /\ UNCHANGED t_descriptor
        /\ Transfer!Value(t) = nm
    <2>1. t_stream' = [t_stream EXCEPT ![t] = Rest(s, 1)]
      BY <1>1 DEF Transfer!RecvName, Transfer!Consume, Rest
    <2>2. Transfer!Value(t) = nm
      BY <1>1, <1>5 DEF Transfer!Value
    <2> QED
      BY <1>5, <2>1, <2>2 DEF Transfer!RecvName
  <1>7. CASE nm = "exit"
    <2> DEFINE new == [th EXCEPT !.pc = "close", !.conn = None, !.ret = "failed"]
    <2>1. t_thread' = [t_thread EXCEPT ![t] = new] /\ t_disk' = t_disk
      BY <1>6, <1>7, SameClients DEF Transfer!RecvName, Transfer!Set, Transfer!Return
    <2>2. /\ new \in HandlerStates /\ new.pc = "close" /\ new.conn = None
          /\ new.ret = "failed" /\ new.socket = th.socket /\ new.name = th.name
          /\ new.off = th.off
      <3>1. None \in 0 .. N
        BY ServerAssumption DEF None
      <3> QED
        BY <1>2, <3>1 DEF HandlerStates
    <2>3. Channel(t, cl, new, rest)
      <3> HIDE DEF new, th, cl, s, rest
      <3> QED
        BY <1>1, <2>2 DEF Channel, Sent, Flows
    <2>4. {th.pc, new.pc} \subseteq Transfer!Receiving \cup {"close"}
      BY <1>1, <2>2 DEF Transfer!Receiving
    <2> HIDE DEF new, rest
    <2> QED
      BY <1>6, <2>1, <2>2, <2>3, <2>4, HandlerReads
  <1>8. CASE nm # "exit"
    <2> DEFINE base == [th EXCEPT !.name = nm]
               new == Transfer!Loop(base)
    <2>1. t_thread' = [t_thread EXCEPT ![t] = new] /\ t_disk' = [t_disk EXCEPT ![nm] = <<>>]
      BY <1>6, <1>8 DEF Transfer!RecvName, Transfer!Set
    <2>2. /\ base \in HandlerStates /\ base.socket = th.socket /\ base.size = th.size
          /\ base.name = nm /\ base.off = 0 /\ base.ret = "none"
      BY <1>2, <1>3, <1>4 DEF HandlerStates
    <2>3. /\ new \in HandlerStates /\ new.conn = None /\ new.socket = th.socket
          /\ new.size = th.size /\ new.name = nm /\ new.off = 0
          /\ \/ new.pc = "data" /\ new.ret = "none"
             \/ new.pc = "close" /\ new.ret = "received" /\ new.off % WRAP >= new.size
      <3> HIDE DEF base
      <3> QED
        BY <2>2, LoopFacts
    <2> HIDE DEF new
    <2>4. Channel(t, cl, new, rest)
      <3>1. new.pc = "data" => Taken(new) = 2
        BY <2>3 DEF Taken
      <3>2. new.off <= cl.sent
        BY <1>3, <2>3
      <3> HIDE DEF th, cl, s
      <3>3. Sent(cl, new)
        BY <1>3, <1>4, <2>3, <3>2 DEF Sent
      <3>4. Flows(t, cl, new, rest)
        BY <2>3, <3>1 DEF Flows
      <3> QED
        BY <2>3, <3>3, <3>4 DEF Channel
    <2>5. {th.pc, new.pc} \subseteq Transfer!Receiving \cup {"close"}
      BY <1>1, <2>3 DEF Transfer!Receiving
    <2>6. /\ t_thread'[t] = new /\ \A u \in Clients \ {t} : t_thread'[u] = t_thread[u]
          /\ t_disk'[nm] = <<>> /\ \A n \in Transfer!Names \ {nm} : t_disk'[n] = t_disk[n]
          /\ t_disk' \in [Transfer!Names -> Seq(Stored)]
      BY <1>3, <2>1 DEF Transferred, TransferTypes
    <2>7. ASSUME NEW n \in Transfer!Names PROVE Written(n)'
      <3>1. n # "none"
        BY TransferAssumption DEF Transfer!Names
      <3>2. CASE n = nm
        <4>1. t \in Transfer!WritersOf(n)'
          BY <2>3, <2>6, <3>2, SameClients DEF Transfer!WritersOf
        <4>2. t_disk'[n] = <<>> /\ t_thread'[t].off = 0 /\ Len(<<>>) = 0
          BY <2>3, <2>6, <3>2
        <4>3. 1 .. 0 = {} /\ 0 <= 0
          OBVIOUS
        <4> QED
          BY <4>1, <4>2, <4>3 DEF Written
      <3>3. CASE n # nm
        <4>1. t_thread'[t].name # n /\ t_thread[t].name # n
          BY <1>4, <2>3, <2>6, <3>1, <3>3
        <4>2. Written(n) /\ t_disk'[n] = t_disk[n]
          BY <2>6, <3>3 DEF Transferred
        <4> QED
          BY <2>6, <4>1, <4>2, WrittenStays
      <3> QED
        BY <3>2, <3>3
    <2> HIDE DEF rest
    <2> QED
      BY <1>6, <2>1, <2>3, <2>4, <2>5, <2>6, <2>7, HandlerChange
  <1> QED
    BY <1>7, <1>8

\* Some handler t writes k bytes behind what it has written to its file.
LEMMA WritesOn ==
    ASSUME Transferred, NEW t \in Clients, NEW n \in Transfer!Names, NEW k \in Nat,
           t_thread[t].name = n, NEW data \in Seq(Stored), Len(data) = k,
           \A j \in 1 .. k : data[j] = Byte(t, t_thread[t].off + j),
           t_disk'[n] = Transfer!WriteAt(t_disk[n], t_thread[t].off, data),
           \A u \in Clients : t_thread'[u].name = t_thread[u].name,
           \A u \in Clients \ {t} : t_thread'[u].off = t_thread[u].off,
           t_thread'[t].off = t_thread[t].off + k
    PROVE  Written(n)'
  <1> DEFINE W == Transfer!WritersOf(n)
             f == t_disk[n]
             g == t_disk'[n]
             off == t_thread[t].off
  <1>1. W' = W /\ t \in W /\ W \subseteq Clients
    BY SameClients DEF Transfer!WritersOf
  <1>2. f \in Seq(Stored) /\ off \in Nat /\ Len(f) \in Nat
    BY DEF Transferred, TransferTypes, HandlerStates
  <1>3. /\ g \in Seq(Stored)
        /\ Len(g) = IF Len(f) >= off + k THEN Len(f) ELSE off + k
        /\ \A j \in 1 .. Len(g) :
             g[j] = IF j \in off + 1 .. off + k THEN data[j - off]
                    ELSE IF j <= Len(f) THEN f[j] ELSE Transfer!Hole
    <2>1. g = Transfer!WriteAt(f, off, data)
      OBVIOUS
    <2> HIDE DEF f, g, off
    <2>2. Overwrites(g, f, off, data, k)
      BY <1>2, <2>1, WriteAtFacts
    <2> QED
      BY <2>2 DEF Overwrites
  <1>4. /\ \A j \in 1 .. Len(f) : f[j] \in {Byte(u, j) : u \in W} \cup {Transfer!Hole}
        /\ \E u \in W : \A j \in 1 .. t_thread[u].off : j <= Len(f) /\ f[j] # Transfer!Hole
        /\ \E u \in W : Len(f) <= t_thread[u].off
    <2>1. Written(n) /\ W # {}
      BY <1>1 DEF Transferred
    <2> QED
      BY <2>1, Zenon DEF Written
  <1>5. \A u \in W : t_thread[u].off \in Nat /\ t_thread'[u].off \in Nat
    <2> SUFFICES ASSUME NEW u \in W PROVE t_thread[u].off \in Nat /\ t_thread'[u].off \in Nat
      OBVIOUS
    <2>1. t_thread[u].off \in Nat
      BY <1>1 DEF Transferred, TransferTypes, HandlerStates
    <2>2. t_thread'[u].off \in {t_thread[u].off, t_thread[t].off + k}
      BY <1>1
    <2> QED
      BY <1>2, <2>1, <2>2
  <1>6. \A j \in off + 1 .. off + k : data[j - off] = Byte(t, j)
    <2> SUFFICES ASSUME NEW j \in off + 1 .. off + k PROVE data[j - off] = Byte(t, j)
      OBVIOUS
    <2>1. j - off \in 1 .. k /\ off + (j - off) = j
      BY <1>2
    <2> QED
      BY <2>1
  <1>7. \A j : Byte(t, j) # Transfer!Hole
    BY DEF Byte, Transfer!Hole
  <1> HIDE DEF W, f, g, off
  <1>8. \A j \in 1 .. Len(g) : g[j] \in {Byte(u, j) : u \in W} \cup {Transfer!Hole}
    BY <1>1, <1>2, <1>3, <1>4, <1>6
  <1>9. Len(g) \in Nat /\ Len(f) <= Len(g) /\ off + k <= Len(g)
    BY <1>2, <1>3
  <1>10. \A j \in 1 .. Len(f) : f[j] # Transfer!Hole => g[j] # Transfer!Hole
    BY <1>2, <1>3, <1>6, <1>7, <1>9
  <1>11. \A j \in off + 1 .. off + k : j <= Len(g) /\ g[j] # Transfer!Hole
    <2> SUFFICES ASSUME NEW j \in off + 1 .. off + k PROVE j <= Len(g) /\ g[j] # Transfer!Hole
      OBVIOUS
    <2>1. j \in 1 .. Len(g)
      BY <1>2, <1>9
    <2> QED
      BY <1>3, <1>6, <1>7, <2>1
  <1>12. PICK u \in W : \A j \in 1 .. t_thread[u].off : j <= Len(f) /\ f[j] # Transfer!Hole
    BY <1>4
  <1>13. \A j \in 1 .. t_thread'[u].off : j <= Len(g) /\ g[j] # Transfer!Hole
    <2> SUFFICES ASSUME NEW j \in 1 .. t_thread'[u].off PROVE j <= Len(g) /\ g[j] # Transfer!Hole
      OBVIOUS
    <2>1. CASE j <= t_thread[u].off
      <3>1. j \in 1 .. t_thread[u].off
        BY <1>5, <2>1
      <3>2. j <= Len(f) /\ f[j] # Transfer!Hole
        BY <1>12, <3>1
      <3> QED
        BY <1>2, <1>9, <1>10, <3>1, <3>2
    <2>2. CASE ~(j <= t_thread[u].off)
      <3>1. u = t
        BY <1>1, <2>2
      <3>2. j \in off + 1 .. off + k
        BY <1>2, <2>2, <3>1 DEF off
      <3> QED
        BY <1>11, <3>2
    <2> QED
      BY <2>1, <2>2
  <1>14. \E v \in W : Len(g) <= t_thread'[v].off
    <2>1. CASE Len(f) >= off + k
      <3>1. PICK v \in W : Len(f) <= t_thread[v].off
        BY <1>4
      <3>2. t_thread[v].off <= t_thread'[v].off
        BY <1>1, <1>5
      <3>3. Len(g) = Len(f)
        BY <1>3, <2>1
      <3>4. Len(g) <= t_thread'[v].off
        BY <1>2, <1>5, <3>1, <3>2, <3>3
      <3> QED
        BY <3>1, <3>4
    <2>2. CASE ~(Len(f) >= off + k)
      BY <1>1, <1>2, <1>3, <2>2 DEF off
    <2> QED
      BY <2>1, <2>2
  <1> QED
    BY <1>1, <1>8, <1>12, <1>13, <1>14 DEF Written, W, g

LEMMA TransferDataInv ==
    ASSUME Transferred, NEW t \in Clients, Transfer!RecvData(t),
           UNCHANGED <<t_client, t_accepted, t_new_data>>
    PROVE  Transferred'
  <1> DEFINE cl == t_client[t]
             th == t_thread[t]
             s == t_stream[t]
             n == cl.sent - th.off
  <1>1. /\ th.conn = t /\ th.pc = "data" /\ s # <<>>
        /\ Sent(cl, th) /\ Flows(t, cl, th, s)
    BY Expected DEF Transfer!RecvData
  <1>2. th \in HandlerStates /\ cl \in ClientStates
    BY DEF Transferred, TransferTypes
  <1>3. /\ cl.sent \in Nat /\ th.off \in Nat /\ th.off <= cl.sent /\ cl.sent <= cl.file.size
        /\ th.name = cl.file.name /\ th.ret = "none" /\ th.size = cl.file.size % WRAP
        /\ cl.pc \notin {"new", "header"} /\ cl.file.size \in Nat /\ th.name # "none"
    BY <1>1, <1>2 DEF Sent, ClientStates, HandlerStates
  <1>4. Taken(th) = 2 + th.off /\ 2 + th.off \in Nat /\ n \in Nat /\ n = cl.sent + 2 - (2 + th.off)
    BY <1>1, <1>3 DEF Taken
  <1>5. /\ s = Line(t, cl.file, 2 + th.off, cl.sent) /\ Len(s) = n
        /\ \A k \in Nat : 2 + th.off + k <= cl.sent + 2 =>
             Rest(s, k) = Line(t, cl.file, 2 + th.off + k, cl.sent)
    BY <1>1, <1>4, Coming
  <1>6. PICK k \in 1 .. Transfer!Min({CHUNK, Len(s)}) :
           /\ t_disk' = [t_disk EXCEPT ![th.name] =
                            Transfer!WriteAt(@, th.off, SubSeq(s, 1, k))]
           /\ t_thread' = [t_thread EXCEPT ![t] = Transfer!Loop([th EXCEPT !.off = @ + k])]
           /\ t_stream' = [t_stream EXCEPT ![t] = Rest(s, k)]
    BY <1>1 DEF Transfer!RecvData, Transfer!Set, Transfer!Consume, Rest
  <1>7. k \in Nat /\ k \in 0 .. n /\ 2 + th.off + k <= cl.sent + 2
    <2> DEFINE most == Transfer!Min({CHUNK, Len(s)})
    <2>1. CHUNK \in Nat /\ Len(s) \in Nat
      BY <1>4, <1>5, TransferAssumption
    <2>2. most = IF CHUNK <= Len(s) THEN CHUNK ELSE Len(s)
      <3> HIDE DEF s
      <3> QED
        BY <2>1, TwoNumbers
    <2>3. k \in 1 .. most
      OBVIOUS
    <2> HIDE DEF most
    <2>4. k \in Nat /\ k <= Len(s)
      BY <2>1, <2>2, <2>3
    <2> QED
      BY <1>3, <1>5, <2>4
  <1> DEFINE data == SubSeq(s, 1, k)
             rest == Line(t, cl.file, 2 + th.off + k, cl.sent)
             base == [th EXCEPT !.off = @ + k]
             new == Transfer!Loop(base)
  <1>8. /\ data \in Seq(Stored) /\ Len(data) = k
        /\ \A j \in 1 .. k : data[j] = Byte(t, th.off + j)
    <2>1. data = [j \in 1 .. k |-> s[j]]
      <3> HIDE DEF s
      <3> QED
        BY <1>7
    <2>2. \A j \in 1 .. k : data[j] = Item(t, cl.file, 2 + th.off + j)
      <3> SUFFICES ASSUME NEW j \in 1 .. k PROVE s[j] = Item(t, cl.file, 2 + th.off + j)
        BY <2>1
      <3>1. j \in 1 .. cl.sent + 2 - (2 + th.off)
        BY <1>4, <1>7
      <3>2. \A p \in Nat : \A i \in 1 .. cl.sent + 2 - p :
               Line(t, cl.file, p, cl.sent)[i] = Item(t, cl.file, p + i)
        BY <1>3, LineItem
      <3> QED
        BY <1>4, <1>5, <3>1, <3>2
    <2>3. \A j \in 1 .. k : Item(t, cl.file, 2 + th.off + j) = Byte(t, th.off + j)
      <3> SUFFICES ASSUME NEW j \in 1 .. k
                   PROVE  Item(t, cl.file, 2 + th.off + j) = Byte(t, th.off + j)
        OBVIOUS
      <3>1. 2 + th.off + j # 1 /\ 2 + th.off + j # 2 /\ 2 + th.off + j - 2 = th.off + j
        BY <1>3
      <3>2. \A i : i # 1 /\ i # 2 => Item(t, cl.file, i) = Byte(t, i - 2)
        BY DEF Item
      <3> DEFINE i == 2 + th.off + j
                 b == th.off + j
      <3>3. i # 1 /\ i # 2 /\ i - 2 = b
        BY <1>3
      <3> HIDE DEF i, b
      <3>4. Item(t, cl.file, i) = Byte(t, b)
        BY <3>2, <3>3
      <3> QED
        BY <3>4 DEF i, b
    <2>4. \A j \in 1 .. k : Byte(t, th.off + j) \in Stored
      <3> SUFFICES ASSUME NEW j \in 1 .. k PROVE Byte(t, th.off + j) \in Stored
        OBVIOUS
      <3>1. th.off + j \in Nat
        BY <1>3
      <3> QED
        BY <3>1 DEF Byte, Stored
    <2>5. \A j \in 1 .. k : s[j] \in Stored
      BY <2>1, <2>2, <2>3, <2>4
    <2>6. data \in Seq(Stored) /\ Len(data) = k
      <3> HIDE DEF data
      <3> QED
        BY <1>7, <2>1, <2>5
    <2> QED
      BY <2>2, <2>3, <2>6
  <1>9. /\ base \in HandlerStates /\ base.socket = th.socket /\ base.size = th.size
        /\ base.name = th.name /\ base.off = th.off + k /\ base.ret = "none"
    <2>1. th.off + k \in Nat
      BY <1>3, <1>7
    <2> QED
      BY <1>2, <1>3, <2>1 DEF HandlerStates
  <1>10. /\ new \in HandlerStates /\ new.conn = None /\ new.socket = th.socket
         /\ new.size = th.size /\ new.name = th.name /\ new.off = th.off + k
         /\ \/ new.pc = "data" /\ new.ret = "none"
            \/ new.pc = "close" /\ new.ret = "received" /\ new.off % WRAP >= new.size
    <2> HIDE DEF base
    <2> QED
      BY <1>9, LoopFacts
  <1>11. Channel(t, cl, new, rest)
    <2>1. new.pc = "data" => Taken(new) = 2 + th.off + k
      <3>1. new.pc = "data" => Taken(new) = 2 + new.off
        BY DEF Taken
      <3>2. 2 + (th.off + k) = 2 + th.off + k
        BY <1>3, <1>7
      <3> QED
        BY <1>10, <3>1, <3>2
    <2>2. new.off <= cl.sent
      BY <1>3, <1>7, <1>10
    <2> HIDE DEF th, cl, s, n, new, base, data
    <2>3. Flows(t, cl, new, rest)
      BY <1>10, <2>1 DEF Flows
    <2> HIDE DEF rest
    <2>4. Sent(cl, new)
      BY <1>3, <1>10, <2>2 DEF Sent
    <2> QED
      BY <1>10, <2>3, <2>4 DEF Channel
  <1>12. th.name \in Transfer!Names
    BY <1>2, <1>3 DEF ClientStates, Transfer!Names
  <1>13. /\ t_thread' = [t_thread EXCEPT ![t] = new] /\ t_stream' = [t_stream EXCEPT ![t] = rest]
         /\ t_disk' = [t_disk EXCEPT ![th.name] =
                          Transfer!WriteAt(t_disk[th.name], th.off, data)]
         /\ UNCHANGED t_descriptor
    BY <1>5, <1>6, <1>7, <1>12 DEF Transfer!RecvData
  <1>14. Transfer!WriteAt(t_disk[th.name], th.off, data) \in Seq(Stored)
    <2>1. t_disk[th.name] \in Seq(Stored)
      BY <1>12 DEF Transferred, TransferTypes
    <2> HIDE DEF data, th
    <2> QED
      BY <1>3, <1>7, <1>8, <2>1, WriteAtFacts DEF Overwrites
  <1> HIDE DEF new, rest, data
  <1>15. /\ t_thread'[t] = new /\ \A u \in Clients \ {t} : t_thread'[u] = t_thread[u]
         /\ t_disk'[th.name] = Transfer!WriteAt(t_disk[th.name], th.off, data)
         /\ \A m \in Transfer!Names \ {th.name} : t_disk'[m] = t_disk[m]
    BY <1>12, <1>13 DEF Transferred, TransferTypes
  <1>16. t_disk' \in [Transfer!Names -> Seq(Stored)]
    BY <1>13, <1>14 DEF Transferred, TransferTypes
  <1>17. ASSUME NEW m \in Transfer!Names PROVE Written(m)'
    <2>1. \A u \in Clients : t_thread'[u].name = t_thread[u].name
      BY <1>10, <1>15
    <2>2. CASE m = th.name
      <3>1. /\ t_thread'[t].off = t_thread[t].off + k
            /\ \A u \in Clients \ {t} : t_thread'[u].off = t_thread[u].off
        BY <1>10, <1>15
      <3>2. t_disk'[m] = Transfer!WriteAt(t_disk[m], t_thread[t].off, data)
        BY <1>15, <2>2
      <3>3. t_thread[t].name = m /\ \A j \in 1 .. k : data[j] = Byte(t, t_thread[t].off + j)
        BY <1>8, <2>2
      <3> QED
        BY <1>7, <1>8, <2>1, <3>1, <3>2, <3>3, WritesOn
    <2>3. CASE m # th.name
      <3>1. Written(m) /\ t_disk'[m] = t_disk[m]
        BY <1>15, <2>3 DEF Transferred
      <3>2. \A u \in Clients : t_thread[u].name = m => t_thread'[u].off = t_thread[u].off
        BY <1>15, <2>3
      <3> QED
        BY <2>1, <3>1, <3>2, WrittenStays
    <2> QED
      BY <2>2, <2>3
  <1>18. {th.pc, new.pc} \subseteq Transfer!Receiving \cup {"close"}
    BY <1>1, <1>10 DEF Transfer!Receiving
  <1> QED
    BY <1>10, <1>11, <1>13, <1>16, <1>17, <1>18, HandlerChange

LEMMA TransferNext == TransferInv /\ [Transfer!Next]_fileVars => TransferInv'
  <1> SUFFICES ASSUME TransferInv, [Transfer!Next]_fileVars PROVE TransferInv'
    OBVIOUS
  <1>1. CASE UNCHANGED fileVars \/ Transfer!Exit
    <2>1. UNCHANGED <<t_client, t_stream, t_accepted, t_descriptor, t_new_data, t_thread,
                      t_disk, t_overwritten>>
      BY <1>1 DEF fileVars, transferServer, Transfer!Exit, Transfer!mainVars
    <2>2. \A n : Transfer!WritersOf(n)' = Transfer!WritersOf(n)
      BY <2>1 DEF Transfer!WritersOf
    <2>3. \A n : Written(n) => Written(n)'
      BY <2>1, <2>2 DEF Written
    <2> QED
      BY <2>1, <2>3 DEF TransferInv, Transferred, TransferTypes, Connected
  <1>2. CASE Transfer!Accept
    <2>1. t_overwritten' = (t_overwritten \/ \E t \in Transfer!Clients : t_thread[t].pc = "copy")
      BY <1>2 DEF Transfer!Accept
    <2>2. t_overwritten' \in BOOLEAN /\ (~t_overwritten' => ~t_overwritten)
      BY <2>1
    <2> QED
      BY <1>2, <2>2, TransferAcceptInv DEF TransferInv
  <1>3. ASSUME NEW c \in Clients, Transfer!ClientStep(c) PROVE TransferInv'
    <2>1. t_overwritten' = t_overwritten
      BY <1>3 DEF Transfer!ClientStep, Transfer!serverVars, Transfer!mainVars
    <2> QED
      BY <1>3, <2>1, TransferClientInv DEF TransferInv
  <1>4. ASSUME NEW t \in Clients, Transfer!ThreadStep(t) PROVE TransferInv'
    <2>1. /\ UNCHANGED <<t_client, t_accepted, t_new_data>> /\ t_overwritten' = t_overwritten
          /\ \/ Transfer!Copy(t) \/ Transfer!Call(t) \/ Transfer!RecvHeader(t)
             \/ Transfer!RecvName(t) \/ Transfer!RecvData(t) \/ Transfer!Garble(t)
             \/ Transfer!Close(t)
      BY <1>4 DEF Transfer!ThreadStep, Transfer!mainVars
    <2> QED
      BY <2>1, TransferCopyInv, TransferCallInv, TransferHeaderInv, TransferNameInv,
         TransferDataInv, TransferGarbleInv, TransferCloseInv DEF TransferInv
  <1> QED
    BY <1>1, <1>2, <1>3, <1>4, SameClients DEF Transfer!Next

LEMMA SmallSize == ASSUME NEW n \in Nat, n < WRAP PROVE n % WRAP = n
  BY TransferAssumption

LEMMA AllReceived == TransferInv => FilesArrive
  <1> SUFFICES ASSUME Transferred, NEW n \in Transfer!Names,
                      NEW s \in {t_client[t].file.size : t \in Transfer!WritersOf(n)},
                      {t_client[t].file.size : t \in Transfer!WritersOf(n)} = {s}, s < WRAP,
                      \A t \in Transfer!WritersOf(n) : Transfer!Received(t)
               PROVE  /\ Len(t_disk[n]) = s
                      /\ \A j \in 1 .. s : t_disk[n][j] \in
                           {<<"byte", <<t, j>>>> : t \in Transfer!WritersOf(n)}
    BY DEF TransferInv, FilesArrive, Transfer!FilesArrive
  <1> DEFINE W == Transfer!WritersOf(n)
             f == t_disk[n]
  <1>1. W # {} /\ W \subseteq Clients /\ \A t \in W : t_client[t].file.size = s
    BY SameClients DEF Transfer!WritersOf
  <1>2. ASSUME NEW t \in W PROVE t_thread[t].off = s /\ s \in Nat
    <2> DEFINE cl == t_client[t]
               th == t_thread[t]
    <2>1. th.ret = "received" /\ cl.file.size = s /\ t \in Clients
      BY <1>1 DEF Transfer!Received
    <2>2. th \in HandlerStates /\ cl \in ClientStates
      BY <2>1 DEF Transferred, TransferTypes
    <2>3. Sent(cl, th)
      BY <2>1 DEF Transferred, Channel, Unsent
    <2>4. /\ th.off % WRAP >= s % WRAP /\ s \in Nat /\ th.off \in Nat /\ th.off <= s
      BY <2>1, <2>2, <2>3 DEF Sent, ClientStates, HandlerStates
    <2>5. th.off < WRAP
      BY <2>4, TransferAssumption
    <2> QED
      BY <2>4, <2>5, SmallSize
  <1>3. /\ \A j \in 1 .. Len(f) : f[j] \in {Byte(t, j) : t \in W} \cup {Transfer!Hole}
        /\ \E t \in W : \A j \in 1 .. t_thread[t].off : j <= Len(f) /\ f[j] # Transfer!Hole
        /\ \E t \in W : Len(f) <= t_thread[t].off
    BY <1>1 DEF Transferred, Written
  <1>4. f \in Seq(Stored) /\ Len(f) \in Nat /\ s \in Nat
    BY <1>1, <1>2 DEF Transferred, TransferTypes
  <1> HIDE DEF W, f
  <1>5. (\A j \in 1 .. s : j <= Len(f) /\ f[j] # Transfer!Hole) /\ Len(f) <= s
    BY <1>2, <1>3
  <1>6. Len(f) = s
    <2> SUFFICES ASSUME s > 0 PROVE s <= Len(f)
      BY <1>4, <1>5
    <2> QED
      BY <1>4, <1>5
  <1> QED
    BY <1>3, <1>4, <1>5, <1>6 DEF W, f, Byte

\* The file transfer by itself.
TransferSpec == Transfer!Init /\ [][Transfer!Next]_fileVars

\* As long as main of ex6_server.c has not used new_data too early, what a handler reports
\* as received is the client's file (line 106), however recv cut it up and although other
\* handlers empty and write the file of the same name meanwhile: for every number of
\* clients, every chunk size, and whatever files they ask for.
THEOREM ReceivedFilesAreWhole == TransferSpec => []FilesArrive
  BY TransferInit, TransferNext, AllReceived, PTL DEF TransferSpec

\* The items that are sent.
Sizes == {"header"} \X (0 .. WRAP - 1)
FileNames == {"name"} \X Transfer!Names
FileBytes == {"byte"} \X (Clients \X Nat)
Wire == Sizes \cup FileNames \cup FileBytes

\* Whatever main, its threads and the ends of clients have made of a connection: what is on
\* its way are the last items that a client has sent, first what is no byte.
ClientBound(cl, s) ==
    /\ cl \in ClientStates /\ s \in Seq(Wire) /\ Len(s) <= cl.sent + 2
    /\ \A j, k \in 1 .. Len(s) : j <= k /\ s[j][1] = "byte" => s[k][1] = "byte"
    /\ cl.sent = 0 \/ cl.sent <= cl.file.size
    /\ cl.pc = "header" => cl.sent = 0
    /\ cl.pc = "new" => cl.sent = 0
    /\ cl.pc = "data" => cl.file.size \in Nat /\ cl.sent <= cl.file.size

StreamsBound ==
    /\ t_client = [c \in Clients |-> t_client[c]] /\ t_stream = [c \in Clients |-> t_stream[c]]
    /\ \A c \in Clients : ClientBound(t_client[c], t_stream[c])

\* A thread has a descriptor once it has copied one, and a name once it has emptied a file.
HandlerBound(th) ==
    /\ th \in HandlerStates /\ th.size <= WRAP - 1
    /\ th.pc \in Transfer!Receiving => th.socket \in Clients
    /\ th.pc = "data" => th.name \in Transfer!Names

HandlersBound ==
    /\ t_thread = [t \in Clients |-> t_thread[t]]
    /\ \A t \in Clients : HandlerBound(t_thread[t])
    /\ (\E t \in Clients : t_thread[t].pc = "copy") => t_new_data \in Clients

\* Each open descriptor is another connection.
MainBound ==
    /\ t_up \in BOOLEAN /\ t_overwritten \in BOOLEAN
    /\ t_accepted \in 0 .. N /\ t_new_data \in 0 .. N
    /\ t_descriptor \in [Clients -> 0 .. t_accepted]
    /\ \A d, e \in Clients : t_descriptor[d] = t_descriptor[e] /\ t_descriptor[d] # None => d = e

TransferBounds ==
    MainBound /\ StreamsBound /\ HandlersBound /\ t_disk \in [Transfer!Names -> Seq(Stored)]

LEMMA WireItems ==
    /\ \A x \in Wire : x[1] = "header" => x[2] \in 0 .. WRAP - 1
    /\ \A x \in Wire : x[1] = "name" => x[2] \in Transfer!Names
    /\ \A x \in Wire : x[1] = "byte" => x \in Stored
  BY DEF Wire, Sizes, FileNames, FileBytes, Stored

LEMMA AtLeast ==
    ASSUME NEW a \in Int, NEW b \in Int
    PROVE  Transfer!Max({a, b}) >= a /\ Transfer!Max({a, b}) >= b /\ Transfer!Max({a, b}) \in {a, b}
  <1>1. (IF a >= b THEN a ELSE b) \in {a, b} /\ \A y \in {a, b} : (IF a >= b THEN a ELSE b) >= y
    OBVIOUS
  <1>2. Transfer!Max({a, b}) \in {a, b} /\ \A y \in {a, b} : Transfer!Max({a, b}) >= y
    BY <1>1 DEF Transfer!Max
  <1> QED
    BY <1>2

LEMMA TakenOff ==
    ASSUME NEW s \in Seq(Wire), NEW k \in 0 .. Len(s)
    PROVE  /\ Rest(s, k) \in Seq(Wire) /\ Len(Rest(s, k)) = Len(s) - k
           /\ \A j \in 1 .. Len(s) - k : Rest(s, k)[j] = s[j + k] /\ j + k \in 1 .. Len(s)
  <1> DEFINE n == Len(s)
             m == n - k
  <1>1. n \in Nat /\ m \in Nat /\ k \in Nat /\ n - k = m
    OBVIOUS
  <1>2. \A j \in 1 .. m : j + k \in 1 .. n
    BY <1>1
  <1>3. \A j \in 1 .. m : s[j + k] \in Wire
    BY <1>2
  <1> HIDE DEF n, m
  <1>4. SubSeq(s, k + 1, n) = [j \in 1 .. m |-> s[j + k]]
    BY <1>1
  <1>5. Rest(s, k) = [j \in 1 .. m |-> s[j + k]]
    BY <1>4 DEF Rest, n
  <1>6. Rest(s, k) \in Seq(Wire) /\ Len(Rest(s, k)) = m
    BY <1>1, <1>3, <1>5
  <1> QED
    BY <1>2, <1>5, <1>6 DEF n, m

LEMMA RestBound ==
    ASSUME NEW cl, NEW s, ClientBound(cl, s), NEW k \in 0 .. Len(s)
    PROVE  ClientBound(cl, Rest(s, k))
  <1>1. /\ cl \in ClientStates /\ s \in Seq(Wire) /\ Len(s) <= cl.sent + 2 /\ Len(s) \in Nat
        /\ \A i, j \in 1 .. Len(s) : i <= j /\ s[i][1] = "byte" => s[j][1] = "byte"
    BY DEF ClientBound
  <1>2. /\ Rest(s, k) \in Seq(Wire) /\ Len(Rest(s, k)) = Len(s) - k
        /\ \A j \in 1 .. Len(s) - k : Rest(s, k)[j] = s[j + k] /\ j + k \in 1 .. Len(s)
    BY <1>1, TakenOff
  <1>3. Len(Rest(s, k)) <= cl.sent + 2
    BY <1>1, <1>2 DEF ClientStates
  <1>4. ASSUME NEW i \in 1 .. Len(s) - k, NEW j \in 1 .. Len(s) - k, i <= j,
               Rest(s, k)[i][1] = "byte"
        PROVE  Rest(s, k)[j][1] = "byte"
    <2>1. i + k <= j + k
      BY <1>1, <1>4
    <2> QED
      BY <1>1, <1>2, <1>4, <2>1
  <1> QED
    BY <1>1, <1>2, <1>3, <1>4 DEF ClientBound

LEMMA StreamsChange ==
    ASSUME StreamsBound, NEW c \in Clients, NEW cl, NEW s, ClientBound(cl, s),
           t_client' = [t_client EXCEPT ![c] = cl], t_stream' = [t_stream EXCEPT ![c] = s]
    PROVE  StreamsBound'
  <1>1. /\ t_client'[c] = cl /\ t_stream'[c] = s
        /\ \A b \in Clients \ {c} : t_client'[b] = t_client[b] /\ t_stream'[b] = t_stream[b]
    BY DEF StreamsBound
  <1>2. \A b \in Clients : ClientBound(t_client'[b], t_stream'[b])
    BY <1>1 DEF StreamsBound
  <1>3. t_client' = [b \in Clients |-> t_client'[b]] /\ t_stream' = [b \in Clients |-> t_stream'[b]]
    BY DEF StreamsBound
  <1> QED
    BY <1>2, <1>3 DEF StreamsBound

LEMMA StreamTaken ==
    ASSUME StreamsBound, NEW c \in Clients, NEW k \in 0 .. Len(t_stream[c]), UNCHANGED t_client,
           t_stream' = [t_stream EXCEPT ![c] = Rest(t_stream[c], k)]
    PROVE  StreamsBound'
  <1>1. ClientBound(t_client[c], Rest(t_stream[c], k))
    BY RestBound DEF StreamsBound
  <1>2. t_client' = [t_client EXCEPT ![c] = t_client[c]]
    BY DEF StreamsBound
  <1> QED
    BY <1>1, <1>2, StreamsChange

LEMMA HandlersChange ==
    ASSUME HandlersBound, NEW t \in Clients, NEW th, HandlerBound(th), UNCHANGED t_new_data,
           t_thread' = [t_thread EXCEPT ![t] = th], th.pc # "copy"
    PROVE  HandlersBound'
  <1>1. t_thread'[t] = th /\ \A u \in Clients \ {t} : t_thread'[u] = t_thread[u]
    BY DEF HandlersBound
  <1>2. \A u \in Clients : HandlerBound(t_thread'[u])
    BY <1>1 DEF HandlersBound
  <1>3. \A u \in Clients : t_thread'[u].pc = "copy" => t_thread[u].pc = "copy"
    BY <1>1
  <1>4. t_thread' = [u \in Clients |-> t_thread'[u]]
    BY DEF HandlersBound
  <1> QED
    BY <1>2, <1>3, <1>4 DEF HandlersBound

LEMMA TransferBoundsInit == Transfer!Init => TransferBounds
  <1> SUFFICES ASSUME Transfer!Init PROVE TransferBounds
    OBVIOUS
  <1> DEFINE idle == [pc |-> "new", socket |-> None, conn |-> None, size |-> 0, name |-> "none",
                      off |-> 0, ret |-> "none"]
  <1>0. 0 \in 0 .. N /\ N \in Nat /\ WRAP \in Nat \ {0}
    BY ServerAssumption, TransferAssumption
  <1>1. /\ t_accepted = 0 /\ t_overwritten = FALSE /\ t_disk = [n \in Transfer!Names |-> <<>>]
        /\ t_up = TRUE /\ t_new_data = 0
        /\ t_thread = [t \in Clients |-> idle] /\ t_stream = [c \in Clients |-> <<>>]
        /\ t_descriptor = [d \in Clients |-> None]
        /\ t_client \in [Clients -> [pc : {"new"}, file : Files, sent : {0}]]
    BY SameClients DEF Transfer!Init
  <1>2. MainBound
    <2>1. t_descriptor \in [Clients -> 0 .. t_accepted] /\ \A d \in Clients : t_descriptor[d] = None
      BY <1>0, <1>1 DEF None
    <2>2. t_accepted \in 0 .. N /\ t_new_data \in 0 .. N
      BY <1>0, <1>1
    <2> QED
      BY <1>1, <2>1, <2>2 DEF MainBound
  <1>3. ASSUME NEW c \in Clients PROVE ClientBound(t_client[c], t_stream[c])
    <2>1. t_client[c] \in ClientStates /\ t_client[c].pc = "new" /\ t_client[c].sent = 0
      BY <1>1 DEF ClientStates
    <2>2. t_stream[c] = <<>> /\ Len(<<>>) = 0 /\ 1 .. 0 = {} /\ <<>> \in Seq(Wire)
      BY <1>1
    <2> QED
      BY <2>1, <2>2 DEF ClientBound
  <1>4. StreamsBound
    BY <1>1, <1>3 DEF StreamsBound
  <1>5. HandlerBound(idle)
    BY <1>0 DEF HandlerBound, HandlerStates, None, Transfer!Receiving
  <1>6. HandlersBound
    <2>1. idle.pc # "copy"
      OBVIOUS
    <2> HIDE DEF idle
    <2> QED
      BY <1>1, <1>5, <2>1 DEF HandlersBound
  <1> QED
    BY <1>1, <1>2, <1>4, <1>6 DEF TransferBounds

LEMMA TransferClientBounds ==
    ASSUME TransferBounds, NEW c \in Clients, Transfer!ClientStep(c) PROVE TransferBounds'
  <1> DEFINE cl == t_client[c]
             s == t_stream[c]
             Went(pc) == [cl EXCEPT !.pc = pc]
  <1>1. /\ StreamsBound /\ ClientBound(cl, s) /\ cl \in ClientStates /\ s \in Seq(Wire)
        /\ t_stream' = t_stream => t_stream' = [t_stream EXCEPT ![c] = s]
    BY DEF TransferBounds, StreamsBound, ClientBound
  <1>2. MainBound' /\ HandlersBound' /\ t_disk' \in [Transfer!Names -> Seq(Stored)]
    BY DEF TransferBounds, MainBound, HandlersBound, Transfer!ClientStep, Transfer!serverVars,
           Transfer!mainVars
  <1>3. ASSUME NEW pc \in {"header", "done", "gone"},
               t_client' = [t_client EXCEPT ![c].pc = pc], UNCHANGED t_stream,
               pc = "header" => cl.pc = "new"
        PROVE  TransferBounds'
    <2>1. /\ Went(pc) \in ClientStates /\ Went(pc).pc = pc
          /\ Went(pc).file = cl.file /\ Went(pc).sent = cl.sent
      BY <1>1 DEF ClientStates
    <2>2. t_client' = [t_client EXCEPT ![c] = Went(pc)]
      BY <1>3
    <2> HIDE DEF cl, s, Went
    <2>3. ClientBound(Went(pc), s)
      BY <1>1, <1>3, <2>1 DEF ClientBound
    <2>4. StreamsBound'
      BY <1>1, <1>3, <2>2, <2>3, StreamsChange
    <2> QED
      BY <1>2, <2>4 DEF TransferBounds
  <1>4. CASE Transfer!Connect(c)
    BY <1>3, <1>4 DEF Transfer!Connect, Transfer!Is, Transfer!Go
  <1>5. CASE Transfer!SendFails(c) \/ Transfer!Kill(c)
    BY <1>3, <1>5 DEF Transfer!SendFails, Transfer!Kill, Transfer!Go
  <1>6. CASE Transfer!SendHeader(c)
    <2>1. CASE cl.file.size = Transfer!NoFile
      BY <1>3, <1>6, <2>1 DEF Transfer!SendHeader, Transfer!Is, Transfer!Go
    <2>2. CASE cl.file.size # Transfer!NoFile
      <3> DEFINE head == <<"header", cl.file.size % WRAP>>
                 name == <<"name", cl.file.name>>
      <3>1. cl.pc = "header" /\ t_client' = [t_client EXCEPT ![c].pc = "data"]
        BY <1>6, <2>2 DEF Transfer!SendHeader, Transfer!Is, Transfer!Go
      <3>2. /\ Went("data") \in ClientStates /\ Went("data").pc = "data"
            /\ Went("data").file = cl.file /\ Went("data").sent = cl.sent
        BY <1>1 DEF ClientStates
      <3>3. t_client' = [t_client EXCEPT ![c] = Went("data")]
        BY <3>1
      <3>4. t_stream' = [t_stream EXCEPT ![c] = <<head, name>>]
        BY <1>6, <2>2 DEF Transfer!SendHeader
      <3>5. cl.file.size \in Nat /\ cl.file.name \in Transfer!Names /\ WRAP \in Nat \ {0}
        BY <1>1, <2>2, TransferAssumption DEF ClientStates, Transfer!NoFile, Transfer!Names
      <3>6. cl.file.size % WRAP \in 0 .. WRAP - 1
        BY <3>5
      <3>7. head \in Wire /\ name \in Wire /\ head[1] # "byte" /\ name[1] # "byte"
        BY <3>5, <3>6 DEF Wire, Sizes, FileNames
      <3>8. cl.sent = 0
        BY <1>1, <3>1 DEF ClientBound
      <3> HIDE DEF cl, s, Went, head, name
      <3>9. /\ <<head, name>> \in Seq(Wire) /\ Len(<<head, name>>) = 2
            /\ \A j \in 1 .. 2 : <<head, name>>[j] \in {head, name}
        BY <3>7
      <3>10. ClientBound(Went("data"), <<head, name>>)
        BY <3>2, <3>5, <3>7, <3>8, <3>9 DEF ClientBound
      <3>11. StreamsBound'
        BY <1>1, <3>3, <3>4, <3>10, StreamsChange
      <3> QED
        BY <1>2, <3>11 DEF TransferBounds
    <2> QED
      BY <2>1, <2>2
  <1>7. CASE Transfer!SendData(c)
    <2> DEFINE size == cl.file.size
               to == Transfer!Min({size, cl.sent + CHUNK})
    <2>1. cl.pc = "data"
      BY <1>7 DEF Transfer!SendData, Transfer!Is
    <2>2. size \in Nat /\ cl.sent \in Nat /\ cl.sent <= size
      BY <1>1, <2>1 DEF ClientBound, ClientStates
    <2>3. CHUNK \in Nat /\ cl.sent + CHUNK \in Nat
      BY <2>2, TransferAssumption
    <2>4. to = IF size <= cl.sent + CHUNK THEN size ELSE cl.sent + CHUNK
      BY <2>2, <2>3, TwoNumbers
    <2>5. to \in Nat /\ cl.sent <= to /\ to <= size
      BY <2>2, <2>3, <2>4
    <2>6. CASE to = cl.sent
      BY <1>3, <1>7, <2>1, <2>6 DEF Transfer!SendData, Transfer!Go
    <2>7. CASE to # cl.sent
      <3> DEFINE new == [cl EXCEPT !.sent = to]
                 bytes == Transfer!Bytes(c, cl.sent, to)
                 n == to - cl.sent
      <3>1. t_client' = [t_client EXCEPT ![c] = new] /\ t_stream' = [t_stream EXCEPT ![c] = s \o bytes]
        BY <1>7, <2>7 DEF Transfer!SendData
      <3>2. new \in ClientStates /\ new.pc = "data" /\ new.file = cl.file /\ new.sent = to
        BY <1>1, <2>1, <2>5 DEF ClientStates
      <3>3. n \in Nat /\ \A j \in 1 .. n : <<"byte", <<c, cl.sent + j>>>> \in Wire
        BY <2>2, <2>5 DEF Wire, FileBytes
      <3>4. bytes \in Seq(Wire) /\ Len(bytes) = n /\ \A j \in 1 .. n : bytes[j][1] = "byte"
        <4>1. bytes = [j \in 1 .. n |-> <<"byte", <<c, cl.sent + j>>>>]
          BY DEF Transfer!Bytes
        <4> HIDE DEF bytes, n
        <4> QED
          BY <3>3, <4>1
      <3>5. /\ Len(s) \in Nat /\ Len(s) <= cl.sent + 2
            /\ \A i, j \in 1 .. Len(s) : i <= j /\ s[i][1] = "byte" => s[j][1] = "byte"
        BY <1>1 DEF ClientBound
      <3>6. Len(s) + n <= to + 2
        BY <2>2, <2>5, <3>3, <3>5
      <3> HIDE DEF cl, s, to, new, bytes, n
      <3>7. /\ s \o bytes \in Seq(Wire) /\ Len(s \o bytes) = Len(s) + n
            /\ \A j \in 1 .. Len(s) + n :
                 (s \o bytes)[j] = IF j <= Len(s) THEN s[j] ELSE bytes[j - Len(s)]
        <4>1. s \in Seq(Wire) /\ bytes \in Seq(Wire) /\ Len(bytes) = n
          BY <1>1, <3>4
        <4> QED
          BY <4>1, ConcatProperties
      <3>8. ASSUME NEW i \in 1 .. Len(s) + n, NEW j \in 1 .. Len(s) + n, i <= j,
                   (s \o bytes)[i][1] = "byte"
            PROVE  (s \o bytes)[j][1] = "byte"
        <4>1. CASE j <= Len(s)
          <5>1. i \in 1 .. Len(s) /\ j \in 1 .. Len(s)
            BY <3>3, <3>5, <3>8, <4>1
          <5>2. (s \o bytes)[i] = s[i] /\ (s \o bytes)[j] = s[j]
            BY <3>7, <4>1, <5>1
          <5> QED
            BY <3>5, <3>8, <5>1, <5>2
        <4>2. CASE ~(j <= Len(s))
          <5>1. j - Len(s) \in 1 .. n
            BY <3>3, <3>5, <4>2
          <5>2. (s \o bytes)[j] = bytes[j - Len(s)]
            BY <3>7, <4>2
          <5> QED
            BY <3>4, <5>1, <5>2
        <4> QED
          BY <4>1, <4>2
      <3>9. ClientBound(new, s \o bytes)
        <4>1. new.file.size \in Nat /\ new.sent <= new.file.size /\ new.pc # "header" /\ new.pc # "new"
          BY <2>2, <2>5, <3>2
        <4>2. Len(s \o bytes) <= new.sent + 2
          BY <3>2, <3>6, <3>7
        <4> QED
          BY <3>2, <3>7, <3>8, <4>1, <4>2 DEF ClientBound
      <3>10. StreamsBound'
        BY <1>1, <3>1, <3>9, StreamsChange
      <3> QED
        BY <1>2, <3>10 DEF TransferBounds
    <2> QED
      BY <2>6, <2>7
  <1> QED
    BY <1>4, <1>5, <1>6, <1>7 DEF Transfer!ClientStep, Transfer!ClientRuns

LEMMA TransferAcceptBounds == ASSUME TransferBounds, Transfer!Accept PROVE TransferBounds'
  <1> DEFINE a == t_accepted + 1
             free == Transfer!Min({d \in Transfer!Clients : t_descriptor[d] = Transfer!None})
             new == [t_thread[a] EXCEPT !.pc = "copy"]
  <1>1. MainBound /\ StreamsBound /\ HandlersBound
    BY DEF TransferBounds
  <1>2. /\ t_accepted < N /\ t_accepted' = a /\ t_new_data' = free
        /\ t_descriptor' = [t_descriptor EXCEPT ![free] = a]
        /\ t_thread' = [t_thread EXCEPT ![a] = new]
        /\ UNCHANGED <<t_client, t_stream, t_disk>>
    BY DEF Transfer!Accept
  <1>3. t_accepted \in Nat /\ N \in Nat /\ a \in Clients /\ a \in 0 .. N
    BY <1>1, <1>2, ServerAssumption DEF MainBound, Clients
  <1>4. free \in Clients /\ t_descriptor[free] = None
    <2>1. t_accepted \in Nat /\ t_accepted < N /\ t_descriptor \in [1 .. N -> 0 .. t_accepted]
      BY <1>1, <1>2, <1>3 DEF MainBound, Clients
    <2>2. {d \in Clients : t_descriptor[d] = None} # {}
      <3>1. \A d, e \in 1 .. N : t_descriptor[d] = t_descriptor[e] /\ t_descriptor[d] # 0 => d = e
        BY <1>1 DEF MainBound, Clients, None
      <3>2. {d \in 1 .. N : t_descriptor[d] = 0} # {}
        BY <2>1, <3>1, SomeFree
      <3> QED
        BY <3>2 DEF Clients, None
    <2>3. {d \in Clients : t_descriptor[d] = None} \in SUBSET Nat
      BY DEF Clients
    <2>4. Min({d \in Clients : t_descriptor[d] = None}) \in
             {d \in Clients : t_descriptor[d] = None}
      BY <2>2, <2>3, LeastIsIn
    <2> QED
      BY <2>4, SameClients DEF Min, Transfer!Min
  <1>5. t_up' \in BOOLEAN /\ t_overwritten' \in BOOLEAN
    BY <1>1 DEF MainBound, Transfer!Accept
  <1> HIDE DEF free
  <1>6. /\ t_descriptor'[free] = a
        /\ \A d \in Clients \ {free} : t_descriptor'[d] = t_descriptor[d]
        /\ \A d \in Clients : t_descriptor[d] \in 0 .. t_accepted
        /\ t_descriptor' \in [Clients -> 0 .. a]
    <2>1. 0 .. t_accepted \subseteq 0 .. a /\ a \in 0 .. a
      BY <1>3
    <2>2. t_descriptor \in [Clients -> 0 .. a] /\ t_descriptor \in [Clients -> 0 .. t_accepted]
      BY <1>1, <2>1 DEF MainBound
    <2> QED
      BY <1>2, <1>4, <2>1, <2>2
  <1>7. \A d \in Clients \ {free} : t_descriptor'[d] # a
    BY <1>3, <1>6
  <1>8. \A d, e \in Clients : t_descriptor'[d] = t_descriptor'[e] /\ t_descriptor'[d] # None => d = e
    BY <1>1, <1>6, <1>7 DEF MainBound
  <1>9. MainBound'
    <2>1. t_new_data' \in 0 .. N
      BY <1>2, <1>3, <1>4 DEF Clients
    <2> QED
      BY <1>2, <1>3, <1>5, <1>6, <1>8, <2>1 DEF MainBound
  <1>10. StreamsBound'
    BY <1>1, <1>2 DEF StreamsBound
  <1>11. new \in HandlerStates /\ new.pc = "copy" /\ new.size = t_thread[a].size
    BY <1>1, <1>3 DEF HandlersBound, HandlerBound, HandlerStates
  <1>12. HandlerBound(new)
    <2>1. new.size <= WRAP - 1
      BY <1>1, <1>3, <1>11 DEF HandlersBound, HandlerBound
    <2> HIDE DEF new
    <2> QED
      BY <1>11, <2>1 DEF HandlerBound, Transfer!Receiving
  <1> HIDE DEF new
  <1>13. HandlersBound'
    <2>1. t_thread'[a] = new /\ \A t \in Clients \ {a} : t_thread'[t] = t_thread[t]
      BY <1>1, <1>2, <1>3 DEF HandlersBound
    <2>2. \A t \in Clients : HandlerBound(t_thread'[t])
      BY <1>1, <1>12, <2>1 DEF HandlersBound
    <2>3. t_thread' = [t \in Clients |-> t_thread'[t]]
      BY <1>1, <1>2 DEF HandlersBound
    <2> QED
      BY <1>2, <1>4, <2>2, <2>3 DEF HandlersBound
  <1> QED
    BY <1>2, <1>9, <1>10, <1>13 DEF TransferBounds

\* What a handler does to its state in any of the steps of receiveFile.
LEMMA HandlerMoves ==
    ASSUME NEW th, HandlerBound(th)
    PROVE  /\ \A ret \in {"received", "failed"} :
                HandlerBound(Transfer!Return(th, ret)) /\ Transfer!Return(th, ret).pc # "copy"
           /\ th.name \in Transfer!Names /\ th.socket \in Clients =>
                HandlerBound(Transfer!Loop(th)) /\ Transfer!Loop(th).pc # "copy"
           /\ \A k \in Nat : LET n == [th EXCEPT !.off = @ + k]
                             IN  HandlerBound(n) /\ n.name = th.name /\ n.socket = th.socket
  <1>0. None \in 0 .. N /\ th \in HandlerStates /\ th.size <= WRAP - 1
    BY ServerAssumption DEF None, HandlerBound
  <1>1. ASSUME NEW ret \in {"received", "failed"}
        PROVE  HandlerBound(Transfer!Return(th, ret)) /\ Transfer!Return(th, ret).pc # "copy"
    <2> DEFINE n == [th EXCEPT !.pc = "close", !.conn = None, !.ret = ret]
    <2>1. n = Transfer!Return(th, ret)
      BY SameClients DEF Transfer!Return
    <2>2. n \in HandlerStates /\ n.pc = "close" /\ n.size = th.size
      BY <1>0 DEF HandlerStates
    <2> HIDE DEF n
    <2>3. HandlerBound(n) /\ n.pc # "copy"
      BY <1>0, <2>2 DEF HandlerBound, Transfer!Receiving
    <2> QED
      BY <2>1, <2>3
  <1>2. ASSUME th.name \in Transfer!Names, th.socket \in Clients
        PROVE  HandlerBound(Transfer!Loop(th)) /\ Transfer!Loop(th).pc # "copy"
    <2> DEFINE n == [th EXCEPT !.pc = "data", !.conn = None]
    <2>1. Transfer!Loop(th) = n \/ Transfer!Loop(th) = Transfer!Return(th, "received")
      BY SameClients DEF Transfer!Loop
    <2>2. /\ n \in HandlerStates /\ n.pc = "data" /\ n.size = th.size /\ n.name = th.name
          /\ n.socket = th.socket
      BY <1>0 DEF HandlerStates
    <2> HIDE DEF n
    <2>3. HandlerBound(n) /\ n.pc # "copy"
      BY <1>0, <1>2, <2>2 DEF HandlerBound
    <2> QED
      BY <1>1, <2>1, <2>3
  <1>3. ASSUME NEW k \in Nat
        PROVE  LET n == [th EXCEPT !.off = @ + k]
               IN  HandlerBound(n) /\ n.name = th.name /\ n.socket = th.socket
    <2> DEFINE n == [th EXCEPT !.off = th.off + k]
    <2>1. th.off + k \in Nat
      BY <1>0 DEF HandlerStates
    <2>2. /\ n \in HandlerStates /\ n.pc = th.pc /\ n.size = th.size /\ n.name = th.name
          /\ n.socket = th.socket
      BY <1>0, <2>1 DEF HandlerStates
    <2> HIDE DEF n
    <2>3. HandlerBound(n)
      BY <1>0, <2>2 DEF HandlerBound
    <2> QED
      BY <2>2, <2>3 DEF n
  <1> QED
    BY <1>1, <1>2, <1>3

\* What a handler takes from a connection that it reads.
LEMMA FirstItem ==
    ASSUME TransferBounds, NEW t \in Clients, NEW pc, NEW kind, Transfer!Gets(t, pc, kind)
    PROVE  /\ t_thread[t].conn \in Clients /\ t_thread[t].pc = pc
           /\ t_stream[t_thread[t].conn] \in Seq(Wire) /\ 1 \in 0 .. Len(t_stream[t_thread[t].conn])
           /\ Head(t_stream[t_thread[t].conn]) = t_stream[t_thread[t].conn][1]
           /\ t_stream[t_thread[t].conn][1] \in Wire /\ t_stream[t_thread[t].conn][1][1] = kind
  <1> DEFINE th == t_thread[t]
             s == t_stream[th.conn]
  <1>1. th.conn # None /\ s # <<>> /\ Head(s)[1] = kind /\ th.pc = pc
    BY SameClients DEF Transfer!Gets, Transfer!At
  <1>2. th.conn \in 0 .. N /\ N \in Nat
    BY ServerAssumption DEF TransferBounds, HandlersBound, HandlerBound, HandlerStates
  <1>3. th.conn \in Clients
    BY <1>1, <1>2 DEF Clients, None
  <1>4. s \in Seq(Wire)
    BY <1>3 DEF TransferBounds, StreamsBound, ClientBound
  <1> HIDE DEF s, th
  <1>5. Len(s) \in Nat /\ Len(s) # 0 /\ Head(s) = s[1]
    BY <1>1, <1>4
  <1>6. s[1] \in Wire
    BY <1>4, <1>5
  <1> QED
    BY <1>1, <1>3, <1>4, <1>5, <1>6 DEF s, th

LEMMA TransferThreadBounds ==
    ASSUME TransferBounds, NEW t \in Clients, Transfer!ThreadStep(t) PROVE TransferBounds'
  <1> DEFINE th == t_thread[t]
             s == t_stream[th.conn]
  <1>1. /\ MainBound /\ StreamsBound /\ HandlersBound /\ t_disk \in [Transfer!Names -> Seq(Stored)]
        /\ HandlerBound(th) /\ th \in HandlerStates
        /\ UNCHANGED <<t_client, t_accepted, t_new_data, t_overwritten>>
    BY DEF TransferBounds, HandlersBound, HandlerBound, Transfer!ThreadStep, Transfer!mainVars
  <1>2. ASSUME t_up' \in BOOLEAN, UNCHANGED t_descriptor PROVE MainBound'
    BY <1>1, <1>2 DEF MainBound
  <1>3. ASSUME NEW new, HandlerBound(new), new.pc # "copy", Transfer!Set(t, new) PROVE HandlersBound'
    BY <1>1, <1>3, HandlersChange DEF Transfer!Set
  <1>4. ASSUME UNCHANGED t_stream PROVE StreamsBound'
    BY <1>1, <1>4 DEF StreamsBound
  <1>5. ASSUME th.conn \in Clients, NEW k \in 0 .. Len(s), Transfer!Consume(t, k) PROVE StreamsBound'
    BY <1>1, <1>5, StreamTaken DEF Transfer!Consume, Rest
  <1>6. CASE Transfer!Copy(t)
    <2> DEFINE new == [th EXCEPT !.pc = "header", !.socket = t_new_data]
    <2>1. th.pc = "copy" /\ Transfer!Set(t, new) /\ UNCHANGED <<t_stream, t_up, t_descriptor, t_disk>>
      BY <1>6 DEF Transfer!Copy, Transfer!At
    <2>2. t_new_data \in Clients /\ t_new_data \in 0 .. N
      BY <1>1, <2>1 DEF HandlersBound, MainBound
    <2>3. new \in HandlerStates /\ new.pc = "header" /\ new.socket = t_new_data /\ new.size = th.size
      <3> HIDE DEF th
      <3> QED
        BY <1>1, <2>2 DEF HandlerStates
    <2> HIDE DEF th, new
    <2>4. HandlerBound(new) /\ new.pc # "copy"
      BY <1>1, <2>2, <2>3 DEF HandlerBound
    <2>5. HandlersBound' /\ StreamsBound'
      BY <1>3, <1>4, <2>1, <2>4
    <2>6. MainBound'
      BY <1>1, <1>2, <2>1 DEF MainBound
    <2> QED
      BY <1>1, <2>1, <2>5, <2>6 DEF TransferBounds
  <1>7. CASE Transfer!Call(t)
    <2> DEFINE whose == t_descriptor[th.socket]
               new == IF whose = None THEN Transfer!Return(th, "failed") ELSE [th EXCEPT !.conn = whose]
    <2>1. /\ th.pc \in Transfer!Receiving /\ Transfer!Set(t, new)
          /\ UNCHANGED <<t_stream, t_up, t_descriptor, t_disk>>
      BY <1>7, SameClients DEF Transfer!Call
    <2>2. whose \in 0 .. N
      <3>1. th.socket \in Clients /\ N \in Nat /\ t_accepted \in 0 .. N
        BY <1>1, <2>1, ServerAssumption DEF HandlerBound, MainBound
      <3>2. whose \in 0 .. t_accepted
        BY <1>1, <3>1 DEF MainBound
      <3> QED
        BY <3>1, <3>2
    <2>3. HandlerBound(new) /\ new.pc # "copy"
      <3>1. CASE whose = None
        BY <1>1, <3>1, HandlerMoves
      <3>2. CASE whose # None
        <4> DEFINE open == [th EXCEPT !.conn = whose]
        <4>1. /\ open \in HandlerStates /\ open.pc = th.pc /\ open.size = th.size
              /\ open.name = th.name /\ open.socket = th.socket
          <5> HIDE DEF th, whose
          <5> QED
            BY <1>1, <2>2 DEF HandlerStates
        <4>2. new = open
          BY <3>2
        <4> HIDE DEF th, open, new, whose
        <4> QED
          BY <1>1, <2>1, <4>1, <4>2 DEF HandlerBound, Transfer!Receiving
      <3> QED
        BY <3>1, <3>2
    <2> HIDE DEF new
    <2>4. HandlersBound' /\ StreamsBound'
      BY <1>3, <1>4, <2>1, <2>3
    <2>5. MainBound'
      BY <1>1, <1>2, <2>1 DEF MainBound
    <2> QED
      BY <1>1, <2>1, <2>4, <2>5 DEF TransferBounds
  <1>8. CASE Transfer!RecvHeader(t)
    <2> DEFINE new == [th EXCEPT !.pc = "name", !.conn = None, !.size = Transfer!Value(t)]
    <2>1. /\ Transfer!Gets(t, "header", "header") /\ Transfer!Set(t, new) /\ Transfer!Consume(t, 1)
          /\ UNCHANGED <<t_up, t_descriptor, t_disk>>
      BY <1>8, SameClients DEF Transfer!RecvHeader
    <2>2. /\ th.conn \in Clients /\ th.pc = "header" /\ 1 \in 0 .. Len(s)
          /\ Head(s) = s[1] /\ s[1] \in Wire /\ s[1][1] = "header"
      BY <2>1, FirstItem
    <2>3. Transfer!Value(t) \in 0 .. WRAP - 1 /\ WRAP \in Nat \ {0}
      BY <2>2, WireItems, TransferAssumption DEF Transfer!Value
    <2>4. Transfer!Value(t) \in Nat /\ Transfer!Value(t) <= WRAP - 1 /\ None \in 0 .. N
      BY <2>3, ServerAssumption DEF None
    <2>5. th.socket \in Clients
      BY <1>1, <2>2 DEF HandlerBound, Transfer!Receiving
    <2>6. /\ new \in HandlerStates /\ new.pc = "name" /\ new.size = Transfer!Value(t)
          /\ new.socket = th.socket
      <3> HIDE DEF th
      <3> QED
        BY <1>1, <2>4 DEF HandlerStates
    <2>7. HandlerBound(new) /\ new.pc # "copy"
      <3> HIDE DEF th, new
      <3> QED
        BY <2>4, <2>5, <2>6 DEF HandlerBound
    <2> HIDE DEF new
    <2>8. HandlersBound' /\ StreamsBound'
      BY <1>3, <1>5, <2>1, <2>2, <2>7
    <2>9. MainBound'
      BY <1>1, <1>2, <2>1 DEF MainBound
    <2> QED
      BY <1>1, <2>1, <2>8, <2>9 DEF TransferBounds
  <1>9. CASE Transfer!RecvName(t)
    <2>1. /\ Transfer!Gets(t, "name", "name") /\ Transfer!Consume(t, 1)
          /\ UNCHANGED <<t_up, t_descriptor>>
          /\ \/ Transfer!Set(t, Transfer!Return(th, "failed")) /\ UNCHANGED t_disk
             \/ /\ Transfer!Set(t, Transfer!Loop([th EXCEPT !.name = Transfer!Value(t)]))
                /\ t_disk' = [t_disk EXCEPT ![Transfer!Value(t)] = <<>>]
      BY <1>9 DEF Transfer!RecvName
    <2>2. /\ th.conn \in Clients /\ th.pc = "name" /\ 1 \in 0 .. Len(s)
          /\ Head(s) = s[1] /\ s[1] \in Wire /\ s[1][1] = "name"
      BY <2>1, FirstItem
    <2>3. Transfer!Value(t) \in Transfer!Names
      BY <2>2, WireItems DEF Transfer!Value
    <2>4. MainBound' /\ StreamsBound'
      BY <1>1, <1>2, <1>5, <2>1, <2>2 DEF MainBound
    <2>5. CASE Transfer!Set(t, Transfer!Return(th, "failed")) /\ UNCHANGED t_disk
      <3>1. HandlersBound'
        BY <1>1, <1>3, <2>5, HandlerMoves
      <3> QED
        BY <1>1, <2>4, <2>5, <3>1 DEF TransferBounds
    <2>6. CASE /\ Transfer!Set(t, Transfer!Loop([th EXCEPT !.name = Transfer!Value(t)]))
               /\ t_disk' = [t_disk EXCEPT ![Transfer!Value(t)] = <<>>]
      <3> DEFINE named == [th EXCEPT !.name = Transfer!Value(t)]
      <3>1. /\ named \in HandlerStates /\ named.pc = th.pc /\ named.size = th.size
            /\ named.name = Transfer!Value(t) /\ named.socket = th.socket
        <4> HIDE DEF th
        <4> QED
          BY <1>1, <2>3 DEF HandlerStates
      <3>2. th.socket \in Clients
        BY <1>1, <2>2 DEF HandlerBound, Transfer!Receiving
      <3> HIDE DEF named
      <3>3. HandlerBound(named)
        <4> HIDE DEF th
        <4> QED
          BY <1>1, <2>3, <3>1, <3>2 DEF HandlerBound
      <3>4. HandlerBound(Transfer!Loop(named)) /\ Transfer!Loop(named).pc # "copy"
        BY <2>3, <3>1, <3>2, <3>3, HandlerMoves
      <3>5. HandlersBound'
        BY <1>3, <2>6, <3>4 DEF named
      <3>6. t_disk' \in [Transfer!Names -> Seq(Stored)]
        <4>1. t_disk' = [t_disk EXCEPT ![Transfer!Value(t)] = <<>>] /\ <<>> \in Seq(Stored)
          BY <2>6
        <4> QED
          BY <1>1, <4>1
      <3> QED
        BY <2>4, <3>5, <3>6 DEF TransferBounds
    <2> QED
      BY <2>1, <2>5, <2>6
  <1>10. CASE Transfer!RecvData(t)
    <2>1. /\ Transfer!Gets(t, "data", "byte") /\ UNCHANGED <<t_up, t_descriptor>>
      BY <1>10 DEF Transfer!RecvData
    <2>2. /\ th.conn \in Clients /\ th.pc = "data" /\ 1 \in 0 .. Len(s) /\ s \in Seq(Wire)
          /\ s[1][1] = "byte"
      BY <2>1, FirstItem
    <2>3. PICK k \in 1 .. Transfer!Min({CHUNK, Len(s)}) :
             /\ t_disk' = [t_disk EXCEPT ![th.name] =
                              Transfer!WriteAt(t_disk[th.name], th.off, SubSeq(s, 1, k))]
             /\ Transfer!Set(t, Transfer!Loop([th EXCEPT !.off = @ + k]))
             /\ Transfer!Consume(t, k)
      BY <1>10 DEF Transfer!RecvData
    <2>4. Len(s) \in Nat /\ CHUNK \in Nat
      BY <2>2, TransferAssumption
    <2>5. k \in Nat /\ k \in 0 .. Len(s)
      <3> HIDE DEF s
      <3>1. Transfer!Min({CHUNK, Len(s)}) = IF CHUNK <= Len(s) THEN CHUNK ELSE Len(s)
        BY <2>4, TwoNumbers
      <3> QED
        BY <2>3, <2>4, <3>1
    <2>6. th.name \in Transfer!Names /\ th.socket \in Clients /\ th.off \in Nat
      BY <1>1, <2>2 DEF HandlerBound, HandlerStates, Transfer!Receiving
    <2>7. \A j \in 1 .. Len(s) : s[j] \in Stored
      <3>1. \A j \in 1 .. Len(s) : s[j][1] = "byte"
        <4>1. ClientBound(t_client[th.conn], s)
          BY <1>1, <2>2 DEF StreamsBound
        <4>2. \A i, j \in 1 .. Len(s) : i <= j /\ s[i][1] = "byte" => s[j][1] = "byte"
          BY <4>1 DEF ClientBound
        <4> HIDE DEF s, th
        <4>3. ASSUME NEW j \in 1 .. Len(s) PROVE s[j][1] = "byte"
          <5>1. 1 \in 1 .. Len(s) /\ 1 <= j
            BY <2>4
          <5> QED
            BY <2>2, <4>2, <5>1
        <4> QED
          BY <4>3
      <3> HIDE DEF s, th
      <3>2. \A j \in 1 .. Len(s) : s[j] \in Wire
        BY <2>2, <2>4
      <3> QED
        BY <3>1, <3>2, WireItems
    <2>8. SubSeq(s, 1, k) \in Seq(Stored) /\ Len(SubSeq(s, 1, k)) = k
      <3> HIDE DEF s, th
      <3>1. SubSeq(s, 1, k) = [j \in 1 .. k |-> s[j]]
        BY <2>4, <2>5
      <3>2. \A j \in 1 .. k : s[j] \in Stored
        BY <2>4, <2>5, <2>7
      <3> QED
        BY <2>5, <3>1, <3>2
    <2>9. Transfer!WriteAt(t_disk[th.name], th.off, SubSeq(s, 1, k)) \in Seq(Stored)
      <3> DEFINE w == Transfer!WriteAt(t_disk[th.name], th.off, SubSeq(s, 1, k))
      <3>1. t_disk[th.name] \in Seq(Stored)
        BY <1>1, <2>6
      <3>2. Overwrites(w, t_disk[th.name], th.off, SubSeq(s, 1, k), k)
        <4> HIDE DEF th, s
        <4> QED
          BY <2>5, <2>6, <2>8, <3>1, WriteAtFacts
      <3> QED
        BY <3>2 DEF Overwrites
    <2>10. t_disk' \in [Transfer!Names -> Seq(Stored)]
      BY <1>1, <2>3, <2>6, <2>9
    <2>11. HandlersBound'
      <3> DEFINE n == [th EXCEPT !.off = @ + k]
      <3>1. HandlerBound(n) /\ n.name = th.name /\ n.socket = th.socket
        <4> HIDE DEF th
        <4> QED
          BY <1>1, <2>5, HandlerMoves
      <3> HIDE DEF n
      <3>2. HandlerBound(Transfer!Loop(n)) /\ Transfer!Loop(n).pc # "copy"
        BY <2>6, <3>1, HandlerMoves
      <3> QED
        BY <1>3, <2>3, <3>2 DEF n
    <2>12. MainBound' /\ StreamsBound'
      BY <1>1, <1>2, <1>5, <2>1, <2>2, <2>3, <2>5 DEF MainBound
    <2> QED
      BY <2>10, <2>11, <2>12 DEF TransferBounds
  <1>11. CASE Transfer!Garble(t)
    <2> DEFINE lost == [th EXCEPT !.pc = "garbled", !.conn = None]
    <2>1. /\ th.pc \in Transfer!Receiving /\ th.conn # None
          /\ Transfer!Set(t, lost) \/ Transfer!Set(t, Transfer!Return(th, "failed"))
          /\ t_up' \in BOOLEAN /\ UNCHANGED <<t_descriptor, t_disk>>
      BY <1>11, SameClients DEF Transfer!Garble
    <2>2. PICK k \in 0 .. Len(s) : Transfer!Consume(t, k)
      BY <1>11 DEF Transfer!Garble
    <2>3. th.conn \in Clients /\ None \in 0 .. N
      <3>1. th.conn \in 0 .. N /\ N \in Nat
        BY <1>1, ServerAssumption DEF HandlerStates
      <3> QED
        BY <2>1, <3>1 DEF Clients, None
    <2>4. HandlerBound(lost) /\ lost.pc # "copy"
      <3>1. /\ lost \in HandlerStates /\ lost.pc = "garbled" /\ lost.size = th.size
            /\ lost.socket = th.socket
        <4> HIDE DEF th
        <4> QED
          BY <1>1, <2>3 DEF HandlerStates
      <3> HIDE DEF th, lost
      <3> QED
        BY <1>1, <2>1, <3>1 DEF HandlerBound
    <2>5. HandlersBound'
      <3>1. CASE Transfer!Set(t, lost)
        <4> HIDE DEF lost
        <4> QED
          BY <1>3, <2>4, <3>1
      <3>2. CASE Transfer!Set(t, Transfer!Return(th, "failed"))
        BY <1>1, <1>3, <3>2, HandlerMoves
      <3> QED
        BY <2>1, <3>1, <3>2
    <2>6. MainBound' /\ StreamsBound'
      BY <1>2, <1>5, <2>1, <2>2, <2>3
    <2> QED
      BY <1>1, <2>1, <2>5, <2>6 DEF TransferBounds
  <1>12. CASE Transfer!Close(t)
    <2> DEFINE over == [th EXCEPT !.pc = "over"]
    <2>1. /\ th.pc = "close" /\ Transfer!Set(t, over)
          /\ t_descriptor' = [t_descriptor EXCEPT ![th.socket] = None]
          /\ UNCHANGED <<t_stream, t_up, t_disk>>
      BY <1>12, SameClients DEF Transfer!Close, Transfer!At
    <2>2. HandlerBound(over) /\ over.pc # "copy"
      <3>1. over \in HandlerStates /\ over.pc = "over" /\ over.size = th.size
        <4> HIDE DEF th
        <4> QED
          BY <1>1 DEF HandlerStates
      <3> HIDE DEF th, over
      <3> QED
        BY <1>1, <3>1 DEF HandlerBound, Transfer!Receiving
    <2>3. HandlersBound' /\ StreamsBound'
      <3> HIDE DEF over
      <3> QED
        BY <1>3, <1>4, <2>1, <2>2
    <2>4. /\ t_descriptor' \in [Clients -> 0 .. t_accepted]
          /\ \A d \in Clients : t_descriptor'[d] \in {t_descriptor[d], None}
      <3>1. None \in 0 .. t_accepted
        BY <1>1, ServerAssumption DEF MainBound, None
      <3> QED
        BY <1>1, <2>1, <3>1 DEF MainBound
    <2>5. MainBound'
      BY <1>1, <2>1, <2>4 DEF MainBound
    <2> QED
      BY <1>1, <2>1, <2>3, <2>5 DEF TransferBounds
  <1> QED
    BY <1>6, <1>7, <1>8, <1>9, <1>10, <1>11, <1>12 DEF Transfer!ThreadStep

LEMMA TransferBoundsNext == TransferBounds /\ [Transfer!Next]_fileVars => TransferBounds'
  <1> SUFFICES ASSUME TransferBounds, [Transfer!Next]_fileVars PROVE TransferBounds'
    OBVIOUS
  <1>1. CASE UNCHANGED fileVars \/ Transfer!Exit
    <2>1. /\ UNCHANGED <<t_client, t_stream, t_accepted, t_descriptor, t_new_data, t_thread, t_disk,
                         t_overwritten>>
          /\ t_up' = t_up \/ t_up' = FALSE
      BY <1>1 DEF fileVars, transferServer, Transfer!Exit, Transfer!mainVars
    <2> QED
      BY <2>1 DEF TransferBounds, MainBound, StreamsBound, HandlersBound
  <1>2. CASE Transfer!Accept
    BY <1>2, TransferAcceptBounds
  <1>3. ASSUME NEW c \in Clients, Transfer!ClientStep(c) \/ Transfer!ThreadStep(c)
        PROVE  TransferBounds'
    BY <1>3, TransferClientBounds, TransferThreadBounds
  <1> QED
    BY <1>1, <1>2, <1>3, SameClients DEF Transfer!Next

LEMMA TransferTypeOK == TransferBounds => Transfer!TypeOK
  <1> SUFFICES ASSUME TransferBounds PROVE Transfer!TypeOK
    OBVIOUS
  <1>1. /\ MainBound /\ StreamsBound /\ HandlersBound /\ t_disk \in [Transfer!Names -> Seq(Stored)]
        /\ N \in Nat
    BY ServerAssumption DEF TransferBounds
  <1>2. ASSUME NEW c \in Clients
        PROVE  /\ t_client[c].pc \in {"new", "header", "data", "done", "gone"}
               /\ t_client[c].file \in Files
               /\ t_client[c].sent \in 0 .. Transfer!Max({0, t_client[c].file.size})
               /\ Len(t_stream[c]) <= t_client[c].sent + 2
    <2> DEFINE cl == t_client[c]
               size == cl.file.size
    <2>1. ClientBound(cl, t_stream[c])
      BY <1>1 DEF StreamsBound
    <2>2. cl \in ClientStates /\ (cl.sent = 0 \/ cl.sent <= size) /\ Len(t_stream[c]) <= cl.sent + 2
      BY <2>1 DEF ClientBound
    <2>3. cl.sent \in Nat /\ size \in Int
      BY <2>2, TransferAssumption DEF ClientStates
    <2> HIDE DEF size
    <2>4. /\ Transfer!Max({0, size}) >= 0 /\ Transfer!Max({0, size}) >= size
          /\ Transfer!Max({0, size}) \in Int
      <3>1. /\ Transfer!Max({0, size}) >= 0 /\ Transfer!Max({0, size}) >= size
            /\ Transfer!Max({0, size}) \in {0, size}
        <4> HIDE DEF cl
        <4>1. 0 \in Int /\ size \in Int
          BY <2>3
        <4> QED
          BY <4>1, AtLeast, Zenon
      <3> QED
        BY <2>3, <3>1
    <2>5. cl.sent <= Transfer!Max({0, size})
      <3>1. cl.sent = 0 \/ cl.sent <= size
        BY <2>2 DEF size
      <3> QED
        BY <2>3, <2>4, <3>1
    <2> QED
      BY <2>2, <2>3, <2>4, <2>5 DEF ClientStates, size
  <1>3. ASSUME NEW t \in Clients
        PROVE  /\ t_thread[t].pc \in {"new", "copy", "close", "over"} \cup Transfer!Receiving
               /\ t_thread[t].socket \in 0 .. N /\ t_thread[t].conn \in 0 .. N
               /\ t_thread[t].size \in 0 .. WRAP - 1
               /\ t_thread[t].name \in Transfer!Names \cup {"none"}
    <2>1. t_thread[t] \in HandlerStates /\ t_thread[t].size <= WRAP - 1 /\ WRAP \in Nat
      BY <1>1, TransferAssumption DEF HandlersBound, HandlerBound
    <2>2. t_thread[t].size \in Nat
      BY <2>1 DEF HandlerStates
    <2> QED
      BY <2>1, <2>2 DEF HandlerStates, Transfer!Receiving
  <1>4. \A x \in Stored : x[2][1] \in 0 .. N
    BY <1>1 DEF Stored, Clients, Transfer!Hole, Transfer!None
  <1>5. ASSUME NEW n \in Transfer!Names, NEW j \in DOMAIN t_disk[n]
        PROVE  t_disk[n][j][2][1] \in 0 .. N
    <2>1. t_disk[n] \in Seq(Stored)
      BY <1>1
    <2>2. t_disk[n][j] \in Stored
      BY <1>5, <2>1
    <2> QED
      BY <1>4, <2>2
  <1>6. /\ t_up \in BOOLEAN /\ t_overwritten \in BOOLEAN /\ t_accepted \in 0 .. N
        /\ t_new_data \in 0 .. N /\ t_descriptor \in [Clients -> 0 .. N]
    <2>1. 0 .. t_accepted \subseteq 0 .. N
      BY <1>1 DEF MainBound
    <2> QED
      BY <1>1, <2>1 DEF MainBound
  <1> QED
    BY <1>2, <1>3, <1>5, <1>6, SameClients DEF Transfer!TypeOK
------------------------------------------------------------------------------
(* The calculator over named pipes.                                        *)

LEMMA SamePipeNames ==
    /\ \A S : Pipes!Cardinality(S) = Cardinality(S)
    /\ \A s : Pipes!ToSet(s) = {s[j] : j \in DOMAIN s}
    /\ Clients = 1 .. N /\ N \in Nat /\ None = 0 /\ None \notin Clients
    /\ INT \in Nat /\ INT > 0 /\ SUMS \in Nat
  BY ServerAssumption, PipesAssumption
  DEF Pipes!Cardinality, Cardinality, Pipes!ToSet, Clients, None

\* The bytes of valid operators in a sequence of bytes.
PlusAt(s) == {j \in 1 .. Len(s) : s[j][2] = "+"}
Plus(s) == Cardinality(PlusAt(s))

LEMMA PlusIsFinite ==
    ASSUME NEW s \in Seq(Pipes!Bytes)
    PROVE  IsFiniteSet(PlusAt(s)) /\ Plus(s) \in Nat /\ Len(s) \in Nat
  <1>1. Len(s) \in Nat /\ 1 \in Int /\ Len(s) \in Int
    BY LenProperties
  <1>2. IsFiniteSet(1 .. Len(s))
    BY <1>1, FS_Interval
  <1>3. IsFiniteSet(PlusAt(s))
    BY <1>2, FS_Subset DEF PlusAt
  <1> QED
    BY <1>1, <1>3, FS_CardinalityType DEF Plus

\* Bytes that are no valid operators do not count, ...
LEMMA PlusLonger ==
    ASSUME NEW s \in Seq(Pipes!Bytes), NEW t \in Seq(Pipes!Bytes),
           \A j \in 1 .. Len(t) : t[j][2] # "+"
    PROVE  Plus(s \o t) = Plus(s)
  <1>1. /\ Len(s \o t) = Len(s) + Len(t) /\ Len(s) \in Nat /\ Len(t) \in Nat
        /\ \A j \in 1 .. Len(s) + Len(t) : (s \o t)[j] = IF j <= Len(s) THEN s[j] ELSE t[j - Len(s)]
    BY ConcatProperties, LenProperties
  <1> DEFINE v == s \o t
             w == Len(s)
             x == Len(t)
  <1>2. /\ Len(v) = w + x /\ w \in Nat /\ x \in Nat
        /\ \A j \in 1 .. w + x : v[j] = IF j <= w THEN s[j] ELSE t[j - w]
        /\ \A j \in 1 .. x : t[j][2] # "+"
    BY <1>1
  <1>3. PlusAt(s) = {j \in 1 .. w : s[j][2] = "+"}
    BY DEF PlusAt
  <1> HIDE DEF v, w, x
  <1>4. \A j \in 1 .. Len(v) : v[j][2] = "+" <=> j <= w /\ s[j][2] = "+"
    <2>1. ASSUME NEW j \in 1 .. Len(v), j > w PROVE v[j][2] # "+"
      <3>1. j - w \in 1 .. x /\ v[j] = t[j - w]
        BY <1>2, <2>1
      <3> QED
        BY <1>2, <3>1
    <2> QED
      BY <1>2, <2>1
  <1>5. {j \in 1 .. Len(v) : v[j][2] = "+"} = {j \in 1 .. w : s[j][2] = "+"}
    BY <1>2, <1>4
  <1> QED
    BY <1>3, <1>5 DEF v, PlusAt, Plus

\* ... and a valid one counts once, when it is written ...
LEMMA PlusAppend ==
    ASSUME NEW s \in Seq(Pipes!Bytes), NEW b \in Pipes!Bytes
    PROVE  Plus(Append(s, b)) = Plus(s) + IF b[2] = "+" THEN 1 ELSE 0
  <1> DEFINE v == Append(s, b)
             w == Len(s)
  <1>1. /\ Len(v) = w + 1 /\ w \in Nat
        /\ (\A j \in 1 .. w : v[j] = s[j]) /\ v[w + 1] = b
    BY AppendProperties, LenProperties
  <1>2. PlusAt(s) = {j \in 1 .. w : s[j][2] = "+"}
    BY DEF PlusAt
  <1> HIDE DEF v, w
  <1>3. {j \in 1 .. Len(v) : v[j][2] = "+"}
            = {j \in 1 .. w : s[j][2] = "+"} \cup (IF b[2] = "+" THEN {w + 1} ELSE {})
    BY <1>1
  <1>4. PlusAt(v) = PlusAt(s) \cup (IF b[2] = "+" THEN {w + 1} ELSE {})
    BY <1>2, <1>3 DEF PlusAt
  <1>5. w + 1 \notin PlusAt(s)
    BY <1>1, <1>2
  <1>6. IsFiniteSet(PlusAt(s)) /\ Plus(s) \in Nat
    BY PlusIsFinite
  <1>7. Cardinality(PlusAt(s) \cup {w + 1}) = Plus(s) + 1
    BY <1>5, <1>6, FS_AddElement DEF Plus
  <1>8. CASE b[2] = "+"
    <2>1. Plus(v) = Plus(s) + 1
      BY <1>4, <1>7, <1>8 DEF Plus
    <2> QED
      BY <1>8, <2>1 DEF v
  <1>9. CASE b[2] # "+"
    <2>1. PlusAt(v) = PlusAt(s)
      BY <1>4, <1>9
    <2>2. Plus(v) = Plus(s) + 0
      BY <1>6, <2>1 DEF Plus
    <2> QED
      BY <1>9, <2>2 DEF v
  <1> QED
    BY <1>8, <1>9

\* ... and when it is read.
LEMMA PlusRest ==
    ASSUME NEW s \in Seq(Pipes!Bytes), NEW k \in 0 .. Len(s)
    PROVE  /\ (\A j \in 1 .. k : s[j][2] # "+") => Plus(Rest(s, k)) = Plus(s)
           /\ k = 1 /\ s[1][2] = "+" => Plus(Rest(s, k)) = Plus(s) - 1
           /\ Rest(s, k) \in Seq(Pipes!Bytes) /\ Len(Rest(s, k)) = Len(s) - k
           /\ \A j \in 1 .. Len(s) - k : Rest(s, k)[j] = s[j + k]
  <1> DEFINE v == Rest(s, k)
             w == Len(s)
  <1>1. /\ Len(v) = w - k /\ w \in Nat /\ k \in Nat /\ k <= w /\ v \in Seq(Pipes!Bytes)
        /\ \A j \in 1 .. w - k : v[j] = s[j + k]
    <2>1. w \in Nat /\ k + 1 \in Int /\ w \in Int
      BY LenProperties
    <2>2. \A j \in k + 1 .. w : s[j] \in Pipes!Bytes
      BY <2>1, ElementOfSeq
    <2>3. /\ SubSeq(s, k + 1, w) \in Seq(Pipes!Bytes)
          /\ Len(SubSeq(s, k + 1, w)) = IF k + 1 <= w THEN w - (k + 1) + 1 ELSE 0
          /\ \A j \in 1 .. w - (k + 1) + 1 : SubSeq(s, k + 1, w)[j] = s[(k + 1) + j - 1]
      BY <2>1, <2>2, SubSeqProperties
    <2>4. v = SubSeq(s, k + 1, w)
      BY DEF Rest
    <2> HIDE DEF v
    <2>5. /\ Len(v) = IF k + 1 <= w THEN w - (k + 1) + 1 ELSE 0
          /\ \A j \in 1 .. w - (k + 1) + 1 : v[j] = s[(k + 1) + j - 1]
      BY <2>3, <2>4
    <2> HIDE DEF w
    <2>6. w \in Nat /\ k \in 0 .. w
      BY <2>1 DEF w
    <2>7. ASSUME NEW j \in 1 .. w - k PROVE v[j] = s[j + k]
      <3>1. j \in 1 .. w - (k + 1) + 1 /\ (k + 1) + j - 1 = j + k
        BY <2>6
      <3> QED
        BY <2>5, <3>1
    <2> QED
      BY <2>3, <2>4, <2>5, <2>6, <2>7
  <1>2. PlusAt(s) = {j \in 1 .. w : s[j][2] = "+"}
    BY DEF PlusAt
  <1> HIDE DEF v, w
  <1> DEFINE U == {j \in PlusAt(s) : j > k}
             f == [j \in PlusAt(v) |-> j + k]
  <1>3. f \in Bijection(PlusAt(v), U)
    <2>1. PlusAt(v) = {j \in 1 .. w - k : s[j + k][2] = "+"}
      BY <1>1 DEF PlusAt
    <2>2. \A j \in PlusAt(v) : j \in Nat /\ j + k \in U
      BY <1>1, <1>2, <2>1
    <2>3. \A u \in U : u - k \in PlusAt(v) /\ (u - k) + k = u
      BY <1>1, <1>2, <2>1
    <2> QED
      BY <1>1, <2>2, <2>3 DEF Bijection, Injection, Surjection, IsInjective
  <1>4. IsFiniteSet(PlusAt(v)) /\ Plus(s) \in Nat /\ IsFiniteSet(PlusAt(s))
    BY <1>1, PlusIsFinite
  <1>5. Plus(v) = Cardinality(U)
    BY <1>3, <1>4, FS_Bijection DEF Plus, ExistsBijection
  <1>6. ASSUME \A j \in 1 .. k : s[j][2] # "+" PROVE U = PlusAt(s)
    BY <1>1, <1>2, <1>6
  <1>7. ASSUME k = 1, s[1][2] = "+" PROVE U = PlusAt(s) \ {1} /\ 1 \in PlusAt(s)
    BY <1>1, <1>2, <1>7
  <1>8. k = 1 /\ s[1][2] = "+" => Cardinality(U) = Plus(s) - 1
    BY <1>4, <1>7, FS_RemoveElement DEF Plus
  <1>9. /\ (\A j \in 1 .. k : s[j][2] # "+") => Plus(v) = Plus(s)
        /\ k = 1 /\ s[1][2] = "+" => Plus(v) = Plus(s) - 1
    BY <1>5, <1>6, <1>8 DEF Plus
  <1> QED
    BY <1>1, <1>9 DEF v, w

\* What the bytes of s are when the clients' requests follow each other: at is how many
\* bytes of its request were written before each, who is the client it is from; behind
\* the last byte they tell what comes next.
Aligned(s, at, who) ==
    /\ at \in [Nat -> 0 .. 2 * INT] /\ who \in [Nat -> 0 .. N]
    /\ \A j, k \in 1 .. Len(s) + 1 :
          j <= k /\ at[j] + (k - j) <= 2 * INT => at[k] = at[j] + (k - j) /\ who[k] = who[j]
    /\ \A j \in 1 .. Len(s) :
          /\ at[j] = 2 * INT => at[j + 1] = 0
          /\ s[j][1] = who[j]
          /\ at[j] < INT => s[j][2] = "num1"
          /\ at[j] >= INT /\ at[j] < 2 * INT => s[j][2] = "num2"
          /\ at[j] = 2 * INT => s[j][2] \in Pipes!Operators

\* What at and who tell of the bytes behind the first k.
Behind(k, at, who, at2, who2) ==
    /\ at2 \in [Nat -> 0 .. 2 * INT] /\ who2 \in [Nat -> 0 .. N]
    /\ \A j \in Nat : at2[j] = at[j + k] /\ who2[j] = who[j + k]

\* Bytes that are read leave the others as they are.
LEMMA AlignedRest ==
    ASSUME NEW s \in Seq(Pipes!Bytes), NEW at, NEW who, Aligned(s, at, who),
           NEW k \in 0 .. Len(s), NEW at2, NEW who2, Behind(k, at, who, at2, who2)
    PROVE  Aligned(Rest(s, k), at2, who2)
  <1> DEFINE v == Rest(s, k)
             w == Len(s)
  <1>1. /\ Len(v) = w - k /\ w \in Nat /\ k \in Nat /\ k <= w
        /\ \A j \in 1 .. w - k : v[j] = s[j + k]
    <2>1. /\ Len(Rest(s, k)) = Len(s) - k
          /\ \A j \in 1 .. Len(s) - k : Rest(s, k)[j] = s[j + k]
      BY PlusRest
    <2>2. Len(s) \in Nat
      BY PlusIsFinite
    <2>3. k \in Nat /\ k <= Len(s)
      BY <2>2
    <2> QED
      BY <2>1, <2>2, <2>3
  <1>2. /\ \A j, i \in 1 .. w + 1 :
              j <= i /\ at[j] + (i - j) <= 2 * INT => at[i] = at[j] + (i - j) /\ who[i] = who[j]
        /\ \A j \in 1 .. w :
              /\ at[j] = 2 * INT => at[j + 1] = 0
              /\ s[j][1] = who[j]
              /\ at[j] < INT => s[j][2] = "num1"
              /\ at[j] >= INT /\ at[j] < 2 * INT => s[j][2] = "num2"
              /\ at[j] = 2 * INT => s[j][2] \in Pipes!Operators
    BY DEF Aligned
  <1>3. \A j \in Nat : at2[j] = at[j + k] /\ who2[j] = who[j + k]
    BY DEF Behind
  <1>4. at2 \in [Nat -> 0 .. 2 * INT] /\ who2 \in [Nat -> 0 .. N]
    BY DEF Behind
  <1> HIDE DEF v, w
  <1> DEFINE x == Len(v)
  <1>len. x = w - k /\ w \in Nat /\ k \in Nat /\ k <= w
    BY <1>1
  <1> HIDE DEF x
  <1>arith. /\ \A j, i \in 1 .. x + 1 : j <= i =>
                  /\ j + k \in 1 .. w + 1 /\ i + k \in 1 .. w + 1 /\ j + k <= i + k
                  /\ (i + k) - (j + k) = i - j /\ j \in Nat /\ i \in Nat
            /\ \A j \in 1 .. x :
                  /\ j + k \in 1 .. w /\ (j + 1) + k = (j + k) + 1 /\ j \in Nat /\ j + 1 \in Nat
                  /\ j \in 1 .. w - k
    BY <1>len
  <1>5. ASSUME NEW j \in 1 .. Len(v) + 1, NEW i \in 1 .. Len(v) + 1,
               j <= i, at2[j] + (i - j) <= 2 * INT
        PROVE  at2[i] = at2[j] + (i - j) /\ who2[i] = who2[j]
    <2>1. /\ j + k \in 1 .. w + 1 /\ i + k \in 1 .. w + 1 /\ j + k <= i + k
          /\ (i + k) - (j + k) = i - j /\ j \in Nat /\ i \in Nat
      BY <1>5, <1>arith DEF x
    <2>2. /\ at2[j] = at[j + k] /\ at2[i] = at[i + k]
          /\ who2[j] = who[j + k] /\ who2[i] = who[i + k]
      BY <1>3, <2>1
    <2>3. at[j + k] + ((i + k) - (j + k)) <= 2 * INT
      BY <1>5, <2>1, <2>2
    <2>4. at[i + k] = at[j + k] + ((i + k) - (j + k)) /\ who[i + k] = who[j + k]
      BY <1>2, <2>1, <2>3
    <2> QED
      BY <2>1, <2>2, <2>4
  <1>6. ASSUME NEW j \in 1 .. Len(v)
        PROVE  /\ at2[j] = 2 * INT => at2[j + 1] = 0
               /\ v[j][1] = who2[j]
               /\ at2[j] < INT => v[j][2] = "num1"
               /\ at2[j] >= INT /\ at2[j] < 2 * INT => v[j][2] = "num2"
               /\ at2[j] = 2 * INT => v[j][2] \in Pipes!Operators
    <2>1. /\ j + k \in 1 .. w /\ (j + 1) + k = (j + k) + 1 /\ j \in Nat /\ j + 1 \in Nat
          /\ j \in 1 .. w - k
      BY <1>arith DEF x
    <2>2. v[j] = s[j + k] /\ at2[j] = at[j + k] /\ who2[j] = who[j + k]
          /\ at2[j + 1] = at[(j + k) + 1]
      <3>1. at2[j + 1] = at[(j + 1) + k]
        BY <1>3, <2>1
      <3> QED
        BY <1>1, <1>3, <2>1, <3>1
    <2> QED
      BY <1>2, <2>1, <2>2
  <1>7. Aligned(v, at2, who2)
    BY <1>4, <1>5, <1>6 DEF Aligned
  <1> QED
    BY <1>7 DEF v

LEMMA NumberFacts ==
    ASSUME NEW c \in Clients, NEW m \in {"num1", "num2"}
    PROVE  /\ Pipes!Number(c, m) \in Seq(Pipes!Bytes) /\ Len(Pipes!Number(c, m)) = INT
           /\ \A j \in 1 .. INT : Pipes!Number(c, m)[j] = <<c, m>>
  BY SamePipeNames, IsASeq, LenProperties DEF Pipes!Number, Pipes!Bytes

\* With a number of c, which begins at e, they are still in step.
TakesNumber(s, at, who, c, m, e) ==
    \E at2, who2 :
        /\ Aligned(s \o Pipes!Number(c, m), at2, who2)
        /\ at2[1] = at[1] /\ (at[1] # 0 => who2[1] = who[1])
        /\ at2[e + INT] = at[e] + INT /\ who2[e + INT] = c

\* A client that writes a number where one of it is due keeps the requests in step: its
\* first number begins a request, its second one goes on with it.
LEMMA AlignedNumber ==
    ASSUME NEW s \in Seq(Pipes!Bytes), NEW at, NEW who, Aligned(s, at, who),
           NEW c \in Clients, NEW m, NEW e, e = Len(s) + 1,
           (at[e] = 0 /\ m = "num1") \/ (at[e] = INT /\ m = "num2" /\ who[e] = c)
    PROVE  TakesNumber(s, at, who, c, m, e)
  <1> DEFINE t == Pipes!Number(c, m)
             v == s \o t
             w == Len(s)
             a == at[e]
             at2 == [j \in Nat |-> IF j < e THEN at[j] ELSE IF j <= e + INT THEN a + (j - e) ELSE 0]
             who2 == [j \in Nat |-> IF j < e THEN who[j] ELSE c]
  <1>1. /\ t \in Seq(Pipes!Bytes) /\ Len(t) = INT
        /\ \A j \in 1 .. INT : t[j] = <<c, m>>
    <2>1. m \in {"num1", "num2"}
      OBVIOUS
    <2>2. /\ Pipes!Number(c, m) \in Seq(Pipes!Bytes) /\ Len(Pipes!Number(c, m)) = INT
          /\ \A j \in 1 .. INT : Pipes!Number(c, m)[j] = <<c, m>>
      BY <2>1, NumberFacts
    <2> QED
      BY <2>2
  <1> HIDE DEF t
  <1>2. /\ Len(s \o t) = Len(s) + Len(t) /\ Len(s) \in Nat
        /\ \A j \in 1 .. Len(s) + Len(t) : (s \o t)[j] = IF j <= Len(s) THEN s[j] ELSE t[j - Len(s)]
    BY <1>1, ConcatProperties, LenProperties
  <1>3. /\ Len(v) = w + INT /\ w \in Nat /\ e = w + 1
        /\ \A j \in 1 .. w + INT : v[j] = IF j <= w THEN s[j] ELSE t[j - w]
    BY <1>1, <1>2
  <1>types. at \in [Nat -> 0 .. 2 * INT] /\ who \in [Nat -> 0 .. N]
    BY DEF Aligned
  <1>ranges. /\ \A j \in Nat : at[j] \in Nat /\ at[j] <= 2 * INT
        /\ \A j \in Nat : who[j] \in 0 .. N
    <2>1. /\ \A j \in Nat : at[j] \in 0 .. 2 * INT
          /\ \A j \in Nat : who[j] \in 0 .. N
      BY <1>types
    <2>2. INT \in Nat
      BY SamePipeNames
    <2>3. \A x \in 0 .. 2 * INT : x \in Nat /\ x <= 2 * INT
      BY <2>2
    <2> QED
      BY <2>1, <2>3
  <1>4. /\ \A j, i \in 1 .. e :
              j <= i /\ at[j] + (i - j) <= 2 * INT => at[i] = at[j] + (i - j) /\ who[i] = who[j]
        /\ \A j \in 1 .. w :
              /\ at[j] = 2 * INT => at[j + 1] = 0
              /\ s[j][1] = who[j]
              /\ at[j] < INT => s[j][2] = "num1"
              /\ at[j] >= INT /\ at[j] < 2 * INT => s[j][2] = "num2"
              /\ at[j] = 2 * INT => s[j][2] \in Pipes!Operators
    BY DEF Aligned
  <1>5. /\ INT \in Nat /\ INT > 0 /\ c \in 0 .. N
        /\ (a = 0 /\ m = "num1") \/ (a = INT /\ m = "num2" /\ who[e] = c)
    BY SamePipeNames
  <1>6. \A j \in Nat : /\ at2[j] = IF j < e THEN at[j] ELSE IF j <= e + INT THEN a + (j - e) ELSE 0
                       /\ who2[j] = IF j < e THEN who[j] ELSE c
    OBVIOUS
  <1> HIDE DEF t, v, w
  <1>7. at2 \in [Nat -> 0 .. 2 * INT] /\ who2 \in [Nat -> 0 .. N]
    <2>1. \A j \in Nat : (IF j < e THEN at[j] ELSE IF j <= e + INT THEN a + (j - e) ELSE 0)
                             \in 0 .. 2 * INT
      <3>1. a \in {0, INT} /\ e \in Nat
        BY <1>3, <1>5
      <3> HIDE DEF a
      <3> QED
        BY <1>5, <1>ranges, <3>1
    <2>2. \A j \in Nat : (IF j < e THEN who[j] ELSE c) \in 0 .. N
      BY <1>5, <1>ranges
    <2> QED
      BY <2>1, <2>2
  <1>8. at[e] = a
    OBVIOUS
  <1> HIDE DEF at2, who2, a
  <1>9. ASSUME NEW j \in 1 .. Len(v) + 1, NEW i \in 1 .. Len(v) + 1,
               j <= i, at2[j] + (i - j) <= 2 * INT
        PROVE  at2[i] = at2[j] + (i - j) /\ who2[i] = who2[j]
    <2>1. j \in 1 .. e + INT /\ i \in 1 .. e + INT /\ j \in Nat /\ i \in Nat
      BY <1>3, <1>5, <1>9
    <2>2. CASE i < e
      <3>1. /\ at2[j] = at[j] /\ at2[i] = at[i] /\ who2[j] = who[j] /\ who2[i] = who[i]
            /\ j \in 1 .. e /\ i \in 1 .. e
        BY <1>3, <1>6, <1>9, <2>1, <2>2
      <3> QED
        BY <1>4, <1>9, <3>1
    <2>3. CASE j >= e
      <3>1. ~ (j < e) /\ ~ (i < e) /\ j <= e + INT /\ i <= e + INT
        BY <1>3, <1>5, <1>9, <2>1, <2>3
      <3>2. at2[j] = a + (j - e) /\ at2[i] = a + (i - e) /\ who2[j] = c /\ who2[i] = c
        BY <1>6, <2>1, <3>1
      <3>3. a \in Nat
        BY <1>5
      <3> QED
        BY <1>3, <2>1, <3>2, <3>3
    <2>4. CASE j < e /\ i >= e
      <3>1. at2[j] = at[j] /\ who2[j] = who[j] /\ at2[i] = a + (i - e) /\ who2[i] = c
        <4>1. ~ (i < e) /\ i <= e + INT
          BY <1>3, <1>5, <2>1, <2>4
        <4> QED
          BY <1>6, <2>1, <2>4, <4>1
      <3>2. j \in 1 .. e /\ e \in 1 .. e /\ j <= e /\ at[j] \in Nat
        BY <1>3, <1>ranges, <2>1, <2>4
      <3>3. at[j] + (e - j) <= 2 * INT
        BY <1>3, <1>5, <1>9, <2>1, <2>4, <3>1, <3>2
      <3>4. a = at[j] + (e - j) /\ who[e] = who[j]
        BY <1>4, <1>8, <3>2, <3>3
      <3>5. a # 0 /\ a + (i - e) = at[j] + (i - j)
        <4>1. at[j] \in Int /\ e \in Int /\ j \in Int /\ i \in Int /\ at[j] >= 0 /\ j < e
          BY <1>3, <2>1, <2>4, <3>2
        <4>2. at[j] + (e - j) # 0 /\ (at[j] + (e - j)) + (i - e) = at[j] + (i - j)
          BY <4>1
        <4> QED
          BY <3>4, <4>2
      <3>6. who[e] = c
        BY <1>5, <3>5
      <3> QED
        BY <3>1, <3>4, <3>5, <3>6
    <2> QED
      BY <1>3, <2>1, <2>2, <2>3, <2>4
  <1>10. ASSUME NEW j \in 1 .. Len(v)
         PROVE  /\ at2[j] = 2 * INT => at2[j + 1] = 0
                /\ v[j][1] = who2[j]
                /\ at2[j] < INT => v[j][2] = "num1"
                /\ at2[j] >= INT /\ at2[j] < 2 * INT => v[j][2] = "num2"
                /\ at2[j] = 2 * INT => v[j][2] \in Pipes!Operators
    <2>1. j \in 1 .. w + INT /\ j \in Nat /\ j + 1 \in Nat
      BY <1>3, <1>5, <1>10
    <2>2. CASE j < e
      <3>1. j \in 1 .. w /\ v[j] = s[j] /\ at2[j] = at[j] /\ who2[j] = who[j]
        BY <1>3, <1>6, <2>1, <2>2
      <3>2. at2[j + 1] = at[j + 1]
        BY <1>3, <1>5, <1>6, <1>8, <2>1, <2>2
      <3> QED
        BY <1>4, <3>1, <3>2
    <2>3. CASE j >= e
      <3>1. j - w \in 1 .. INT /\ v[j] = t[j - w] /\ j < e + INT
        <4>1. j - w \in 1 .. INT /\ ~ (j <= w) /\ j < e + INT
          BY <1>3, <1>5, <2>1, <2>3
        <4> QED
          BY <1>3, <2>1, <4>1
      <3>2. v[j] = <<c, m>>
        BY <1>1, <3>1
      <3>3. at2[j] = a + (j - e) /\ who2[j] = c /\ at2[j] < a + INT /\ at2[j] >= a
        BY <1>3, <1>5, <1>6, <2>1, <2>3, <3>1
      <3>4. v[j][1] = who2[j] /\ v[j][2] = m
        BY <3>2, <3>3
      <3> QED
        BY <1>5, <3>3, <3>4
    <2> QED
      BY <1>3, <2>1, <2>2, <2>3
  <1>11. Aligned(v, at2, who2)
    BY <1>7, <1>9, <1>10 DEF Aligned
  <1>12. at2[1] = at[1] /\ (at[1] # 0 => who2[1] = who[1])
    <2>1. 1 \in Nat /\ (1 < e \/ (1 = e /\ 1 <= e + INT /\ a + (1 - e) = a))
      BY <1>3, <1>5
    <2>2. CASE 1 < e
      BY <1>6, <2>1, <2>2
    <2>3. CASE 1 = e
      <3>1. at2[1] = a /\ who2[1] = c
        BY <1>6, <2>1, <2>3
      <3> QED
        BY <1>5, <1>8, <2>3, <3>1
    <2> QED
      BY <2>1, <2>2, <2>3
  <1>13. at2[e + INT] = at[e] + INT /\ who2[e + INT] = c
    <2>1. e + INT \in Nat /\ ~ (e + INT < e) /\ a + ((e + INT) - e) = a + INT
      BY <1>3, <1>5
    <2> QED
      BY <1>6, <1>8, <2>1
  <1> QED
    BY <1>11, <1>12, <1>13 DEF t, v, TakesNumber

\* The operator ends a request.
LEMMA AlignedOperator ==
    ASSUME NEW s \in Seq(Pipes!Bytes), NEW at, NEW who, Aligned(s, at, who),
           NEW c \in Clients, NEW o \in Pipes!Operators, NEW e, e = Len(s) + 1,
           at[e] = 2 * INT, who[e] = c
    PROVE  \E at2 :
               /\ Aligned(Append(s, <<c, o>>), at2, who)
               /\ at2[1] = at[1] /\ at2[e + 1] = 0
  <1> DEFINE v == Append(s, <<c, o>>)
             w == Len(s)
             at2 == [j \in Nat |-> IF j <= e THEN at[j] ELSE 0]
  <1>1. /\ Len(v) = w + 1 /\ w \in Nat /\ e = w + 1
        /\ (\A j \in 1 .. w : v[j] = s[j]) /\ v[w + 1] = <<c, o>>
    BY AppendProperties, LenProperties
  <1>types. at \in [Nat -> 0 .. 2 * INT] /\ who \in [Nat -> 0 .. N]
    BY DEF Aligned
  <1>ranges. /\ \A j \in Nat : at[j] \in Nat /\ at[j] <= 2 * INT
        /\ \A j \in Nat : who[j] \in 0 .. N
    <2>1. /\ \A j \in Nat : at[j] \in 0 .. 2 * INT
          /\ \A j \in Nat : who[j] \in 0 .. N
      BY <1>types
    <2>2. INT \in Nat
      BY SamePipeNames
    <2>3. \A x \in 0 .. 2 * INT : x \in Nat /\ x <= 2 * INT
      BY <2>2
    <2> QED
      BY <2>1, <2>3
  <1>2. /\ \A j, i \in 1 .. e :
              j <= i /\ at[j] + (i - j) <= 2 * INT => at[i] = at[j] + (i - j) /\ who[i] = who[j]
        /\ \A j \in 1 .. w :
              /\ at[j] = 2 * INT => at[j + 1] = 0
              /\ s[j][1] = who[j]
              /\ at[j] < INT => s[j][2] = "num1"
              /\ at[j] >= INT /\ at[j] < 2 * INT => s[j][2] = "num2"
              /\ at[j] = 2 * INT => s[j][2] \in Pipes!Operators
    BY DEF Aligned
  <1>3. INT \in Nat /\ INT > 0
    BY SamePipeNames
  <1>4. \A j \in Nat : at2[j] = IF j <= e THEN at[j] ELSE 0
    OBVIOUS
  <1>5. at2 \in [Nat -> 0 .. 2 * INT]
    <2>1. \A j \in Nat : (IF j <= e THEN at[j] ELSE 0) \in 0 .. 2 * INT
      BY <1>3, <1>ranges
    <2> QED
      BY <2>1
  <1> HIDE DEF v, w, at2
  <1>6. ASSUME NEW j \in 1 .. Len(v) + 1, NEW i \in 1 .. Len(v) + 1,
               j <= i, at2[j] + (i - j) <= 2 * INT
        PROVE  at2[i] = at2[j] + (i - j) /\ who[i] = who[j]
    <2>1. j \in 1 .. e + 1 /\ i \in 1 .. e + 1 /\ j \in Nat /\ i \in Nat
      BY <1>1, <1>6
    <2>2. CASE i <= e
      <3>1. at2[j] = at[j] /\ at2[i] = at[i] /\ j \in 1 .. e /\ i \in 1 .. e
        BY <1>1, <1>4, <1>6, <2>1, <2>2
      <3> QED
        BY <1>2, <1>6, <3>1
    <2>3. CASE j = e + 1
      BY <1>1, <1>4, <1>6, <2>1, <2>3
    <2>4. CASE j <= e /\ i = e + 1
      <3>1. j \in 1 .. e /\ e \in 1 .. e /\ j <= e /\ at[j] \in Nat /\ at2[j] = at[j]
        BY <1>1, <1>ranges, <1>4, <2>1, <2>4
      <3>2. at[j] + (e - j) <= 2 * INT /\ at[j] + (e - j) # 2 * INT
        BY <1>1, <1>3, <1>6, <2>1, <2>4, <3>1
      <3> QED
        BY <1>2, <3>1, <3>2
    <2> QED
      BY <1>1, <2>1, <2>2, <2>3, <2>4
  <1>7. ASSUME NEW j \in 1 .. Len(v)
        PROVE  /\ at2[j] = 2 * INT => at2[j + 1] = 0
               /\ v[j][1] = who[j]
               /\ at2[j] < INT => v[j][2] = "num1"
               /\ at2[j] >= INT /\ at2[j] < 2 * INT => v[j][2] = "num2"
               /\ at2[j] = 2 * INT => v[j][2] \in Pipes!Operators
    <2>1. j \in 1 .. w + 1 /\ j \in Nat /\ j + 1 \in Nat
      BY <1>1, <1>7
    <2>2. CASE j <= w
      <3>1. j \in 1 .. w /\ v[j] = s[j] /\ at2[j] = at[j] /\ at2[j + 1] = at[j + 1]
        BY <1>1, <1>4, <2>1, <2>2
      <3> QED
        BY <1>2, <3>1
    <2>3. CASE j = e
      <3>1. v[j] = <<c, o>> /\ at2[j] = 2 * INT /\ at2[j + 1] = 0
        BY <1>1, <1>4, <2>1, <2>3
      <3> QED
        BY <1>3, <2>3, <3>1
    <2> QED
      BY <1>1, <2>1, <2>2, <2>3
  <1>8. Aligned(v, at2, who)
    BY <1>5, <1>6, <1>7, <1>types DEF Aligned
  <1>9. at2[1] = at[1] /\ at2[e + 1] = 0
    BY <1>1, <1>4
  <1> QED
    BY <1>8, <1>9 DEF v

\* After its last request a client writes no other.
PipeTypes ==
    /\ Pipes!TypeOK
    /\ \A c \in Clients :
          /\ p_client[c] \in {"sent1", "sent2"} => line[c] # "none"
          /\ \/ made[c] <= SUMS \/ p_client[c] = "gone"
             \/ p_client[c] \in {"sent1", "sent2"} /\ line[c] = "exit"

\* What a read returns, over what the buffer had before, is not longer than the buffer.
LEMMA ReadFacts ==
    ASSUME pipe \in Seq(Pipes!Bytes), NEW n \in Nat, n > 0, Pipes!Take(n)
    PROVE  \E k \in 1 .. Len(pipe) :
               /\ k = IF n < Len(pipe) THEN n ELSE Len(pipe)
               /\ pipe' = Rest(pipe, k) /\ Pipes!Got(n) \in Seq(Pipes!Bytes)
               /\ Len(Pipes!Got(n)) = k
               /\ \A j \in 1 .. k : Pipes!Got(n)[j] = pipe[j]
  <1> DEFINE w == Len(pipe)
             k == IF n < w THEN n ELSE w
  <1>1. w \in Nat /\ pipe # <<>> /\ pipe' = SubSeq(pipe, k + 1, w) /\ Pipes!Got(n) = SubSeq(pipe, 1, k)
    BY LenProperties DEF Pipes!Take, Pipes!Got, Pipes!Min2
  <1>2. w # 0
    BY <1>1, EmptySeq
  <1>3. pipe' = Rest(pipe, k)
    BY <1>1 DEF Rest
  <1>4. k \in 1 .. w /\ 1 \in Int /\ k \in Int
    <2> HIDE DEF w
    <2> QED
      BY <1>1, <1>2
  <1>5. \A j \in 1 .. k : pipe[j] \in Pipes!Bytes
    <2>1. \A j \in 1 .. k : j \in 1 .. w
      <3> HIDE DEF w, k
      <3> QED
        BY <1>1, <1>4
    <2> QED
      BY <2>1, ElementOfSeq
  <1>6. /\ SubSeq(pipe, 1, k) \in Seq(Pipes!Bytes)
        /\ Len(SubSeq(pipe, 1, k)) = IF 1 <= k THEN k - 1 + 1 ELSE 0
        /\ \A j \in 1 .. k - 1 + 1 : SubSeq(pipe, 1, k)[j] = pipe[1 + j - 1]
    BY <1>4, <1>5, SubSeqProperties
  <1> HIDE DEF k
  <1>7. /\ SubSeq(pipe, 1, k) \in Seq(Pipes!Bytes) /\ Len(SubSeq(pipe, 1, k)) = k
        /\ \A j \in 1 .. k : SubSeq(pipe, 1, k)[j] = pipe[j]
    <2>1. 1 <= k /\ k - 1 + 1 = k /\ \A j \in 1 .. k : j \in 1 .. k - 1 + 1 /\ 1 + j - 1 = j
      BY <1>4
    <2> QED
      BY <1>6, <2>1
  <1> QED
    BY <1>1, <1>3, <1>4, <1>7 DEF k

LEMMA OverFacts ==
    ASSUME NEW old \in Seq(Pipes!Bytes), NEW new \in Seq(Pipes!Bytes),
           Len(old) <= INT, Len(new) <= INT
    PROVE  /\ Pipes!Over(old, new) \in Seq(Pipes!Bytes) /\ Len(Pipes!Over(old, new)) <= INT
           /\ Len(new) = INT => Pipes!Over(old, new) = new
  <1> DEFINE a == Len(old)
             b == Len(new)
             t == SubSeq(old, b + 1, a)
  <1>1. a \in Nat /\ b \in Nat /\ b + 1 \in Int /\ a \in Int /\ INT \in Nat
    BY LenProperties, SamePipeNames
  <1>2. \A j \in b + 1 .. a : old[j] \in Pipes!Bytes
    BY <1>1, ElementOfSeq
  <1>3. t \in Seq(Pipes!Bytes) /\ Len(t) = IF b + 1 <= a THEN a - (b + 1) + 1 ELSE 0
    BY <1>1, <1>2, SubSeqProperties
  <1>4. Pipes!Over(old, new) = new \o t
    BY DEF Pipes!Over
  <1>5. new \o t \in Seq(Pipes!Bytes) /\ Len(new \o t) = b + Len(t)
    BY <1>3, ConcatProperties
  <1> HIDE DEF t, a, b
  <1>6. a <= INT /\ b <= INT
    BY DEF a, b
  <1>7. Len(new \o t) <= INT
    BY <1>1, <1>3, <1>5, <1>6
  <1>8. ASSUME b = INT PROVE new \o t = new
    <2>1. Len(t) = 0
      BY <1>1, <1>3, <1>6, <1>8
    <2>2. t = <<>>
      BY <1>3, <2>1, EmptySeq
    <2> QED
      BY <2>2, ConcatEmptySeq
  <1> QED
    BY <1>4, <1>5, <1>7, <1>8 DEF b

\* A sequence of bytes is a client's number when all of them are.
LEMMA IsNumber ==
    ASSUME NEW s \in Seq(Pipes!Bytes), Len(s) = INT, NEW c, NEW m,
           \A j \in 1 .. INT : s[j] = <<c, m>>
    PROVE  s = Pipes!Number(c, m)
  <1>1. DOMAIN s = 1 .. INT /\ s = [j \in DOMAIN s |-> s[j]]
    BY LenProperties
  <1> QED
    BY <1>1 DEF Pipes!Number

\* A whole number leaves nothing of what the buffer had.
LEMMA NumberOver ==
    ASSUME NEW old \in Seq(Pipes!Bytes), Len(old) <= INT,
           NEW c \in Clients, NEW m \in {"num1", "num2"}
    PROVE  Pipes!Over(old, Pipes!Number(c, m)) = Pipes!Number(c, m)
  <1>1. Pipes!Number(c, m) \in Seq(Pipes!Bytes) /\ Len(Pipes!Number(c, m)) = INT
    BY NumberFacts
  <1>2. Len(Pipes!Number(c, m)) <= INT
    BY <1>1, SamePipeNames
  <1> QED
    BY <1>1, <1>2, OverFacts

LEMMA PipeTypesInit == Pipes!Init => PipeTypes
  <1> SUFFICES ASSUME Pipes!Init PROVE PipeTypes
    OBVIOUS
  <1>1. /\ pipe = <<>> /\ results = <<>> /\ num1 = <<>> /\ num2 = <<>> /\ result = None
        /\ p_server = "open"
        /\ p_client = [c \in Clients |-> "new"] /\ line = [c \in Clients |-> "none"]
        /\ made = [c \in Clients |-> 0] /\ happened = {}
    BY DEF Pipes!Init
  <1>2. /\ pipe \in Seq(Pipes!Bytes) /\ results \in Seq(Clients \cup {None})
        /\ num1 \in Seq(Pipes!Bytes) /\ num2 \in Seq(Pipes!Bytes)
        /\ Len(num1) = 0 /\ Len(num2) = 0
    BY <1>1, EmptySeq
  <1>3. INT \in Nat /\ SUMS \in Nat /\ 0 \in 0 .. SUMS + 1 /\ 0 <= INT /\ 0 <= SUMS
    BY SamePipeNames
  <1>4. Pipes!TypeOK
    BY <1>1, <1>2, <1>3 DEF Pipes!TypeOK
  <1>5. \A c \in Clients : p_client[c] = "new" /\ made[c] <= SUMS
    BY <1>1, <1>3
  <1> QED
    BY <1>4, <1>5 DEF PipeTypes

LEMMA PipeServerTypes == ASSUME PipeTypes, Pipes!ServerStep PROVE PipeTypes'
  <1>1. /\ pipe \in Seq(Pipes!Bytes)
        /\ results \in Seq(Clients \cup {None})
        /\ num1 \in Seq(Pipes!Bytes) /\ Len(num1) <= INT
        /\ num2 \in Seq(Pipes!Bytes) /\ Len(num2) <= INT
        /\ result \in Clients \cup {None}
        /\ p_server \in {"open", "num1", "num2", "op", "answer", "close", "unlink", "ended",
                        "killed"}
        /\ p_client \in [Clients -> {"new", "opening", "stuck", "idle", "sent1", "sent2",
                                     "waiting", "gone"}]
        /\ line \in [Clients -> Pipes!Operators \cup {"exit", "none"}]
        /\ made \in [Clients -> 0 .. SUMS + 1]
        /\ happened \subseteq {"mixed", "overlap", "killed", "bad", "x"}
    BY DEF PipeTypes, Pipes!TypeOK
  <1>2. \A c \in Clients :
          /\ p_client[c] \in {"sent1", "sent2"} => line[c] # "none"
          /\ \/ made[c] <= SUMS \/ p_client[c] = "gone"
             \/ p_client[c] \in {"sent1", "sent2"} /\ line[c] = "exit"
    BY DEF PipeTypes
  <1>3. INT \in Nat /\ INT > 0 /\ 1 \in Nat /\ 1 > 0
    BY SamePipeNames
  \* A read leaves bytes and fills a buffer.
  <1>4. ASSUME NEW n \in Nat, n > 0, Pipes!Take(n)
        PROVE  /\ pipe' \in Seq(Pipes!Bytes)
               /\ Pipes!Got(n) \in Seq(Pipes!Bytes) /\ Len(Pipes!Got(n)) <= n
    <2>1. PICK k \in 1 .. Len(pipe) :
             /\ k = IF n < Len(pipe) THEN n ELSE Len(pipe)
             /\ pipe' = Rest(pipe, k) /\ Pipes!Got(n) \in Seq(Pipes!Bytes)
             /\ Len(Pipes!Got(n)) = k
      BY <1>1, <1>4, ReadFacts
    <2>2. Len(pipe) \in Nat
      BY <1>1, LenProperties
    <2>3. k \in 0 .. Len(pipe) /\ k <= n
      BY <2>1, <2>2
    <2> QED
      BY <1>1, <2>1, <2>3, PlusRest
  <1>5. CASE Pipes!Open
    <2>1. /\ p_server' = "num1"
          /\ p_client' = [c \in Clients |-> IF p_client[c] = "opening" THEN "idle" ELSE p_client[c]]
          /\ UNCHANGED <<pipe, results, num1, num2, result, line, made, happened>>
      BY <1>5 DEF Pipes!Open, Pipes!Serve
    <2>2. Pipes!TypeOK'
      BY <1>1, <2>1 DEF Pipes!TypeOK
    <2>3. \A c \in Clients :
            /\ p_client'[c] \in {"sent1", "sent2", "gone"} <=> p_client[c] \in {"sent1", "sent2", "gone"}
            /\ p_client[c] \in {"sent1", "sent2", "gone"} => p_client'[c] = p_client[c]
      BY <1>1, <2>1
    <2>4. \A c \in Clients :
            /\ p_client'[c] \in {"sent1", "sent2"} => line'[c] # "none"
            /\ \/ made'[c] <= SUMS \/ p_client'[c] = "gone"
               \/ p_client'[c] \in {"sent1", "sent2"} /\ line'[c] = "exit"
      BY <1>2, <2>1, <2>3
    <2> QED
      BY <2>2, <2>4 DEF PipeTypes
  <1>6. CASE Pipes!ReadNum1
    <2>1. /\ p_server' = "num2" /\ Pipes!Take(INT) /\ num1' = Pipes!Over(num1, Pipes!Got(INT))
          /\ UNCHANGED <<results, num2, result, p_client, line, made, happened>>
      BY <1>6 DEF Pipes!ReadNum1, Pipes!Serve, Pipes!clientVars
    <2>2. pipe' \in Seq(Pipes!Bytes) /\ Pipes!Got(INT) \in Seq(Pipes!Bytes) /\ Len(Pipes!Got(INT)) <= INT
      BY <1>3, <1>4, <2>1
    <2>3. num1' \in Seq(Pipes!Bytes) /\ Len(num1') <= INT
      BY <1>1, <2>1, <2>2, OverFacts
    <2> QED
      BY <1>1, <1>2, <2>1, <2>2, <2>3 DEF PipeTypes, Pipes!TypeOK
  <1>7. CASE Pipes!ReadNum2
    <2>1. /\ p_server' = "op" /\ Pipes!Take(INT) /\ num2' = Pipes!Over(num2, Pipes!Got(INT))
          /\ UNCHANGED <<results, num1, result, p_client, line, made, happened>>
      BY <1>7 DEF Pipes!ReadNum2, Pipes!Serve, Pipes!clientVars
    <2>2. pipe' \in Seq(Pipes!Bytes) /\ Pipes!Got(INT) \in Seq(Pipes!Bytes) /\ Len(Pipes!Got(INT)) <= INT
      BY <1>3, <1>4, <2>1
    <2>3. num2' \in Seq(Pipes!Bytes) /\ Len(num2') <= INT
      BY <1>1, <2>1, <2>2, OverFacts
    <2> QED
      BY <1>1, <1>2, <2>1, <2>2, <2>3 DEF PipeTypes, Pipes!TypeOK
  <1>8. CASE Pipes!ReadOperator
    <2>1. PICK o \in Pipes!Meaning(Head(pipe)) :
             /\ Pipes!Serve("op", CASE o = "x" -> "close" [] o = "+" -> "answer" [] o = "bad" -> "num1")
             /\ result' = IF o = "+" THEN Pipes!Sum(Head(pipe)) ELSE result
      BY <1>8 DEF Pipes!ReadOperator
    <2>2. Pipes!Take(1) /\ UNCHANGED <<results, num1, num2, p_client, line, made, happened>>
      BY <1>8 DEF Pipes!ReadOperator, Pipes!clientVars
    <2>3. pipe' \in Seq(Pipes!Bytes)
      BY <1>3, <1>4, <2>2
    <2>4. Head(pipe) \in Pipes!Bytes
      BY <1>1, <2>2, HeadTailProperties DEF Pipes!Take
    <2>5. Head(pipe)[1] \in Clients
      BY <2>4 DEF Pipes!Bytes
    <2>6. o \in Pipes!Operators
      BY <2>1 DEF Pipes!Meaning
    <2>7. p_server' \in {"close", "answer", "num1"}
      BY <2>1, <2>6 DEF Pipes!Operators, Pipes!Serve
    <2>8. result' \in Clients \cup {None}
      BY <1>1, <2>1, <2>5 DEF Pipes!Sum
    <2> QED
      BY <1>1, <1>2, <2>2, <2>3, <2>7, <2>8 DEF PipeTypes, Pipes!TypeOK
  <1>9. CASE Pipes!WriteResult
    <2>1. /\ p_server' = "num1" /\ results' = Append(results, result)
          /\ UNCHANGED <<pipe, num1, num2, result, p_client, line, made, happened>>
      BY <1>9 DEF Pipes!WriteResult, Pipes!Serve, Pipes!clientVars
    <2>2. results' \in Seq(Clients \cup {None})
      BY <1>1, <2>1, AppendProperties
    <2> QED
      BY <1>1, <1>2, <2>1, <2>2 DEF PipeTypes, Pipes!TypeOK
  <1>10. CASE Pipes!End
    <2>1. /\ p_server' \in {"unlink", "ended"}
          /\ UNCHANGED <<pipe, results, num1, num2, result, p_client, line, made, happened>>
      BY <1>10 DEF Pipes!End, Pipes!Serve, Pipes!clientVars
    <2> QED
      BY <1>1, <1>2, <2>1 DEF PipeTypes, Pipes!TypeOK
  <1>11. CASE Pipes!WriteToNobody
    <2>1. /\ p_server' = "killed" /\ pipe' = <<>> /\ results' = <<>>
          /\ UNCHANGED <<num1, num2, result, p_client, line, made, happened>>
      BY <1>11 DEF Pipes!WriteToNobody, Pipes!Serve, Pipes!clientVars
    <2>2. pipe' \in Seq(Pipes!Bytes) /\ results' \in Seq(Clients \cup {None})
      BY <2>1, EmptySeq
    <2> QED
      BY <1>1, <1>2, <2>1, <2>2 DEF PipeTypes, Pipes!TypeOK
  <1> QED
    BY <1>5, <1>6, <1>7, <1>8, <1>9, <1>10, <1>11 DEF Pipes!ServerStep

\* What the steps of a client do to its state.
LEMMA PipeClientStep ==
    ASSUME NEW c \in Clients, Pipes!ClientStep(c)
    PROVE  \/ Pipes!Start(c) \/ Pipes!WriteNum1(c) \/ Pipes!WriteNum2(c)
           \/ Pipes!WriteOperator(c) \/ Pipes!ReadResult(c) \/ Pipes!Kill(c)
  BY DEF Pipes!ClientStep, Pipes!Begin, Pipes!GoOn

\* A client that is killed is gone, and nobody else notices at once.
LEMMA Killed ==
    ASSUME PipeTypes, NEW c \in Clients, Pipes!Kill(c)
    PROVE  /\ \A b \in Clients : /\ p_client'[b] = IF b = c THEN "gone" ELSE p_client[b]
                                 /\ line'[b] = IF b = c THEN "none" ELSE line[b]
           /\ UNCHANGED <<pipe, results, num1, num2, result, p_server, made>>
           /\ "mixed" \notin happened' =>
                 /\ "mixed" \notin happened /\ happened \subseteq happened'
                 /\ p_client[c] \notin {"sent1", "sent2"}
                 /\ p_client[c] = "waiting" => "killed" \in happened'
  <1>1. /\ p_client' = [p_client EXCEPT ![c] = "gone"] /\ line' = [line EXCEPT ![c] = "none"]
        /\ UNCHANGED <<pipe, results, num1, num2, result, p_server, made>>
        /\ happened' = IF c \in Pipes!Writing \/ "mixed" \in happened THEN {"mixed"}
                       ELSE happened \cup (IF c \in Pipes!Waiting THEN {"killed"} ELSE {})
    BY DEF Pipes!Kill
  <1>2. DOMAIN p_client = Clients /\ DOMAIN line = Clients
    BY DEF PipeTypes, Pipes!TypeOK
  <1>3. \A b \in Clients : /\ p_client'[b] = IF b = c THEN "gone" ELSE p_client[b]
                           /\ line'[b] = IF b = c THEN "none" ELSE line[b]
    BY <1>1, <1>2
  <1>4. ASSUME "mixed" \notin happened'
        PROVE  /\ "mixed" \notin happened /\ c \notin Pipes!Writing
               /\ happened' = happened \cup (IF c \in Pipes!Waiting THEN {"killed"} ELSE {})
    BY <1>1, <1>4
  <1>5. /\ c \in Pipes!Writing <=> p_client[c] \in {"sent1", "sent2"}
        /\ c \in Pipes!Waiting <=> p_client[c] = "waiting"
    BY DEF Pipes!Writing, Pipes!Waiting
  <1> QED
    BY <1>1, <1>3, <1>4, <1>5

LEMMA PipeClientTypes ==
    ASSUME PipeTypes, NEW c \in Clients, Pipes!ClientStep(c) PROVE PipeTypes'
  <1>1. /\ pipe \in Seq(Pipes!Bytes)
        /\ results \in Seq(Clients \cup {None})
        /\ num1 \in Seq(Pipes!Bytes) /\ Len(num1) <= INT
        /\ num2 \in Seq(Pipes!Bytes) /\ Len(num2) <= INT
        /\ result \in Clients \cup {None}
        /\ p_server \in {"open", "num1", "num2", "op", "answer", "close", "unlink", "ended",
                        "killed"}
        /\ p_client \in [Clients -> {"new", "opening", "stuck", "idle", "sent1", "sent2",
                                     "waiting", "gone"}]
        /\ line \in [Clients -> Pipes!Operators \cup {"exit", "none"}]
        /\ made \in [Clients -> 0 .. SUMS + 1]
        /\ happened \subseteq {"mixed", "overlap", "killed", "bad", "x"}
    BY DEF PipeTypes, Pipes!TypeOK
  <1>2. \A b \in Clients :
          /\ p_client[b] \in {"sent1", "sent2"} => line[b] # "none"
          /\ \/ made[b] <= SUMS \/ p_client[b] = "gone"
             \/ p_client[b] \in {"sent1", "sent2"} /\ line[b] = "exit"
    BY DEF PipeTypes
  <1>3. /\ num1' = num1 /\ num2' = num2 /\ result' = result /\ p_server' = p_server
    BY DEF Pipes!ClientStep, Pipes!Begin, Pipes!GoOn, Pipes!Kill
  <1>4. CASE Pipes!Start(c)
    <2>1. PICK to \in {"opening", "stuck", "gone", "idle"} :
             p_client[c] = "new" /\ p_client' = [p_client EXCEPT ![c] = to]
      BY <1>4 DEF Pipes!Start, Pipes!Go
    <2>2. UNCHANGED <<pipe, results, line, made, happened>>
      BY <1>4 DEF Pipes!Start
    <2>3. p_client' \in [Clients -> {"new", "opening", "stuck", "idle", "sent1", "sent2",
                                     "waiting", "gone"}]
      BY <1>1, <2>1
    <2>4. \A b \in Clients : p_client'[b] = IF b = c THEN to ELSE p_client[b]
      BY <1>1, <2>1
    <2>5. made[c] <= SUMS
      BY <1>2, <2>1
    <2>6. \A b \in Clients :
            /\ p_client'[b] \in {"sent1", "sent2"} => line'[b] # "none"
            /\ \/ made'[b] <= SUMS \/ p_client'[b] = "gone"
               \/ p_client'[b] \in {"sent1", "sent2"} /\ line'[b] = "exit"
      BY <1>2, <2>1, <2>2, <2>4, <2>5
    <2> QED
      BY <1>1, <1>3, <2>2, <2>3, <2>6 DEF PipeTypes, Pipes!TypeOK
  <1>5. CASE Pipes!WriteNum1(c)
    <2>1. /\ p_client[c] = "idle" /\ p_client' = [p_client EXCEPT ![c] = "sent1"]
          /\ made' = [made EXCEPT ![c] = made[c] + 1] /\ results' = results
          /\ pipe' = pipe \o Pipes!Number(c, "num1")
      BY <1>5 DEF Pipes!WriteNum1, Pipes!Go
    <2>2. PICK o \in {"exit"} \cup IF made[c] < SUMS THEN Pipes!Operators ELSE {} :
             line' = [line EXCEPT ![c] = o] /\ happened' = Pipes!Disturbed(c, o)
      BY <1>5 DEF Pipes!WriteNum1
    <2>3. SUMS \in Nat /\ made[c] \in 0 .. SUMS + 1 /\ made[c] <= SUMS
      BY <1>1, <1>2, <2>1, SamePipeNames
    <2>4. made[c] + 1 \in 0 .. SUMS + 1 /\ (o # "exit" => made[c] + 1 <= SUMS)
      BY <2>2, <2>3
    <2>5. o \in Pipes!Operators \cup {"exit"} /\ o # "none"
      BY <2>2 DEF Pipes!Operators
    <2>6. happened' \subseteq {"mixed", "overlap", "killed", "bad", "x"}
      BY <1>1, <2>2 DEF Pipes!Disturbed
    <2>7. pipe' \in Seq(Pipes!Bytes)
      BY <1>1, <2>1, NumberFacts, ConcatProperties
    <2>8. /\ p_client' \in [Clients -> {"new", "opening", "stuck", "idle", "sent1", "sent2",
                                        "waiting", "gone"}]
          /\ line' \in [Clients -> Pipes!Operators \cup {"exit", "none"}]
          /\ made' \in [Clients -> 0 .. SUMS + 1]
      BY <1>1, <2>1, <2>2, <2>4, <2>5
    <2>9. \A b \in Clients : /\ p_client'[b] = IF b = c THEN "sent1" ELSE p_client[b]
                             /\ line'[b] = IF b = c THEN o ELSE line[b]
                             /\ made'[b] = IF b = c THEN made[c] + 1 ELSE made[b]
      BY <1>1, <2>1, <2>2
    <2>10. \A b \in Clients :
            /\ p_client'[b] \in {"sent1", "sent2"} => line'[b] # "none"
            /\ \/ made'[b] <= SUMS \/ p_client'[b] = "gone"
               \/ p_client'[b] \in {"sent1", "sent2"} /\ line'[b] = "exit"
      BY <1>2, <2>4, <2>5, <2>9
    <2> QED
      BY <1>1, <1>3, <2>1, <2>6, <2>7, <2>8, <2>10 DEF PipeTypes, Pipes!TypeOK
  <1>6. CASE Pipes!WriteNum2(c)
    <2>1. /\ p_client[c] = "sent1" /\ p_client' = [p_client EXCEPT ![c] = "sent2"]
          /\ pipe' = pipe \o Pipes!Number(c, "num2")
          /\ UNCHANGED <<results, line, made, happened>>
      BY <1>6 DEF Pipes!WriteNum2, Pipes!Go
    <2>2. pipe' \in Seq(Pipes!Bytes)
      BY <1>1, <2>1, NumberFacts, ConcatProperties
    <2>3. p_client' \in [Clients -> {"new", "opening", "stuck", "idle", "sent1", "sent2",
                                     "waiting", "gone"}]
      BY <1>1, <2>1
    <2>4. \A b \in Clients : p_client'[b] = IF b = c THEN "sent2" ELSE p_client[b]
      BY <1>1, <2>1
    <2>5. \A b \in Clients :
            /\ p_client'[b] \in {"sent1", "sent2"} => line'[b] # "none"
            /\ \/ made'[b] <= SUMS \/ p_client'[b] = "gone"
               \/ p_client'[b] \in {"sent1", "sent2"} /\ line'[b] = "exit"
      BY <1>2, <2>1, <2>4
    <2> QED
      BY <1>1, <1>3, <2>1, <2>2, <2>3, <2>5 DEF PipeTypes, Pipes!TypeOK
  <1>7. CASE Pipes!WriteOperator(c)
    <2>1. /\ p_client[c] = "sent2"
          /\ p_client' = [p_client EXCEPT ![c] = IF line[c] = "exit" THEN "gone" ELSE "waiting"]
          /\ pipe' = Append(pipe, <<c, IF line[c] = "exit" THEN "x" ELSE line[c]>>)
          /\ line' = [line EXCEPT ![c] = "none"]
          /\ UNCHANGED <<results, made, happened>>
      BY <1>7 DEF Pipes!WriteOperator, Pipes!Go
    <2>2. line[c] \in Pipes!Operators \cup {"exit"}
      BY <1>1, <1>2, <2>1
    <2>3. (IF line[c] = "exit" THEN "x" ELSE line[c]) \in Pipes!Operators
      BY <2>2 DEF Pipes!Operators
    <2>4. pipe' \in Seq(Pipes!Bytes)
      BY <1>1, <2>1, <2>3, AppendProperties DEF Pipes!Bytes
    <2>5. /\ p_client' \in [Clients -> {"new", "opening", "stuck", "idle", "sent1", "sent2",
                                        "waiting", "gone"}]
          /\ line' \in [Clients -> Pipes!Operators \cup {"exit", "none"}]
      BY <1>1, <2>1
    <2>6. \A b \in Clients :
             /\ p_client'[b] = IF b = c THEN IF line[c] = "exit" THEN "gone" ELSE "waiting"
                               ELSE p_client[b]
             /\ line'[b] = IF b = c THEN "none" ELSE line[b]
      BY <1>1, <2>1
    <2>7. \A b \in Clients :
            /\ p_client'[b] \in {"sent1", "sent2"} => line'[b] # "none"
            /\ \/ made'[b] <= SUMS \/ p_client'[b] = "gone"
               \/ p_client'[b] \in {"sent1", "sent2"} /\ line'[b] = "exit"
      BY <1>2, <2>1, <2>6
    <2> QED
      BY <1>1, <1>3, <2>1, <2>4, <2>5, <2>7 DEF PipeTypes, Pipes!TypeOK
  <1>8. CASE Pipes!ReadResult(c)
    <2>1. /\ p_client[c] = "waiting" /\ p_client' = [p_client EXCEPT ![c] = "idle"]
          /\ results' = IF results = <<>> THEN <<>> ELSE Tail(results)
          /\ UNCHANGED <<pipe, line, made, happened>>
      BY <1>8 DEF Pipes!ReadResult, Pipes!Go
    <2>2. results' \in Seq(Clients \cup {None})
      BY <1>1, <2>1, EmptySeq, HeadTailProperties
    <2>3. p_client' \in [Clients -> {"new", "opening", "stuck", "idle", "sent1", "sent2",
                                     "waiting", "gone"}]
      BY <1>1, <2>1
    <2>4. \A b \in Clients : p_client'[b] = IF b = c THEN "idle" ELSE p_client[b]
      BY <1>1, <2>1
    <2>5. \A b \in Clients :
            /\ p_client'[b] \in {"sent1", "sent2"} => line'[b] # "none"
            /\ \/ made'[b] <= SUMS \/ p_client'[b] = "gone"
               \/ p_client'[b] \in {"sent1", "sent2"} /\ line'[b] = "exit"
      BY <1>2, <2>1, <2>4
    <2> QED
      BY <1>1, <1>3, <2>1, <2>2, <2>3, <2>5 DEF PipeTypes, Pipes!TypeOK
  <1>9. CASE Pipes!Kill(c)
    <2>1. /\ p_client' = [p_client EXCEPT ![c] = "gone"] /\ line' = [line EXCEPT ![c] = "none"]
          /\ UNCHANGED <<pipe, results, made>>
          /\ happened' \subseteq happened \cup {"mixed", "killed"}
      BY <1>9 DEF Pipes!Kill
    <2>2. /\ p_client' \in [Clients -> {"new", "opening", "stuck", "idle", "sent1", "sent2",
                                        "waiting", "gone"}]
          /\ line' \in [Clients -> Pipes!Operators \cup {"exit", "none"}]
      BY <1>1, <2>1
    <2>3. \A b \in Clients : /\ p_client'[b] = IF b = c THEN "gone" ELSE p_client[b]
                             /\ line'[b] = IF b = c THEN "none" ELSE line[b]
      BY <1>1, <2>1
    <2>4. \A b \in Clients :
            /\ p_client'[b] \in {"sent1", "sent2"} => line'[b] # "none"
            /\ \/ made'[b] <= SUMS \/ p_client'[b] = "gone"
               \/ p_client'[b] \in {"sent1", "sent2"} /\ line'[b] = "exit"
      BY <1>2, <2>1, <2>3
    <2> QED
      BY <1>1, <1>3, <2>1, <2>2, <2>4 DEF PipeTypes, Pipes!TypeOK
  <1> QED
    BY <1>4, <1>5, <1>6, <1>7, <1>8, <1>9, PipeClientStep

\* How much of a request the server has read.
Offset == IF p_server = "num2" THEN INT ELSE IF p_server = "op" THEN 2 * INT ELSE 0

\* The server reads where a request, or what is left of one, begins, its numbers are
\* those of the request it is at, and a client that writes is the last one in the pipe.
InStep(at, who) ==
    /\ Aligned(pipe, at, who)
    /\ at[1] = Offset
    /\ p_server \in {"num2", "op"} => num1 = Pipes!Number(who[1], "num1")
    /\ p_server = "op" => num2 = Pipes!Number(who[1], "num2")
    /\ \A c \in Clients :
          /\ p_client[c] = "sent1" => at[Len(pipe) + 1] = INT /\ who[Len(pipe) + 1] = c
          /\ p_client[c] = "sent2" => at[Len(pipe) + 1] = 2 * INT /\ who[Len(pipe) + 1] = c
    /\ (\A c \in Clients : p_client[c] \notin {"sent1", "sent2"}) => at[Len(pipe) + 1] = 0

\* At most one client is in the middle of a request.
LEMMA NextByte ==
    ASSUME PipeTypes, NEW at, NEW who, InStep(at, who)
    PROVE  /\ at[Len(pipe) + 1] \in {0, INT, 2 * INT}
           /\ \A b, c \in Clients :
                 p_client[b] \in {"sent1", "sent2"} /\ p_client[c] \in {"sent1", "sent2"} => b = c
  <1>1. CASE \A c \in Clients : p_client[c] \notin {"sent1", "sent2"}
    BY <1>1 DEF InStep
  <1>2. CASE \E c \in Clients : p_client[c] \in {"sent1", "sent2"}
    BY <1>2 DEF InStep
  <1> QED
    BY <1>1, <1>2

LEMMA AlignedTypes ==
    ASSUME NEW s, NEW at, NEW who, Aligned(s, at, who)
    PROVE  \A j \in Nat : at[j] \in Nat /\ at[j] <= 2 * INT /\ who[j] \in 0 .. N
  <1>1. at \in [Nat -> 0 .. 2 * INT] /\ who \in [Nat -> 0 .. N]
    BY DEF Aligned
  <1>2. INT \in Nat
    BY SamePipeNames
  <1>3. \A x \in 0 .. 2 * INT : x \in Nat /\ x <= 2 * INT
    BY <1>2
  <1>4. \A j \in Nat : at[j] \in 0 .. 2 * INT /\ who[j] \in 0 .. N
    BY <1>1
  <1> QED
    BY <1>3, <1>4

\* A read of a number returns the whole number of one client.
LEMMA ReadsNumber ==
    ASSUME PipeTypes, NEW at, NEW who, InStep(at, who), Pipes!Take(INT), NEW m,
           (p_server = "num1" /\ m = "num1") \/ (p_server = "num2" /\ m = "num2")
    PROVE  /\ INT \in 1 .. Len(pipe) /\ who[1] \in Clients
           /\ pipe' = Rest(pipe, INT) /\ pipe' \in Seq(Pipes!Bytes)
           /\ Len(pipe') = Len(pipe) - INT
           /\ Pipes!Got(INT) = Pipes!Number(who[1], m)
           /\ Plus(pipe') = Plus(pipe)
           /\ at[1 + INT] = at[1] + INT /\ who[1 + INT] = who[1]
           /\ \A j \in 1 .. Len(pipe') : pipe'[j] = pipe[j + INT] /\ j + INT \in 1 .. Len(pipe)
  <1> DEFINE w == Len(pipe)
  <1>1. pipe \in Seq(Pipes!Bytes) /\ w \in Nat /\ INT \in Nat /\ INT > 0
    BY SamePipeNames, LenProperties DEF PipeTypes, Pipes!TypeOK
  <1>2. PICK k \in 1 .. w :
           /\ k = IF INT < w THEN INT ELSE w
           /\ pipe' = Rest(pipe, k) /\ Pipes!Got(INT) \in Seq(Pipes!Bytes)
           /\ Len(Pipes!Got(INT)) = k
           /\ \A j \in 1 .. k : Pipes!Got(INT)[j] = pipe[j]
    BY <1>1, ReadFacts
  <1>3. /\ \A j, i \in 1 .. w + 1 :
              j <= i /\ at[j] + (i - j) <= 2 * INT => at[i] = at[j] + (i - j) /\ who[i] = who[j]
        /\ \A j \in 1 .. w :
              /\ pipe[j][1] = who[j]
              /\ at[j] < INT => pipe[j][2] = "num1"
              /\ at[j] >= INT /\ at[j] < 2 * INT => pipe[j][2] = "num2"
    BY DEF InStep, Aligned
  <1>4. at[1] = (IF m = "num1" THEN 0 ELSE INT) /\ m \in {"num1", "num2"}
    BY DEF InStep, Offset
  <1>5. at[w + 1] \in {0, INT, 2 * INT}
    BY NextByte
  <1>6. \A j \in 1 .. w : pipe[j] \in Pipes!Bytes
    BY <1>1, ElementOfSeq
  <1> HIDE DEF w
  <1>7. w >= INT
    <2> SUFFICES ASSUME w < INT PROVE FALSE
      BY <1>1
    <2>1. /\ 1 \in 1 .. w + 1 /\ w + 1 \in 1 .. w + 1 /\ 1 <= w + 1 /\ (w + 1) - 1 = w /\ w > 0
      BY <1>1, <1>2
    <2>2. at[1] + ((w + 1) - 1) <= 2 * INT
      BY <1>1, <1>4, <2>1
    <2>3. at[w + 1] = at[1] + w
      BY <1>3, <2>1, <2>2
    <2> QED
      BY <1>1, <1>4, <1>5, <2>1, <2>3
  <1>8. k = INT /\ INT \in 1 .. w
    BY <1>1, <1>2, <1>7
  <1>9. \A j \in 1 .. INT + 1 : at[j] = at[1] + (j - 1) /\ who[j] = who[1]
    <2> TAKE j \in 1 .. INT + 1
    <2>1. 1 \in 1 .. w + 1 /\ j \in 1 .. w + 1 /\ 1 <= j /\ j - 1 <= INT
      BY <1>1, <1>7
    <2>2. at[1] + (j - 1) <= 2 * INT
      BY <1>1, <1>4, <2>1
    <2> QED
      BY <1>3, <2>1, <2>2
  <1>10. \A j \in 1 .. INT : pipe[j] = <<who[1], m>> /\ pipe[j][2] = m
    <2> TAKE j \in 1 .. INT
    <2>1. j \in 1 .. w /\ j \in 1 .. INT + 1 /\ j - 1 < INT /\ j - 1 \in Nat
      BY <1>1, <1>7
    <2>2. at[j] = at[1] + (j - 1) /\ who[j] = who[1]
      BY <1>9, <2>1
    <2>3. at[j] < INT \/ (m = "num2" /\ at[j] >= INT /\ at[j] < 2 * INT)
      BY <1>1, <1>4, <2>1, <2>2
    <2>4. at[1] = INT => ~ (at[j] < INT)
      BY <1>1, <2>1, <2>2
    <2>5. pipe[j][1] = who[1] /\ pipe[j][2] = m
      BY <1>3, <1>4, <2>1, <2>2, <2>3, <2>4
    <2>6. pipe[j] \in Pipes!Bytes
      BY <1>6, <2>1
    <2>7. pipe[j] = <<pipe[j][1], pipe[j][2]>>
      BY <2>6 DEF Pipes!Bytes
    <2> QED
      BY <2>5, <2>7
  <1>11. Pipes!Got(INT) = Pipes!Number(who[1], m)
    BY <1>2, <1>8, <1>10, IsNumber
  <1>12. who[1] \in Clients
    <2>1. 1 \in 1 .. INT /\ 1 \in 1 .. w
      BY <1>1, <1>8
    <2>2. pipe[1] \in Pipes!Bytes /\ pipe[1] = <<who[1], m>>
      BY <1>6, <1>10, <2>1
    <2> QED
      BY <2>2 DEF Pipes!Bytes
  <1>13. at[1 + INT] = at[1] + INT /\ who[1 + INT] = who[1]
    <2>1. INT + 1 \in 1 .. INT + 1 /\ INT + 1 = 1 + INT /\ (INT + 1) - 1 = INT
      BY <1>1
    <2> QED
      BY <1>9, <2>1
  <1>14. INT \in 0 .. w /\ \A j \in 1 .. INT : pipe[j][2] # "+"
    <2>1. m # "+"
      BY <1>4
    <2> QED
      BY <1>1, <1>7, <1>10, <2>1
  <1>15. /\ Plus(Rest(pipe, INT)) = Plus(pipe)
         /\ Rest(pipe, INT) \in Seq(Pipes!Bytes) /\ Len(Rest(pipe, INT)) = w - INT
         /\ \A j \in 1 .. w - INT : Rest(pipe, INT)[j] = pipe[j + INT]
    BY <1>1, <1>14, PlusRest DEF w
  <1>16. \A j \in 1 .. w - INT : j + INT \in 1 .. w
    BY <1>1, <1>7
  <1> QED
    BY <1>2, <1>8, <1>11, <1>12, <1>13, <1>15, <1>16 DEF w

\* What is due to the clients: the results there are and those the server has still to
\* write.
Owed == Len(results) + Plus(pipe) + (IF p_server = "answer" THEN 1 ELSE 0)
AllWaiting == {c \in Clients : p_client[c] = "waiting"}

ResultsDue ==
    /\ \A j \in 1 .. Len(results) : results[j] # None
    /\ p_server = "answer" => result # None
    /\ p_server \notin {"unlink", "ended"} =>
          /\ "killed" \notin happened => Owed <= Cardinality(AllWaiting)
          /\ happened \cap {"bad", "x"} = {} => Cardinality(AllWaiting) <= Owed
    /\ \A c \in Clients : p_client[c] \in {"sent1", "sent2"} /\ line[c] \in {"bad", "x"}
                              => line[c] \in happened

\* As long as requests do not overlap and nobody is killed while he waits, one client at
\* a time has begun one, and what is underway is for it.
Apart == happened \cap {"overlap", "killed"} = {}
Begun(c) == p_client[c] \in {"sent1", "sent2", "waiting"}
OneAtATime ==
    /\ Len(results) <= 1
    /\ \A j \in 1 .. Len(results) : p_client[results[j]] = "waiting"
    /\ \A b, c \in Clients : Begun(b) /\ Begun(c) => b = c
    /\ p_server \notin {"unlink", "ended"} =>
          /\ p_server = "answer" => p_client[result] = "waiting"
          /\ \A j \in 1 .. Len(pipe) : pipe[j][2] = "+" => p_client[pipe[j][1]] = "waiting"

PipeInv ==
    /\ PipeTypes
    /\ "mixed" \notin happened =>
          /\ \E at, who : InStep(at, who)
          /\ ResultsDue
          /\ Apart => OneAtATime

\* A read of an operator returns the one of the request whose numbers were read.
LEMMA ReadsOperator ==
    ASSUME PipeTypes, NEW at, NEW who, InStep(at, who), Pipes!ReadOperator
    PROVE  \E o \in Pipes!Operators :
               /\ p_server = "op"
               /\ p_server' = IF o = "x" THEN "close" ELSE IF o = "+" THEN "answer" ELSE "num1"
               /\ result' = IF o = "+" THEN who[1] ELSE result
               /\ who[1] \in Clients
               /\ pipe[1] = <<who[1], o>> /\ 1 \in 1 .. Len(pipe)
               /\ pipe' = Rest(pipe, 1) /\ pipe' \in Seq(Pipes!Bytes)
               /\ Len(pipe') = Len(pipe) - 1
               /\ Plus(pipe') = Plus(pipe) - (IF o = "+" THEN 1 ELSE 0)
               /\ at[2] = 0
               /\ \A j \in 1 .. Len(pipe') : pipe'[j] = pipe[j + 1] /\ j + 1 \in 1 .. Len(pipe)
  <1> DEFINE w == Len(pipe)
  <1>1. pipe \in Seq(Pipes!Bytes) /\ w \in Nat /\ INT \in Nat /\ INT > 0
    BY SamePipeNames, LenProperties DEF PipeTypes, Pipes!TypeOK
  <1>2. Pipes!Take(1) /\ p_server = "op"
    BY DEF Pipes!ReadOperator, Pipes!Serve
  <1>3. PICK k \in 1 .. w :
           /\ k = IF 1 < w THEN 1 ELSE w
           /\ pipe' = Rest(pipe, k)
    BY <1>1, <1>2, ReadFacts
  <1>4. k = 1 /\ 1 \in 1 .. w
    <2> HIDE DEF w
    <2> QED
      BY <1>1, <1>3
  <1>5. pipe[1] \in Pipes!Bytes /\ Head(pipe) = pipe[1]
    <2>1. pipe # <<>>
      BY <1>2 DEF Pipes!Take
    <2> QED
      BY <1>1, <1>4, <2>1, ElementOfSeq, HeadTailProperties
  <1>6. at[1] = 2 * INT /\ num1 = Pipes!Number(who[1], "num1") /\ num2 = Pipes!Number(who[1], "num2")
    BY <1>2 DEF InStep, Offset
  <1>7. at[2] = 0 /\ pipe[1][1] = who[1] /\ pipe[1][2] \in Pipes!Operators
    <2>1. 1 + 1 = 2
      OBVIOUS
    <2> QED
      BY <1>4, <1>6, <2>1 DEF InStep, Aligned
  <1> DEFINE o == pipe[1][2]
  <1>8. pipe[1] = <<who[1], o>> /\ who[1] \in Clients /\ o \in Pipes!Operators
    BY <1>5, <1>7 DEF Pipes!Bytes
  <1>9. PICK u \in Pipes!Meaning(Head(pipe)) :
           /\ Pipes!Serve("op", CASE u = "x" -> "close" [] u = "+" -> "answer" [] u = "bad" -> "num1")
           /\ result' = IF u = "+" THEN Pipes!Sum(Head(pipe)) ELSE result
    BY DEF Pipes!ReadOperator
  <1>10. u = o
    BY <1>5, <1>8, <1>9 DEF Pipes!Meaning
  <1>11. o = "+" => Pipes!Sum(Head(pipe)) = who[1]
    BY <1>5, <1>6, <1>7 DEF Pipes!Sum
  <1>12. p_server' = CASE o = "x" -> "close" [] o = "+" -> "answer" [] o = "bad" -> "num1"
    BY <1>9, <1>10 DEF Pipes!Serve
  <1> HIDE DEF o
  <1>13. p_server' = IF o = "x" THEN "close" ELSE IF o = "+" THEN "answer" ELSE "num1"
    BY <1>8, <1>12 DEF Pipes!Operators
  <1>14. result' = IF o = "+" THEN who[1] ELSE result
    BY <1>9, <1>10, <1>11
  <1> HIDE DEF w
  <1>15. 1 \in 0 .. w
    BY <1>1, <1>4
  <1>16. /\ (\A j \in 1 .. 1 : pipe[j][2] # "+") => Plus(Rest(pipe, 1)) = Plus(pipe)
         /\ pipe[1][2] = "+" => Plus(Rest(pipe, 1)) = Plus(pipe) - 1
         /\ Rest(pipe, 1) \in Seq(Pipes!Bytes) /\ Len(Rest(pipe, 1)) = w - 1
         /\ \A j \in 1 .. w - 1 : Rest(pipe, 1)[j] = pipe[j + 1]
    BY <1>1, <1>15, PlusRest DEF w
  <1>17. Plus(Rest(pipe, 1)) = Plus(pipe) - (IF o = "+" THEN 1 ELSE 0)
    <2>1. Plus(pipe) \in Nat
      BY <1>1, PlusIsFinite
    <2>2. CASE o = "+"
      BY <1>16, <2>1, <2>2 DEF o
    <2>3. CASE o # "+"
      <3>1. \A j \in 1 .. 1 : pipe[j][2] # "+"
        BY <2>3 DEF o
      <3> QED
        BY <1>16, <2>1, <2>3, <3>1
    <2> QED
      BY <2>2, <2>3
  <1>18. \A j \in 1 .. w - 1 : j + 1 \in 1 .. w
    BY <1>1
  <1> QED
    BY <1>2, <1>3, <1>4, <1>7, <1>8, <1>13, <1>14, <1>16, <1>17, <1>18 DEF w

\* An empty pipe begins with a request.
LEMMA AlignedEmpty ==
    LET zero == [j \in Nat |-> 0] IN Aligned(<<>>, zero, zero) /\ zero[1] = 0
  <1> DEFINE zero == [j \in Nat |-> 0]
  <1>1. INT \in Nat /\ INT > 0 /\ N \in Nat
    BY SamePipeNames
  <1>2. zero \in [Nat -> 0 .. 2 * INT] /\ zero \in [Nat -> 0 .. N] /\ zero[1] = 0
    BY <1>1
  <1>3. /\ \A j \in 1 .. Len(<<>>) + 1 : j = 1
        /\ \A j \in 1 .. Len(<<>>) : FALSE
    OBVIOUS
  <1> HIDE DEF zero
  <1>4. ASSUME NEW j \in 1 .. Len(<<>>) + 1, NEW k \in 1 .. Len(<<>>) + 1
        PROVE  zero[k] = zero[j] + (k - j) /\ zero[k] = zero[j]
    <2>1. j = 1 /\ k = 1
      BY <1>3
    <2> QED
      BY <1>2, <2>1
  <1>5. Aligned(<<>>, zero, zero)
    BY <1>2, <1>3, <1>4 DEF Aligned
  <1> QED
    BY <1>2, <1>5 DEF zero

LEMMA PipeServerInStep ==
    ASSUME PipeTypes, NEW at, NEW who, InStep(at, who), Pipes!ServerStep
    PROVE  \E at2, who2 : InStep(at2, who2)'
  <1>1. pipe \in Seq(Pipes!Bytes) /\ Len(pipe) \in Nat /\ INT \in Nat /\ INT > 0
    BY SamePipeNames, LenProperties DEF PipeTypes, Pipes!TypeOK
  <1>2. /\ Aligned(pipe, at, who)
        /\ at[1] = Offset
        /\ p_server \in {"num2", "op"} => num1 = Pipes!Number(who[1], "num1")
        /\ p_server = "op" => num2 = Pipes!Number(who[1], "num2")
        /\ \A c \in Clients :
              /\ p_client[c] = "sent1" => at[Len(pipe) + 1] = INT /\ who[Len(pipe) + 1] = c
              /\ p_client[c] = "sent2" => at[Len(pipe) + 1] = 2 * INT /\ who[Len(pipe) + 1] = c
        /\ (\A c \in Clients : p_client[c] \notin {"sent1", "sent2"}) => at[Len(pipe) + 1] = 0
    BY DEF InStep
  \* What is read leaves the rest in step.
  <1>3. ASSUME NEW k \in 0 .. Len(pipe), pipe' = Rest(pipe, k), p_client' = p_client,
               at[1 + k] = Offset',
               p_server' \in {"num2", "op"} => num1' = Pipes!Number(who[1 + k], "num1"),
               p_server' = "op" => num2' = Pipes!Number(who[1 + k], "num2")
        PROVE  \E at2, who2 : InStep(at2, who2)'
    <2> DEFINE at2 == [j \in Nat |-> at[j + k]]
               who2 == [j \in Nat |-> who[j + k]]
    <2>1. Aligned(pipe', at2, who2)
      <3>1. at2 \in [Nat -> 0 .. 2 * INT] /\ who2 \in [Nat -> 0 .. N]
        <4>1. at \in [Nat -> 0 .. 2 * INT] /\ who \in [Nat -> 0 .. N]
          BY DEF InStep, Aligned
        <4>2. k \in Nat
          BY <1>1
        <4>3. \A j \in Nat : j + k \in Nat
          BY <4>2
        <4>4. \A j \in Nat : at[j + k] \in 0 .. 2 * INT /\ who[j + k] \in 0 .. N
          BY <4>1, <4>3
        <4> QED
          BY <4>4
      <3>2. Behind(k, at, who, at2, who2)
        BY <3>1 DEF Behind
      <3>3. pipe \in Seq(Pipes!Bytes) /\ Aligned(pipe, at, who)
        BY <1>1, <1>2
      <3> HIDE DEF at2, who2
      <3>4. Aligned(Rest(pipe, k), at2, who2)
        BY <3>2, <3>3, AlignedRest
      <3> QED
        BY <1>3, <3>4
    <2>2. k \in Nat /\ Len(pipe') = Len(pipe) - k
      BY <1>1, <1>3, PlusRest
    <2>3. Len(pipe') + 1 \in Nat /\ (Len(pipe') + 1) + k = Len(pipe) + 1
      BY <1>1, <2>2
    <2>4. at2[1] = at[1 + k] /\ who2[1] = who[1 + k]
      OBVIOUS
    <2>5. at2[Len(pipe') + 1] = at[Len(pipe) + 1] /\ who2[Len(pipe') + 1] = who[Len(pipe) + 1]
      BY <2>3
    <2> HIDE DEF at2, who2
    <2>6. InStep(at2, who2)'
      BY <1>2, <1>3, <2>1, <2>4, <2>5 DEF InStep
    <2> QED
      BY <2>6
  \* Other steps move neither the pipe nor who writes.
  <1>4. ASSUME pipe' = pipe, p_server' \notin {"num2", "op"}, p_server \notin {"num2", "op"},
               \A c \in Clients : p_client'[c] \in {"sent1", "sent2"} <=> p_client[c] \in {"sent1", "sent2"},
               \A c \in Clients : p_client[c] \in {"sent1", "sent2"} => p_client'[c] = p_client[c]
        PROVE  \E at2, who2 : InStep(at2, who2)'
    <2>1. at[1] = Offset'
      BY <1>2, <1>4 DEF Offset
    <2>2. \A c \in Clients :
              /\ p_client'[c] = "sent1" => at[Len(pipe) + 1] = INT /\ who[Len(pipe) + 1] = c
              /\ p_client'[c] = "sent2" => at[Len(pipe) + 1] = 2 * INT /\ who[Len(pipe) + 1] = c
      BY <1>2, <1>4
    <2>3. (\A c \in Clients : p_client'[c] \notin {"sent1", "sent2"}) => at[Len(pipe) + 1] = 0
      BY <1>2, <1>4
    <2>4. Aligned(pipe', at, who)
      BY <1>2, <1>4
    <2>5. InStep(at, who)'
      BY <1>4, <2>1, <2>2, <2>3, <2>4 DEF InStep
    <2> QED
      BY <2>5
  <1>5. CASE Pipes!Open
    <2>1. /\ p_server = "open" /\ p_server' = "num1" /\ pipe' = pipe
          /\ p_client' = [c \in Clients |-> IF p_client[c] = "opening" THEN "idle" ELSE p_client[c]]
      BY <1>5 DEF Pipes!Open, Pipes!Serve
    <2>2. \A c \in Clients : /\ p_client'[c] \in {"sent1", "sent2"} <=> p_client[c] \in {"sent1", "sent2"}
                             /\ p_client[c] \in {"sent1", "sent2"} => p_client'[c] = p_client[c]
      BY <2>1
    <2> QED
      BY <1>4, <2>1, <2>2
  <1>6. CASE Pipes!ReadNum1
    <2>1. /\ p_server = "num1" /\ p_server' = "num2" /\ Pipes!Take(INT)
          /\ num1' = Pipes!Over(num1, Pipes!Got(INT)) /\ p_client' = p_client
      BY <1>6 DEF Pipes!ReadNum1, Pipes!Serve, Pipes!clientVars
    <2>2. /\ INT \in 1 .. Len(pipe) /\ who[1] \in Clients
          /\ pipe' = Rest(pipe, INT)
          /\ Pipes!Got(INT) = Pipes!Number(who[1], "num1")
          /\ at[1 + INT] = at[1] + INT /\ who[1 + INT] = who[1]
      BY <2>1, ReadsNumber
    <2>3. num1' = Pipes!Number(who[1], "num1")
      <3>1. num1 \in Seq(Pipes!Bytes) /\ Len(num1) <= INT
        BY DEF PipeTypes, Pipes!TypeOK
      <3>2. Pipes!Over(num1, Pipes!Number(who[1], "num1")) = Pipes!Number(who[1], "num1")
        BY <2>2, <3>1, NumberOver
      <3> QED
        BY <2>1, <2>2, <3>2
    <2>4. at[1] = 0 /\ Offset' = INT /\ 0 + INT = INT /\ INT \in 0 .. Len(pipe)
      BY <1>1, <1>2, <2>1, <2>2 DEF Offset
    <2> QED
      BY <1>3, <2>1, <2>2, <2>3, <2>4
  <1>7. CASE Pipes!ReadNum2
    <2>1. /\ p_server = "num2" /\ p_server' = "op" /\ Pipes!Take(INT) /\ num1' = num1
          /\ num2' = Pipes!Over(num2, Pipes!Got(INT)) /\ p_client' = p_client
      BY <1>7 DEF Pipes!ReadNum2, Pipes!Serve, Pipes!clientVars
    <2>2. /\ INT \in 1 .. Len(pipe) /\ who[1] \in Clients
          /\ pipe' = Rest(pipe, INT)
          /\ Pipes!Got(INT) = Pipes!Number(who[1], "num2")
          /\ at[1 + INT] = at[1] + INT /\ who[1 + INT] = who[1]
      BY <2>1, ReadsNumber
    <2>3. num2' = Pipes!Number(who[1], "num2")
      <3>1. num2 \in Seq(Pipes!Bytes) /\ Len(num2) <= INT
        BY DEF PipeTypes, Pipes!TypeOK
      <3>2. Pipes!Over(num2, Pipes!Number(who[1], "num2")) = Pipes!Number(who[1], "num2")
        BY <2>2, <3>1, NumberOver
      <3> QED
        BY <2>1, <2>2, <3>2
    <2>4. at[1] = INT /\ Offset' = 2 * INT /\ INT + INT = 2 * INT /\ INT \in 0 .. Len(pipe)
      BY <1>1, <1>2, <2>1, <2>2 DEF Offset
    <2>5. num1' = Pipes!Number(who[1 + INT], "num1")
      BY <1>2, <2>1, <2>2
    <2> QED
      BY <1>3, <2>1, <2>2, <2>3, <2>4, <2>5
  <1>8. CASE Pipes!ReadOperator
    <2>1. /\ p_server' \in {"close", "answer", "num1"}
          /\ 1 \in 1 .. Len(pipe) /\ pipe' = Rest(pipe, 1) /\ at[2] = 0
      BY <1>8, ReadsOperator
    <2>2. p_client' = p_client
      BY <1>8 DEF Pipes!ReadOperator, Pipes!clientVars
    <2>3. Offset' = 0 /\ 1 \in 0 .. Len(pipe) /\ 1 + 1 = 2
      BY <1>1, <2>1 DEF Offset
    <2>4. at[1 + 1] = Offset'
      BY <2>1, <2>3
    <2> QED
      BY <1>3, <2>1, <2>2, <2>3, <2>4
  <1>9. CASE Pipes!WriteResult
    <2>1. p_server = "answer" /\ p_server' = "num1" /\ pipe' = pipe /\ p_client' = p_client
      BY <1>9 DEF Pipes!WriteResult, Pipes!Serve, Pipes!clientVars
    <2> QED
      BY <1>4, <2>1
  <1>10. CASE Pipes!End
    <2>1. /\ p_server \in {"close", "unlink"} /\ p_server' \in {"unlink", "ended"}
          /\ pipe' = pipe /\ p_client' = p_client
      BY <1>10 DEF Pipes!End, Pipes!Serve, Pipes!clientVars
    <2> QED
      BY <1>4, <2>1
  <1>11. CASE Pipes!WriteToNobody
    <2>1. /\ \A c \in Clients : p_client[c] \notin {"idle", "sent1", "sent2", "waiting"}
          /\ p_server' = "killed" /\ pipe' = <<>> /\ p_client' = p_client
      BY <1>11 DEF Pipes!WriteToNobody, Pipes!Readers, Pipes!Serve, Pipes!clientVars
    <2> DEFINE zero == [j \in Nat |-> 0]
    <2>2. Aligned(pipe', zero, zero) /\ zero[1] = 0
      BY <2>1, AlignedEmpty
    <2>3. Offset' = 0 /\ Len(pipe') + 1 = 1
      BY <2>1, EmptySeq DEF Offset
    <2> HIDE DEF zero
    <2>4. InStep(zero, zero)'
      BY <2>1, <2>2, <2>3 DEF InStep
    <2> QED
      BY <2>4
  <1> QED
    BY <1>5, <1>6, <1>7, <1>8, <1>9, <1>10, <1>11 DEF Pipes!ServerStep

LEMMA PipeServerResults ==
    ASSUME PipeTypes, NEW at, NEW who, InStep(at, who), ResultsDue, Pipes!ServerStep
    PROVE  ResultsDue'
  <1>1. /\ results \in Seq(Clients \cup {None}) /\ Len(results) \in Nat
        /\ Plus(pipe) \in Nat /\ None \notin Clients /\ 0 \in Nat
    BY SamePipeNames, LenProperties, PlusIsFinite DEF PipeTypes, Pipes!TypeOK
  <1>2. /\ \A j \in 1 .. Len(results) : results[j] # None
        /\ p_server = "answer" => result # None
        /\ p_server \notin {"unlink", "ended"} =>
              /\ "killed" \notin happened => Owed <= Cardinality(AllWaiting)
              /\ happened \cap {"bad", "x"} = {} => Cardinality(AllWaiting) <= Owed
        /\ \A c \in Clients : p_client[c] \in {"sent1", "sent2"} /\ line[c] \in {"bad", "x"}
                                  => line[c] \in happened
    BY DEF ResultsDue
  \* Steps that keep what is owed.
  <1>3. ASSUME AllWaiting' = AllWaiting,
               p_server' \notin {"unlink", "ended"} => p_server \notin {"unlink", "ended"} /\ Owed' = Owed,
               \A j \in 1 .. Len(results') : results'[j] # None,
               p_server' = "answer" => result' # None,
               \A c \in Clients : p_client'[c] \in {"sent1", "sent2"} => p_client[c] \in {"sent1", "sent2"},
               line' = line, happened' = happened
        PROVE  ResultsDue'
    BY <1>2, <1>3 DEF ResultsDue
  <1>4. CASE Pipes!Open
    <2>1. /\ p_server = "open" /\ p_server' = "num1"
          /\ p_client' = [c \in Clients |-> IF p_client[c] = "opening" THEN "idle" ELSE p_client[c]]
          /\ pipe' = pipe /\ results' = results /\ line' = line /\ happened' = happened
      BY <1>4 DEF Pipes!Open, Pipes!Serve
    <2>2. AllWaiting' = AllWaiting /\ Owed' = Owed
      BY <2>1 DEF AllWaiting, Owed
    <2>3. \A c \in Clients : p_client'[c] \in {"sent1", "sent2"} => p_client[c] \in {"sent1", "sent2"}
      BY <2>1
    <2> QED
      BY <1>2, <1>3, <2>1, <2>2, <2>3
  <1>5. ASSUME NEW m, Pipes!Take(INT),
               (p_server = "num1" /\ m = "num1") \/ (p_server = "num2" /\ m = "num2"),
               p_server' \in {"num2", "op"},
               UNCHANGED <<results, result, p_client, line, happened>>
        PROVE  ResultsDue'
    <2>1. Plus(pipe') = Plus(pipe)
      BY <1>5, ReadsNumber
    <2>2. AllWaiting' = AllWaiting /\ Owed' = Owed
      BY <1>5, <2>1 DEF AllWaiting, Owed
    <2> QED
      BY <1>2, <1>3, <1>5, <2>2
  <1>6. CASE Pipes!ReadNum1
    <2>1. /\ p_server = "num1" /\ p_server' \in {"num2", "op"} /\ Pipes!Take(INT)
          /\ UNCHANGED <<results, result, p_client, line, happened>>
      BY <1>6 DEF Pipes!ReadNum1, Pipes!Serve, Pipes!clientVars
    <2> QED
      BY <1>5, <2>1
  <1>7. CASE Pipes!ReadNum2
    <2>1. /\ p_server = "num2" /\ p_server' \in {"num2", "op"} /\ Pipes!Take(INT)
          /\ UNCHANGED <<results, result, p_client, line, happened>>
      BY <1>7 DEF Pipes!ReadNum2, Pipes!Serve, Pipes!clientVars
    <2> QED
      BY <1>5, <2>1
  <1>8. CASE Pipes!ReadOperator
    <2>1. PICK o \in Pipes!Operators :
             /\ p_server = "op"
             /\ p_server' = IF o = "x" THEN "close" ELSE IF o = "+" THEN "answer" ELSE "num1"
             /\ result' = IF o = "+" THEN who[1] ELSE result
             /\ who[1] \in Clients
             /\ Plus(pipe') = Plus(pipe) - (IF o = "+" THEN 1 ELSE 0)
      BY <1>8, ReadsOperator
    <2>2. UNCHANGED <<results, p_client, line, happened>>
      BY <1>8 DEF Pipes!ReadOperator, Pipes!clientVars
    <2>3. AllWaiting' = AllWaiting
      BY <2>2 DEF AllWaiting
    <2>4. Owed' = Owed
      <3>1. Owed' = Len(results) + Plus(pipe') + (IF p_server' = "answer" THEN 1 ELSE 0)
        BY <2>2 DEF Owed
      <3>2. Owed = Len(results) + Plus(pipe) + 0
        BY <2>1 DEF Owed
      <3>3. CASE o = "+"
        <4>1. p_server' = "answer" /\ Plus(pipe') = Plus(pipe) - 1
          BY <2>1, <3>3
        <4> QED
          BY <1>1, <3>1, <3>2, <4>1
      <3>4. CASE o # "+"
        <4>1. p_server' # "answer" /\ Plus(pipe') = Plus(pipe) - 0
          BY <2>1, <3>4
        <4> QED
          BY <1>1, <3>1, <3>2, <4>1
      <3> QED
        BY <3>3, <3>4
    <2>5. p_server' = "answer" => result' # None
      BY <1>1, <2>1
    <2> QED
      BY <1>2, <1>3, <2>1, <2>2, <2>3, <2>4, <2>5
  <1>9. CASE Pipes!WriteResult
    <2>1. /\ p_server = "answer" /\ p_server' = "num1" /\ results' = Append(results, result)
          /\ UNCHANGED <<pipe, p_client, line, happened>>
      BY <1>9 DEF Pipes!WriteResult, Pipes!Serve, Pipes!clientVars
    <2>2. result \in Clients \cup {None}
      BY DEF PipeTypes, Pipes!TypeOK
    <2>3. /\ Len(results') = Len(results) + 1
          /\ \A j \in 1 .. Len(results) : results'[j] = results[j]
          /\ results'[Len(results) + 1] = result
      BY <1>1, <2>1, <2>2, AppendProperties
    <2>4. \A j \in 1 .. Len(results') : results'[j] # None
      <3> DEFINE w == Len(results)
      <3> SUFFICES ASSUME NEW j \in 1 .. Len(results') PROVE results'[j] # None
        OBVIOUS
      <3>1. j \in 1 .. w \/ j = w + 1
        <4>1. w \in Nat /\ j \in 1 .. w + 1
          BY <1>1, <2>3
        <4> HIDE DEF w
        <4> QED
          BY <4>1
      <3> QED
        BY <1>2, <2>1, <2>3, <3>1
    <2>5. AllWaiting' = AllWaiting
      BY <2>1 DEF AllWaiting
    <2>6. Owed' = Owed
      <3>1. Owed' = (Len(results) + 1) + Plus(pipe) + 0
        BY <2>1, <2>3 DEF Owed
      <3>2. Owed = Len(results) + Plus(pipe) + 1
        BY <2>1 DEF Owed
      <3> QED
        BY <1>1, <3>1, <3>2
    <2> QED
      BY <1>2, <1>3, <2>1, <2>4, <2>5, <2>6
  <1>10. CASE Pipes!End
    <2>1. /\ p_server' \in {"unlink", "ended"}
          /\ UNCHANGED <<pipe, results, result, p_client, line, happened>>
      BY <1>10 DEF Pipes!End, Pipes!Serve, Pipes!clientVars
    <2>2. AllWaiting' = AllWaiting
      BY <2>1 DEF AllWaiting
    <2> QED
      BY <1>2, <1>3, <2>1, <2>2
  <1>11. CASE Pipes!WriteToNobody
    <2>1. /\ \A c \in Clients : p_client[c] \notin {"idle", "sent1", "sent2", "waiting"}
          /\ p_server' = "killed" /\ pipe' = <<>> /\ results' = <<>> /\ p_client' = p_client
      BY <1>11 DEF Pipes!WriteToNobody, Pipes!Readers, Pipes!Serve, Pipes!clientVars
    <2>2. AllWaiting' = {} /\ Cardinality(AllWaiting') = 0
      BY <2>1, FS_EmptySet DEF AllWaiting
    <2>3. Owed' = 0
      <3>1. PlusAt(pipe') = {}
        BY <2>1 DEF PlusAt
      <3>2. Plus(pipe') = 0
        BY <3>1, FS_EmptySet DEF Plus
      <3> QED
        BY <2>1, <3>2 DEF Owed
    <2>4. \A j \in 1 .. Len(results') : FALSE
      BY <2>1
    <2> QED
      BY <2>1, <2>2, <2>3, <2>4 DEF ResultsDue
  <1> QED
    BY <1>4, <1>6, <1>7, <1>8, <1>9, <1>10, <1>11 DEF Pipes!ServerStep

\* Who waits, and how many: the clients that begin or end to wait.
LEMMA WaitingFacts ==
    ASSUME PipeTypes
    PROVE  /\ IsFiniteSet(AllWaiting) /\ Cardinality(AllWaiting) \in Nat
           /\ \A c \in Clients : p_client[c] # "waiting" =>
                 Cardinality(AllWaiting \cup {c}) = Cardinality(AllWaiting) + 1
           /\ \A c \in Clients : p_client[c] = "waiting" =>
                 Cardinality(AllWaiting \ {c}) = Cardinality(AllWaiting) - 1
  <1>1. N \in Nat /\ Clients = 1 .. N /\ 1 \in Int /\ N \in Int
    BY SamePipeNames
  <1>2. IsFiniteSet(Clients)
    BY <1>1, FS_Interval
  <1>3. IsFiniteSet(AllWaiting)
    BY <1>2, FS_Subset DEF AllWaiting
  <1>4. ASSUME NEW c \in Clients, p_client[c] # "waiting"
        PROVE  Cardinality(AllWaiting \cup {c}) = Cardinality(AllWaiting) + 1
    <2>1. c \notin AllWaiting
      BY <1>4 DEF AllWaiting
    <2> QED
      BY <1>3, <2>1, FS_AddElement
  <1>5. ASSUME NEW c \in Clients, p_client[c] = "waiting"
        PROVE  Cardinality(AllWaiting \ {c}) = Cardinality(AllWaiting) - 1
    <2>1. c \in AllWaiting
      BY <1>5 DEF AllWaiting
    <2> QED
      BY <1>3, <2>1, FS_RemoveElement
  <1> QED
    BY <1>3, <1>4, <1>5, FS_CardinalityType

\* As long as requests do not overlap, at most one client waits.
LEMMA OneWaits ==
    ASSUME PipeTypes, OneAtATime PROVE Cardinality(AllWaiting) <= 1
  <1>1. CASE AllWaiting = {}
    BY <1>1, FS_EmptySet
  <1>2. CASE AllWaiting # {}
    <2>1. PICK c \in AllWaiting : TRUE
      BY <1>2
    <2>2. AllWaiting = {c}
      BY <2>1 DEF AllWaiting, OneAtATime, Begun
    <2> QED
      BY <2>2, FS_Singleton
  <1> QED
    BY <1>1, <1>2

LEMMA PipeServerOne ==
    ASSUME PipeTypes, NEW at, NEW who, InStep(at, who), ResultsDue, Apart, OneAtATime,
           Pipes!ServerStep
    PROVE  OneAtATime'
  <1>1. /\ results \in Seq(Clients \cup {None}) /\ Len(results) \in Nat
        /\ Plus(pipe) \in Nat /\ Len(pipe) \in Nat
    BY LenProperties, PlusIsFinite DEF PipeTypes, Pipes!TypeOK
  <1>2. /\ Len(results) <= 1
        /\ \A j \in 1 .. Len(results) : p_client[results[j]] = "waiting"
        /\ \A b, c \in Clients : Begun(b) /\ Begun(c) => b = c
        /\ p_server \notin {"unlink", "ended"} =>
              /\ p_server = "answer" => p_client[result] = "waiting"
              /\ \A j \in 1 .. Len(pipe) : pipe[j][2] = "+" => p_client[pipe[j][1]] = "waiting"
    BY DEF OneAtATime
  \* Steps that read bytes.
  <1>3. ASSUME NEW k \in Nat, p_client' = p_client, results' = results,
               p_server \notin {"unlink", "ended"},
               \A j \in 1 .. Len(pipe') : pipe'[j] = pipe[j + k] /\ j + k \in 1 .. Len(pipe),
               p_server' = "answer" => p_client[result'] = "waiting"
        PROVE  OneAtATime'
    <2>1. \A b \in Clients : Begun(b)' <=> Begun(b)
      BY <1>3 DEF Begun
    <2>2. \A j \in 1 .. Len(pipe') : pipe'[j][2] = "+" => p_client[pipe'[j][1]] = "waiting"
      BY <1>2, <1>3
    <2> QED
      BY <1>2, <1>3, <2>1, <2>2 DEF OneAtATime
  <1>4. CASE Pipes!Open
    <2>1. /\ p_server = "open" /\ p_server' = "num1"
          /\ p_client' = [c \in Clients |-> IF p_client[c] = "opening" THEN "idle" ELSE p_client[c]]
          /\ pipe' = pipe /\ results' = results
      BY <1>4 DEF Pipes!Open, Pipes!Serve
    <2>2. DOMAIN p_client = Clients
      BY DEF PipeTypes, Pipes!TypeOK
    <2>3. /\ \A c \in Clients : Begun(c)' => Begun(c)
          /\ \A c \in Clients : p_client[c] = "waiting" => p_client'[c] = "waiting"
      BY <2>1 DEF Begun
    <2>4. \A j \in 1 .. Len(pipe) : pipe[j][1] \in Clients
      <3>1. \A j \in 1 .. Len(pipe) : pipe[j] \in Pipes!Bytes
        BY ElementOfSeq DEF PipeTypes, Pipes!TypeOK
      <3> QED
        BY <3>1 DEF Pipes!Bytes
    <2>5. \A j \in 1 .. Len(results) : results[j] \in Clients
      <3>1. \A j \in 1 .. Len(results) : results[j] \in Clients \cup {None}
        BY <1>1, ElementOfSeq
      <3> QED
        BY <3>1 DEF ResultsDue
    <2> QED
      BY <1>2, <2>1, <2>3, <2>4, <2>5 DEF OneAtATime
  <1>5. ASSUME NEW m, Pipes!Take(INT),
               (p_server = "num1" /\ m = "num1") \/ (p_server = "num2" /\ m = "num2"),
               p_server' \in {"num2", "op"}, UNCHANGED <<results, p_client>>
        PROVE  OneAtATime'
    <2>1. \A j \in 1 .. Len(pipe') : pipe'[j] = pipe[j + INT] /\ j + INT \in 1 .. Len(pipe)
      BY <1>5, ReadsNumber
    <2>2. INT \in Nat
      BY SamePipeNames
    <2> QED
      BY <1>3, <1>5, <2>1, <2>2
  <1>6. CASE Pipes!ReadNum1
    <2>1. /\ p_server = "num1" /\ p_server' \in {"num2", "op"} /\ Pipes!Take(INT)
          /\ UNCHANGED <<results, p_client>>
      BY <1>6 DEF Pipes!ReadNum1, Pipes!Serve, Pipes!clientVars
    <2> QED
      BY <1>5, <2>1
  <1>7. CASE Pipes!ReadNum2
    <2>1. /\ p_server = "num2" /\ p_server' \in {"num2", "op"} /\ Pipes!Take(INT)
          /\ UNCHANGED <<results, p_client>>
      BY <1>7 DEF Pipes!ReadNum2, Pipes!Serve, Pipes!clientVars
    <2> QED
      BY <1>5, <2>1
  <1>8. CASE Pipes!ReadOperator
    <2>1. PICK o \in Pipes!Operators :
             /\ p_server = "op"
             /\ p_server' = IF o = "x" THEN "close" ELSE IF o = "+" THEN "answer" ELSE "num1"
             /\ result' = IF o = "+" THEN who[1] ELSE result
             /\ pipe[1] = <<who[1], o>> /\ 1 \in 1 .. Len(pipe)
             /\ \A j \in 1 .. Len(pipe') : pipe'[j] = pipe[j + 1] /\ j + 1 \in 1 .. Len(pipe)
      BY <1>8, ReadsOperator
    <2>2. UNCHANGED <<results, p_client>>
      BY <1>8 DEF Pipes!ReadOperator, Pipes!clientVars
    <2>3. p_server' = "answer" => p_client[result'] = "waiting"
      BY <1>2, <2>1
    <2> QED
      BY <1>3, <2>1, <2>2, <2>3
  <1>9. CASE Pipes!WriteResult
    <2>1. /\ p_server = "answer" /\ p_server' = "num1" /\ results' = Append(results, result)
          /\ UNCHANGED <<pipe, p_client>>
      BY <1>9 DEF Pipes!WriteResult, Pipes!Serve, Pipes!clientVars
    <2>2. result \in Clients \cup {None}
      BY DEF PipeTypes, Pipes!TypeOK
    <2>3. Len(results') = Len(results) + 1 /\ results'[Len(results) + 1] = result
      BY <1>1, <2>1, <2>2, AppendProperties
    <2>4. Len(results) = 0
      <3>1. Cardinality(AllWaiting) <= 1 /\ Cardinality(AllWaiting) \in Nat
        BY OneWaits, WaitingFacts
      <3>2. Owed <= Cardinality(AllWaiting)
        BY <2>1 DEF ResultsDue, Apart
      <3>3. Owed = Len(results) + Plus(pipe) + 1
        BY <2>1 DEF Owed
      <3> QED
        BY <1>1, <3>1, <3>2, <3>3
    <2>5. Len(results') = 1 /\ results'[1] = result
      BY <2>3, <2>4
    <2>6. \A j \in 1 .. Len(results') : j = 1
      BY <2>5
    <2>7. \A b \in Clients : Begun(b)' <=> Begun(b)
      BY <2>1 DEF Begun
    <2> QED
      BY <1>2, <2>1, <2>5, <2>6, <2>7 DEF OneAtATime
  <1>10. CASE Pipes!End
    <2>1. /\ p_server' \in {"unlink", "ended"}
          /\ UNCHANGED <<results, p_client>>
      BY <1>10 DEF Pipes!End, Pipes!Serve, Pipes!clientVars
    <2>2. \A b \in Clients : Begun(b)' <=> Begun(b)
      BY <2>1 DEF Begun
    <2> QED
      BY <1>2, <2>1, <2>2 DEF OneAtATime
  <1>11. CASE Pipes!WriteToNobody
    <2>1. /\ p_server' = "killed" /\ pipe' = <<>> /\ results' = <<>> /\ p_client' = p_client
      BY <1>11 DEF Pipes!WriteToNobody, Pipes!Serve, Pipes!clientVars
    <2>2. \A b \in Clients : Begun(b)' <=> Begun(b)
      BY <2>1 DEF Begun
    <2>3. /\ \A j \in 1 .. Len(results') : FALSE
          /\ \A j \in 1 .. Len(pipe') : FALSE
          /\ Len(results') <= 1
      BY <2>1
    <2> QED
      BY <1>2, <2>1, <2>2, <2>3 DEF OneAtATime
  <1> QED
    BY <1>4, <1>6, <1>7, <1>8, <1>9, <1>10, <1>11 DEF Pipes!ServerStep

\* What a client that begins a request disturbs: the requests are in step only when
\* nobody writes, and apart only when nobody waits.
LEMMA BeginsRequest ==
    ASSUME PipeTypes, NEW c \in Clients, Pipes!WriteNum1(c), "mixed" \notin happened'
    PROVE  /\ "mixed" \notin happened /\ happened \subseteq happened'
           /\ \A b \in Clients : p_client[b] \notin {"sent1", "sent2"}
           /\ "overlap" \notin happened' => \A b \in Clients : ~ Begun(b)
           /\ line'[c] \in {"bad", "x"} => line'[c] \in happened'
  <1>1. p_client[c] = "idle"
    BY DEF Pipes!WriteNum1, Pipes!Go
  <1>2. PICK o : line' = [line EXCEPT ![c] = o] /\ happened' = Pipes!Disturbed(c, o)
    BY DEF Pipes!WriteNum1
  <1>3. line'[c] = o
    BY <1>2 DEF PipeTypes, Pipes!TypeOK
  <1>4. "mixed" \notin happened /\ Pipes!Writing \ {c} = {}
    BY <1>2 DEF Pipes!Disturbed
  <1>5. happened' = happened \cup (IF Pipes!Waiting \ {c} # {} THEN {"overlap"} ELSE {})
                             \cup ({o} \cap {"bad", "x"})
    BY <1>2, <1>4 DEF Pipes!Disturbed
  <1>6. \A b \in Clients : p_client[b] \notin {"sent1", "sent2"}
    BY <1>1, <1>4 DEF Pipes!Writing
  <1>7. ASSUME "overlap" \notin happened', NEW b \in Clients PROVE ~ Begun(b)
    <2>1. Pipes!Waiting \ {c} = {}
      BY <1>5, <1>7
    <2> QED
      BY <1>1, <1>6, <2>1 DEF Pipes!Waiting, Begun
  <1> QED
    BY <1>3, <1>4, <1>5, <1>6, <1>7

\* A number makes the pipe longer, and nothing is due for it.
LEMMA NumberWritten ==
    ASSUME NEW s \in Seq(Pipes!Bytes), NEW c \in Clients, NEW m \in {"num1", "num2"}
    PROVE  /\ Len(s \o Pipes!Number(c, m)) = Len(s) + INT
           /\ Plus(s \o Pipes!Number(c, m)) = Plus(s)
           /\ \A j \in 1 .. Len(s) + INT :
                 /\ j <= Len(s) => (s \o Pipes!Number(c, m))[j] = s[j]
                 /\ j > Len(s) => (s \o Pipes!Number(c, m))[j] = <<c, m>>
  <1> DEFINE t == Pipes!Number(c, m)
             w == Len(s)
  <1>1. /\ t \in Seq(Pipes!Bytes) /\ Len(t) = INT
        /\ \A j \in 1 .. INT : t[j] = <<c, m>>
    BY NumberFacts
  <1> HIDE DEF t
  <1>2. /\ Len(s \o t) = w + INT
        /\ \A j \in 1 .. w + INT : (s \o t)[j] = IF j <= w THEN s[j] ELSE t[j - w]
    BY <1>1, ConcatProperties
  <1>3. \A j \in 1 .. Len(t) : t[j][2] # "+"
    BY <1>1
  <1>4. Plus(s \o t) = Plus(s)
    BY <1>1, <1>3, PlusLonger
  <1>5. w \in Nat /\ INT \in Nat
    BY SamePipeNames, LenProperties
  <1> HIDE DEF w
  <1>6. \A j \in 1 .. w + INT : j > w => ~ (j <= w) /\ j - w \in 1 .. INT
    BY <1>5
  <1> QED
    BY <1>1, <1>2, <1>4, <1>6 DEF t, w

LEMMA PipeClientInStep ==
    ASSUME PipeTypes, NEW at, NEW who, InStep(at, who),
           NEW c \in Clients, Pipes!ClientStep(c), "mixed" \notin happened'
    PROVE  \E at2, who2 : InStep(at2, who2)'
  <1>1. /\ pipe \in Seq(Pipes!Bytes) /\ Len(pipe) \in Nat /\ INT \in Nat /\ INT > 0
        /\ DOMAIN p_client = Clients
    BY SamePipeNames, LenProperties DEF PipeTypes, Pipes!TypeOK
  <1>2. /\ Aligned(pipe, at, who)
        /\ at[1] = Offset
        /\ p_server \in {"num2", "op"} => num1 = Pipes!Number(who[1], "num1")
        /\ p_server = "op" => num2 = Pipes!Number(who[1], "num2")
        /\ \A b \in Clients :
              /\ p_client[b] = "sent1" => at[Len(pipe) + 1] = INT /\ who[Len(pipe) + 1] = b
              /\ p_client[b] = "sent2" => at[Len(pipe) + 1] = 2 * INT /\ who[Len(pipe) + 1] = b
        /\ (\A b \in Clients : p_client[b] \notin {"sent1", "sent2"}) => at[Len(pipe) + 1] = 0
    BY DEF InStep
  <1>3. /\ UNCHANGED <<num1, num2, p_server>> /\ Offset' = Offset
        /\ p_server \in {"num2", "op"} => Offset # 0
    BY <1>1 DEF Pipes!ClientStep, Pipes!Begin, Pipes!GoOn, Pipes!Kill, Offset
  \* A client that writes what it has to write next.
  <1>4. ASSUME NEW at2, NEW who2, Aligned(pipe', at2, who2),
               at2[1] = at[1], at[1] # 0 => who2[1] = who[1],
               \A b \in Clients :
                  /\ p_client'[b] = "sent1" => at2[Len(pipe') + 1] = INT /\ who2[Len(pipe') + 1] = b
                  /\ p_client'[b] = "sent2" => at2[Len(pipe') + 1] = 2 * INT /\ who2[Len(pipe') + 1] = b,
               (\A b \in Clients : p_client'[b] \notin {"sent1", "sent2"}) => at2[Len(pipe') + 1] = 0
        PROVE  \E x, y : InStep(x, y)'
    <2>1. p_server' \in {"num2", "op"} => num1' = Pipes!Number(who2[1], "num1")
      BY <1>2, <1>3, <1>4
    <2>2. p_server' = "op" => num2' = Pipes!Number(who2[1], "num2")
      BY <1>2, <1>3, <1>4
    <2>3. at2[1] = Offset'
      BY <1>2, <1>3, <1>4
    <2>4. InStep(at2, who2)'
      BY <1>4, <2>1, <2>2, <2>3 DEF InStep
    <2> QED
      BY <2>4
  \* Steps without a byte, of clients that do not write.
  <1>5. ASSUME pipe' = pipe,
               \A b \in Clients : p_client'[b] \in {"sent1", "sent2"} <=> p_client[b] \in {"sent1", "sent2"},
               \A b \in Clients : p_client[b] \in {"sent1", "sent2"} => p_client'[b] = p_client[b]
        PROVE  \E x, y : InStep(x, y)'
    <2>1. \A b \in Clients :
              /\ p_client'[b] = "sent1" => at[Len(pipe) + 1] = INT /\ who[Len(pipe) + 1] = b
              /\ p_client'[b] = "sent2" => at[Len(pipe) + 1] = 2 * INT /\ who[Len(pipe) + 1] = b
      BY <1>2, <1>5
    <2>2. (\A b \in Clients : p_client'[b] \notin {"sent1", "sent2"}) => at[Len(pipe) + 1] = 0
      BY <1>2, <1>5
    <2> QED
      BY <1>2, <1>4, <1>5, <2>1, <2>2
  <1>6. CASE Pipes!Start(c)
    <2>1. PICK to \in {"opening", "stuck", "gone", "idle"} :
             p_client[c] = "new" /\ p_client' = [p_client EXCEPT ![c] = to]
      BY <1>6 DEF Pipes!Start, Pipes!Go
    <2>2. pipe' = pipe
      BY <1>6 DEF Pipes!Start
    <2>3. \A b \in Clients : p_client'[b] = IF b = c THEN to ELSE p_client[b]
      BY <1>1, <2>1
    <2> QED
      BY <1>5, <2>1, <2>2, <2>3
  <1>7. CASE Pipes!WriteNum1(c)
    <2>1. p_client[c] = "idle" /\ p_client' = [p_client EXCEPT ![c] = "sent1"]
          /\ pipe' = pipe \o Pipes!Number(c, "num1")
      BY <1>7 DEF Pipes!WriteNum1, Pipes!Go
    <2>2. \A b \in Clients : p_client[b] \notin {"sent1", "sent2"}
      BY <1>7, BeginsRequest
    <2>3. at[Len(pipe) + 1] = 0
      BY <1>2, <2>2
    <2>4. PICK at2, who2 :
             /\ Aligned(pipe \o Pipes!Number(c, "num1"), at2, who2)
             /\ at2[1] = at[1] /\ (at[1] # 0 => who2[1] = who[1])
             /\ at2[Len(pipe) + 1 + INT] = 0 + INT /\ who2[Len(pipe) + 1 + INT] = c
      <3>1. PICK e : e = Len(pipe) + 1
        OBVIOUS
      <3>2. \E at2, who2 :
               /\ Aligned(pipe \o Pipes!Number(c, "num1"), at2, who2)
               /\ at2[1] = at[1] /\ (at[1] # 0 => who2[1] = who[1])
               /\ at2[e + INT] = at[e] + INT /\ who2[e + INT] = c
        <4>1. PICK m : m = "num1"
          OBVIOUS
        <4>2. (at[e] = 0 /\ m = "num1") \/ (at[e] = INT /\ m = "num2" /\ who[e] = c)
          BY <2>3, <3>1, <4>1
        <4>3. pipe \in Seq(Pipes!Bytes) /\ Aligned(pipe, at, who)
          BY <1>1, <1>2
        <4>4. TakesNumber(pipe, at, who, c, m, e)
          BY <3>1, <4>2, <4>3, AlignedNumber
        <4> QED
          BY <4>1, <4>4 DEF TakesNumber
      <3>3. at[e] + INT = 0 + INT /\ Len(pipe) + 1 + INT = e + INT
        BY <2>3, <3>1
      <3> QED
        BY <3>2, <3>3
    <2>5. Len(pipe') + 1 = Len(pipe) + 1 + INT
      <3>1. Len(pipe') = Len(pipe) + INT
        BY <1>1, <2>1, NumberWritten
      <3> QED
        BY <1>1, <3>1
    <2>6. at2[Len(pipe') + 1] = INT /\ who2[Len(pipe') + 1] = c
      BY <1>1, <2>4, <2>5
    <2>7. \A b \in Clients : p_client'[b] = IF b = c THEN "sent1" ELSE p_client[b]
      BY <1>1, <2>1
    <2>8. \A b \in Clients : p_client'[b] # "sent2" /\ (p_client'[b] = "sent1" <=> b = c)
      BY <2>2, <2>7
    <2> QED
      BY <1>4, <2>1, <2>4, <2>6, <2>8
  <1>8. CASE Pipes!WriteNum2(c)
    <2>1. p_client[c] = "sent1" /\ p_client' = [p_client EXCEPT ![c] = "sent2"]
          /\ pipe' = pipe \o Pipes!Number(c, "num2")
      BY <1>8 DEF Pipes!WriteNum2, Pipes!Go
    <2>2. at[Len(pipe) + 1] = INT /\ who[Len(pipe) + 1] = c
      BY <1>2, <2>1
    <2>3. PICK at2, who2 :
             /\ Aligned(pipe \o Pipes!Number(c, "num2"), at2, who2)
             /\ at2[1] = at[1] /\ (at[1] # 0 => who2[1] = who[1])
             /\ at2[Len(pipe) + 1 + INT] = INT + INT /\ who2[Len(pipe) + 1 + INT] = c
      <3>1. PICK e : e = Len(pipe) + 1
        OBVIOUS
      <3>2. \E at2, who2 :
               /\ Aligned(pipe \o Pipes!Number(c, "num2"), at2, who2)
               /\ at2[1] = at[1] /\ (at[1] # 0 => who2[1] = who[1])
               /\ at2[e + INT] = at[e] + INT /\ who2[e + INT] = c
        <4>1. PICK m : m = "num2"
          OBVIOUS
        <4>2. (at[e] = 0 /\ m = "num1") \/ (at[e] = INT /\ m = "num2" /\ who[e] = c)
          BY <2>2, <3>1, <4>1
        <4>3. pipe \in Seq(Pipes!Bytes) /\ Aligned(pipe, at, who)
          BY <1>1, <1>2
        <4>4. TakesNumber(pipe, at, who, c, m, e)
          BY <3>1, <4>2, <4>3, AlignedNumber
        <4> QED
          BY <4>1, <4>4 DEF TakesNumber
      <3>3. at[e] + INT = INT + INT /\ Len(pipe) + 1 + INT = e + INT
        BY <2>2, <3>1
      <3> QED
        BY <3>2, <3>3
    <2>4. Len(pipe') + 1 = Len(pipe) + 1 + INT /\ INT + INT = 2 * INT
      <3>1. Len(pipe') = Len(pipe) + INT
        BY <1>1, <2>1, NumberWritten
      <3> QED
        BY <1>1, <3>1
    <2>5. at2[Len(pipe') + 1] = 2 * INT /\ who2[Len(pipe') + 1] = c
      BY <2>3, <2>4
    <2>6. \A b \in Clients : p_client'[b] = IF b = c THEN "sent2" ELSE p_client[b]
      BY <1>1, <2>1
    <2>7. \A b \in Clients : p_client'[b] # "sent1" /\ (p_client'[b] = "sent2" <=> b = c)
      BY <2>1, <2>6, NextByte
    <2> QED
      BY <1>4, <2>1, <2>3, <2>5, <2>7
  <1>9. CASE Pipes!WriteOperator(c)
    <2> DEFINE o == IF line[c] = "exit" THEN "x" ELSE line[c]
    <2>1. PICK to \in {"gone", "waiting"} :
             p_client[c] = "sent2" /\ p_client' = [p_client EXCEPT ![c] = to]
      BY <1>9 DEF Pipes!WriteOperator, Pipes!Go
    <2>2. pipe' = Append(pipe, <<c, o>>)
      BY <1>9 DEF Pipes!WriteOperator
    <2>3. o \in Pipes!Operators
      BY <2>1 DEF PipeTypes, Pipes!TypeOK, Pipes!Operators
    <2>4. at[Len(pipe) + 1] = 2 * INT /\ who[Len(pipe) + 1] = c
      BY <1>2, <2>1
    <2> HIDE DEF o
    <2>5. PICK at2 :
             /\ Aligned(Append(pipe, <<c, o>>), at2, who)
             /\ at2[1] = at[1] /\ at2[Len(pipe) + 1 + 1] = 0
      BY <1>1, <1>2, <2>3, <2>4, AlignedOperator
    <2>6. Len(pipe') + 1 = Len(pipe) + 1 + 1
      <3>1. <<c, o>> \in Pipes!Bytes
        BY <2>3 DEF Pipes!Bytes
      <3> QED
        BY <1>1, <2>2, <3>1, AppendProperties
    <2>7. at2[Len(pipe') + 1] = 0
      BY <2>5, <2>6
    <2>8. \A b \in Clients : p_client'[b] = IF b = c THEN to ELSE p_client[b]
      BY <1>1, <2>1
    <2>9. \A b \in Clients : p_client'[b] \notin {"sent1", "sent2"}
      BY <2>1, <2>8, NextByte
    <2> QED
      BY <1>4, <2>2, <2>5, <2>7, <2>9
  <1>10. CASE Pipes!ReadResult(c)
    <2>1. p_client[c] = "waiting" /\ p_client' = [p_client EXCEPT ![c] = "idle"] /\ pipe' = pipe
      BY <1>10 DEF Pipes!ReadResult, Pipes!Go
    <2>2. \A b \in Clients : p_client'[b] = IF b = c THEN "idle" ELSE p_client[b]
      BY <1>1, <2>1
    <2> QED
      BY <1>5, <2>1, <2>2
  <1>11. CASE Pipes!Kill(c)
    <2>1. /\ \A b \in Clients : p_client'[b] = IF b = c THEN "gone" ELSE p_client[b]
          /\ pipe' = pipe /\ p_client[c] \notin {"sent1", "sent2"}
      BY <1>11, Killed
    <2> QED
      BY <1>5, <2>1
  <1> QED
    BY <1>6, <1>7, <1>8, <1>9, <1>10, <1>11, PipeClientStep

\* A client that ends a request waits, unless it leaves.
LEMMA EndsRequest ==
    ASSUME PipeTypes, NEW c \in Clients, Pipes!WriteOperator(c)
    PROVE  \E o \in Pipes!Operators :
               /\ p_client[c] = "sent2"
               /\ line[c] = "exit" => o = "x"
               /\ line[c] # "exit" => o = line[c]
               /\ \A b \in Clients :
                     p_client'[b] = IF b = c THEN IF line[c] = "exit" THEN "gone" ELSE "waiting"
                                    ELSE p_client[b]
               /\ \A b \in Clients : line'[b] = IF b = c THEN "none" ELSE line[b]
               /\ Len(pipe') = Len(pipe) + 1 /\ Len(pipe) \in Nat
               /\ Plus(pipe') = Plus(pipe) + (IF o = "+" THEN 1 ELSE 0)
               /\ \A j \in 1 .. Len(pipe) : pipe'[j] = pipe[j]
               /\ pipe'[Len(pipe) + 1] = <<c, o>>
               /\ UNCHANGED <<results, happened>>
  <1>1. /\ pipe \in Seq(Pipes!Bytes) /\ Len(pipe) \in Nat
        /\ DOMAIN p_client = Clients /\ DOMAIN line = Clients
        /\ line[c] \in Pipes!Operators \cup {"exit", "none"}
    BY LenProperties DEF PipeTypes, Pipes!TypeOK
  <1> DEFINE o == IF line[c] = "exit" THEN "x" ELSE line[c]
  <1>2. /\ p_client[c] = "sent2"
        /\ p_client' = [p_client EXCEPT ![c] = IF line[c] = "exit" THEN "gone" ELSE "waiting"]
        /\ pipe' = Append(pipe, <<c, o>>)
        /\ line' = [line EXCEPT ![c] = "none"]
        /\ UNCHANGED <<results, happened>>
    BY DEF Pipes!WriteOperator, Pipes!Go
  <1>3. o \in Pipes!Operators
    BY <1>1, <1>2 DEF PipeTypes, Pipes!Operators
  <1>4. /\ line[c] = "exit" => o = "x"
        /\ line[c] # "exit" => o = line[c]
    OBVIOUS
  <1>5. /\ \A b \in Clients :
              p_client'[b] = IF b = c THEN IF line[c] = "exit" THEN "gone" ELSE "waiting"
                             ELSE p_client[b]
        /\ \A b \in Clients : line'[b] = IF b = c THEN "none" ELSE line[b]
    BY <1>1, <1>2
  <1> HIDE DEF o
  <1> DEFINE byte == <<c, o>>
  <1>6. byte \in Pipes!Bytes /\ byte[2] = o
    BY <1>3 DEF Pipes!Bytes
  <1> HIDE DEF byte
  <1>7. /\ Len(Append(pipe, byte)) = Len(pipe) + 1
        /\ \A j \in 1 .. Len(pipe) : Append(pipe, byte)[j] = pipe[j]
        /\ Append(pipe, byte)[Len(pipe) + 1] = byte
    BY <1>1, <1>6, AppendProperties
  <1>8. Plus(Append(pipe, byte)) = Plus(pipe) + (IF byte[2] = "+" THEN 1 ELSE 0)
    BY <1>1, <1>6, PlusAppend
  <1>9. pipe' = Append(pipe, byte)
    BY <1>2 DEF byte
  <1>10. Plus(pipe') = Plus(pipe) + (IF o = "+" THEN 1 ELSE 0)
    BY <1>6, <1>8, <1>9
  <1>11. /\ Len(pipe') = Len(pipe) + 1 /\ \A j \in 1 .. Len(pipe) : pipe'[j] = pipe[j]
         /\ pipe'[Len(pipe) + 1] = <<c, o>>
    BY <1>7, <1>9 DEF byte
  <1> QED
    BY <1>1, <1>2, <1>3, <1>4, <1>5, <1>10, <1>11

LEMMA PipeClientResults ==
    ASSUME PipeTypes, ResultsDue, NEW c \in Clients, Pipes!ClientStep(c), "mixed" \notin happened'
    PROVE  ResultsDue'
  <1>1. /\ pipe \in Seq(Pipes!Bytes) /\ results \in Seq(Clients \cup {None})
        /\ Len(results) \in Nat /\ Plus(pipe) \in Nat
        /\ DOMAIN p_client = Clients /\ DOMAIN line = Clients
    BY LenProperties, PlusIsFinite DEF PipeTypes, Pipes!TypeOK
  <1>2. /\ \A j \in 1 .. Len(results) : results[j] # None
        /\ p_server = "answer" => result # None
        /\ p_server \notin {"unlink", "ended"} =>
              /\ "killed" \notin happened => Owed <= Cardinality(AllWaiting)
              /\ happened \cap {"bad", "x"} = {} => Cardinality(AllWaiting) <= Owed
        /\ \A b \in Clients : p_client[b] \in {"sent1", "sent2"} /\ line[b] \in {"bad", "x"}
                                  => line[b] \in happened
    BY DEF ResultsDue
  <1>3. p_server' = p_server /\ result' = result
    BY DEF Pipes!ClientStep, Pipes!Begin, Pipes!GoOn, Pipes!Kill
  \* Steps of clients that do not begin or end to wait.
  <1>4. ASSUME results' = results, Plus(pipe') = Plus(pipe), happened \subseteq happened',
               \A b \in Clients : p_client'[b] = "waiting" <=> p_client[b] = "waiting",
               \A b \in Clients : p_client'[b] \in {"sent1", "sent2"} /\ line'[b] \in {"bad", "x"}
                                      => line'[b] \in happened'
        PROVE  ResultsDue'
    <2>1. AllWaiting' = AllWaiting
      BY <1>4 DEF AllWaiting
    <2>2. Owed' = Owed
      BY <1>3, <1>4 DEF Owed
    <2>3. happened' \cap {"bad", "x"} = {} => happened \cap {"bad", "x"} = {}
      BY <1>4
    <2> QED
      BY <1>2, <1>3, <1>4, <2>1, <2>2, <2>3 DEF ResultsDue
  <1>5. CASE Pipes!Start(c)
    <2>1. PICK to \in {"opening", "stuck", "gone", "idle"} :
             p_client[c] = "new" /\ p_client' = [p_client EXCEPT ![c] = to]
      BY <1>5 DEF Pipes!Start, Pipes!Go
    <2>2. UNCHANGED <<pipe, results, line, happened>>
      BY <1>5 DEF Pipes!Start
    <2>3. \A b \in Clients : p_client'[b] = IF b = c THEN to ELSE p_client[b]
      BY <1>1, <2>1
    <2>4. Plus(pipe') = Plus(pipe)
      BY <2>2
    <2>5. \A b \in Clients : p_client'[b] = "waiting" <=> p_client[b] = "waiting"
      BY <2>1, <2>3
    <2>6. \A b \in Clients : p_client'[b] \in {"sent1", "sent2"} /\ line'[b] \in {"bad", "x"}
                                      => line'[b] \in happened'
      BY <1>2, <2>1, <2>2, <2>3
    <2> QED
      BY <1>4, <2>2, <2>4, <2>5, <2>6
  <1>6. CASE Pipes!WriteNum1(c)
    <2>1. /\ p_client[c] = "idle" /\ p_client' = [p_client EXCEPT ![c] = "sent1"]
          /\ pipe' = pipe \o Pipes!Number(c, "num1") /\ results' = results
      BY <1>6 DEF Pipes!WriteNum1, Pipes!Go
    <2>2. /\ happened \subseteq happened'
          /\ \A b \in Clients : p_client[b] \notin {"sent1", "sent2"}
          /\ line'[c] \in {"bad", "x"} => line'[c] \in happened'
      BY <1>6, BeginsRequest
    <2>3. \A b \in Clients : p_client'[b] = IF b = c THEN "sent1" ELSE p_client[b]
      BY <1>1, <2>1
    <2>4. Plus(pipe') = Plus(pipe)
      BY <1>1, <2>1, NumberWritten
    <2>5. \A b \in Clients : p_client'[b] = "waiting" <=> p_client[b] = "waiting"
      BY <2>1, <2>3
    <2>6. \A b \in Clients : p_client'[b] \in {"sent1", "sent2"} /\ line'[b] \in {"bad", "x"}
                                      => line'[b] \in happened'
      BY <2>2, <2>3
    <2> QED
      BY <1>4, <2>1, <2>2, <2>4, <2>5, <2>6
  <1>7. CASE Pipes!WriteNum2(c)
    <2>1. /\ p_client[c] = "sent1" /\ p_client' = [p_client EXCEPT ![c] = "sent2"]
          /\ pipe' = pipe \o Pipes!Number(c, "num2")
          /\ UNCHANGED <<results, line, happened>>
      BY <1>7 DEF Pipes!WriteNum2, Pipes!Go
    <2>2. \A b \in Clients : p_client'[b] = IF b = c THEN "sent2" ELSE p_client[b]
      BY <1>1, <2>1
    <2>3. Plus(pipe') = Plus(pipe)
      BY <1>1, <2>1, NumberWritten
    <2>4. \A b \in Clients : p_client'[b] = "waiting" <=> p_client[b] = "waiting"
      BY <2>1, <2>2
    <2>5. \A b \in Clients : p_client'[b] \in {"sent1", "sent2"} /\ line'[b] \in {"bad", "x"}
                                      => line'[b] \in happened'
      BY <1>2, <2>1, <2>2
    <2> QED
      BY <1>4, <2>1, <2>3, <2>4, <2>5
  <1>8. CASE Pipes!WriteOperator(c)
    <2>1. PICK o \in Pipes!Operators :
             /\ p_client[c] = "sent2"
             /\ line[c] = "exit" => o = "x"
             /\ line[c] # "exit" => o = line[c]
             /\ \A b \in Clients :
                   p_client'[b] = IF b = c THEN IF line[c] = "exit" THEN "gone" ELSE "waiting"
                                  ELSE p_client[b]
             /\ \A b \in Clients : line'[b] = IF b = c THEN "none" ELSE line[b]
             /\ Plus(pipe') = Plus(pipe) + (IF o = "+" THEN 1 ELSE 0)
             /\ UNCHANGED <<results, happened>>
      BY <1>8, EndsRequest
    <2>2. \A b \in Clients : p_client'[b] \in {"sent1", "sent2"} /\ line'[b] \in {"bad", "x"}
                                      => line'[b] \in happened'
      BY <1>2, <2>1
    <2>3. CASE line[c] = "exit"
      <3>1. \A b \in Clients : p_client'[b] = "waiting" <=> p_client[b] = "waiting"
        BY <2>1, <2>3
      <3>2. Plus(pipe') = Plus(pipe)
        <4>1. Plus(pipe') = Plus(pipe) + 0
          BY <2>1, <2>3
        <4> QED
          BY <1>1, <4>1
      <3> QED
        BY <1>4, <2>1, <2>2, <3>1, <3>2
    <2>4. CASE line[c] # "exit"
      <3>1. AllWaiting' = AllWaiting \cup {c}
        BY <2>1, <2>4 DEF AllWaiting
      <3>2. Cardinality(AllWaiting') = Cardinality(AllWaiting) + 1 /\ Cardinality(AllWaiting) \in Nat
        BY <2>1, <3>1, WaitingFacts
      <3>3. CASE o = "+"
        <4>1. Plus(pipe') = Plus(pipe) + 1
          BY <2>1, <3>3
        <4>2. PICK answering \in {0, 1} : answering = IF p_server = "answer" THEN 1 ELSE 0
          OBVIOUS
        <4>3. Owed = Len(results) + Plus(pipe) + answering
          BY <4>2 DEF Owed
        <4>4. Owed' = Len(results) + (Plus(pipe) + 1) + answering
          BY <1>3, <2>1, <4>1, <4>2 DEF Owed
        <4>5. Owed' = Owed + 1 /\ Owed \in Nat
          BY <1>1, <4>3, <4>4
        <4>6. p_server \notin {"unlink", "ended"} =>
                 /\ "killed" \notin happened => Owed' <= Cardinality(AllWaiting')
                 /\ happened \cap {"bad", "x"} = {} => Cardinality(AllWaiting') <= Owed'
          BY <1>2, <3>2, <4>5
        <4> QED
          BY <1>2, <1>3, <2>1, <2>2, <4>6 DEF ResultsDue
      <3>4. CASE o # "+"
        <4>1. Plus(pipe') = Plus(pipe) + 0
          BY <2>1, <3>4
        <4>2. Owed' = Owed
          BY <1>1, <1>3, <2>1, <4>1 DEF Owed
        <4>3. o \in {"bad", "x"} /\ o = line[c]
          BY <2>1, <2>4, <3>4 DEF Pipes!Operators
        <4>4. o \in happened
          BY <1>2, <2>1, <4>3
        <4>5. happened \cap {"bad", "x"} # {}
          BY <4>3, <4>4
        <4>6. PICK answering \in {0, 1} : answering = IF p_server = "answer" THEN 1 ELSE 0
          OBVIOUS
        <4>7. Owed = Len(results) + Plus(pipe) + answering
          BY <4>6 DEF Owed
        <4>8. Owed \in Nat
          BY <1>1, <4>7
        <4>9. p_server \notin {"unlink", "ended"} /\ "killed" \notin happened =>
                 Owed' <= Cardinality(AllWaiting')
          BY <1>2, <3>2, <4>2, <4>8
        <4> QED
          BY <1>2, <1>3, <2>1, <2>2, <4>5, <4>9 DEF ResultsDue
      <3> QED
        BY <3>3, <3>4
    <2> QED
      BY <2>3, <2>4
  <1>9. CASE Pipes!ReadResult(c)
    <2>1. /\ p_client[c] = "waiting" /\ p_client' = [p_client EXCEPT ![c] = "idle"]
          /\ results # <<>> \/ p_server \in {"unlink", "ended"}
          /\ results' = IF results = <<>> THEN <<>> ELSE Tail(results)
          /\ UNCHANGED <<pipe, line, happened>>
      BY <1>9 DEF Pipes!ReadResult, Pipes!Go
    <2>2. \A b \in Clients : p_client'[b] = IF b = c THEN "idle" ELSE p_client[b]
      BY <1>1, <2>1
    <2>3. \A b \in Clients : p_client'[b] \in {"sent1", "sent2"} /\ line'[b] \in {"bad", "x"}
                                      => line'[b] \in happened'
      BY <1>2, <2>1, <2>2
    <2>4. results # <<>> => /\ Len(results') = Len(results) - 1
                            /\ \A j \in 1 .. Len(results) - 1 : results'[j] = results[j + 1]
      BY <1>1, <2>1, HeadTailProperties
    <2>5. \A j \in 1 .. Len(results') : results'[j] # None
      <3>1. CASE results = <<>>
        <4>1. Len(results') = 0
          BY <2>1, <3>1, EmptySeq
        <4> QED
          BY <4>1
      <3>2. CASE results # <<>>
        <4> DEFINE w == Len(results)
        <4>1. \A j \in 1 .. w - 1 : j + 1 \in 1 .. w
          BY <1>1
        <4> QED
          BY <1>2, <2>4, <3>2, <4>1
      <3> QED
        BY <3>1, <3>2
    <2>6. ASSUME p_server \notin {"unlink", "ended"}
          PROVE  /\ "killed" \notin happened => Owed' <= Cardinality(AllWaiting')
                 /\ happened \cap {"bad", "x"} = {} => Cardinality(AllWaiting') <= Owed'
      <3>1. AllWaiting' = AllWaiting \ {c}
        BY <2>2 DEF AllWaiting
      <3>2. Cardinality(AllWaiting') = Cardinality(AllWaiting) - 1 /\ Cardinality(AllWaiting) \in Nat
        BY <2>1, <3>1, WaitingFacts
      <3>3. PICK answering \in {0, 1} : answering = IF p_server = "answer" THEN 1 ELSE 0
        OBVIOUS
      <3>4. Owed = Len(results) + Plus(pipe) + answering
        BY <3>3 DEF Owed
      <3>5. Owed' = (Len(results) - 1) + Plus(pipe) + answering
        BY <1>3, <2>1, <2>4, <2>6, <3>3 DEF Owed
      <3>6. Owed' = Owed - 1 /\ Owed \in Nat
        BY <1>1, <3>4, <3>5
      <3> QED
        BY <1>2, <2>6, <3>2, <3>6
    <2> QED
      BY <1>2, <1>3, <2>1, <2>3, <2>5, <2>6 DEF ResultsDue
  <1>10. CASE Pipes!Kill(c)
    <2>1. /\ \A b \in Clients : /\ p_client'[b] = IF b = c THEN "gone" ELSE p_client[b]
                                /\ line'[b] = IF b = c THEN "none" ELSE line[b]
          /\ pipe' = pipe /\ results' = results /\ happened \subseteq happened'
          /\ p_client[c] = "waiting" => "killed" \in happened'
      BY <1>10, Killed
    <2>2. \A b \in Clients : p_client'[b] \in {"sent1", "sent2"} /\ line'[b] \in {"bad", "x"}
                                      => line'[b] \in happened'
      BY <1>2, <2>1
    <2>3. CASE p_client[c] # "waiting"
      <3>1. \A b \in Clients : p_client'[b] = "waiting" <=> p_client[b] = "waiting"
        BY <2>1, <2>3
      <3>2. Plus(pipe') = Plus(pipe)
        BY <2>1
      <3> QED
        BY <1>4, <2>1, <2>2, <3>1, <3>2
    \* The result that is on its way to a client that waited is one to spare.
    <2>4. CASE p_client[c] = "waiting"
      <3>1. AllWaiting' = AllWaiting \ {c}
        BY <2>1 DEF AllWaiting
      <3>2. Cardinality(AllWaiting') = Cardinality(AllWaiting) - 1 /\ Cardinality(AllWaiting) \in Nat
        BY <2>4, <3>1, WaitingFacts
      <3>3. Owed' = Owed
        BY <1>3, <2>1 DEF Owed
      <3>4. PICK answering \in {0, 1} : answering = IF p_server = "answer" THEN 1 ELSE 0
        OBVIOUS
      <3>5. Owed = Len(results) + Plus(pipe) + answering
        BY <3>4 DEF Owed
      <3>6. Owed \in Nat
        BY <1>1, <3>5
      <3>7. happened' \cap {"bad", "x"} = {} => happened \cap {"bad", "x"} = {}
        BY <2>1
      <3>8. p_server \notin {"unlink", "ended"} =>
               (happened' \cap {"bad", "x"} = {} => Cardinality(AllWaiting') <= Owed')
        BY <1>2, <3>2, <3>3, <3>6, <3>7
      <3> QED
        BY <1>2, <1>3, <2>1, <2>2, <2>4, <3>8 DEF ResultsDue
    <2> QED
      BY <2>3, <2>4
  <1> QED
    BY <1>5, <1>6, <1>7, <1>8, <1>9, <1>10, PipeClientStep

LEMMA PipeClientOne ==
    ASSUME PipeTypes, ResultsDue, Apart, OneAtATime, NEW c \in Clients, Pipes!ClientStep(c),
           "mixed" \notin happened', Apart'
    PROVE  OneAtATime'
  <1>1. /\ pipe \in Seq(Pipes!Bytes) /\ results \in Seq(Clients \cup {None})
        /\ Len(results) \in Nat /\ Plus(pipe) \in Nat /\ Len(pipe) \in Nat
        /\ DOMAIN p_client = Clients /\ result \in Clients \cup {None}
        /\ INT \in Nat
    BY SamePipeNames, LenProperties, PlusIsFinite DEF PipeTypes, Pipes!TypeOK
  <1>2. /\ Len(results) <= 1
        /\ \A j \in 1 .. Len(results) : p_client[results[j]] = "waiting"
        /\ \A b, d \in Clients : Begun(b) /\ Begun(d) => b = d
        /\ p_server \notin {"unlink", "ended"} =>
              /\ p_server = "answer" => p_client[result] = "waiting"
              /\ \A j \in 1 .. Len(pipe) : pipe[j][2] = "+" => p_client[pipe[j][1]] = "waiting"
    BY DEF OneAtATime
  <1>3. p_server' = p_server /\ result' = result
    BY DEF Pipes!ClientStep, Pipes!Begin, Pipes!GoOn, Pipes!Kill
  \* Whose results and bytes there are.
  <1>4. \A j \in 1 .. Len(pipe) : pipe[j][1] \in Clients
    <2>1. \A j \in 1 .. Len(pipe) : pipe[j] \in Pipes!Bytes
      BY <1>1, ElementOfSeq
    <2> QED
      BY <2>1 DEF Pipes!Bytes
  <1>5. /\ \A j \in 1 .. Len(results) : results[j] \in Clients
        /\ p_server = "answer" => result \in Clients
    <2>1. \A j \in 1 .. Len(results) : results[j] \in Clients \cup {None}
      BY <1>1, ElementOfSeq
    <2> QED
      BY <1>1, <2>1 DEF ResultsDue
  \* Steps that write no operator and take no result from a client that waits.
  <1>6. ASSUME results' = results,
               \A b \in Clients : p_client[b] = "waiting" => p_client'[b] = "waiting",
               \A b, d \in Clients : Begun(b)' /\ Begun(d)' => b = d,
               \A j \in 1 .. Len(pipe') :
                  \/ j \in 1 .. Len(pipe) /\ pipe'[j] = pipe[j]
                  \/ pipe'[j][2] = "+" => p_client'[pipe'[j][1]] = "waiting"
        PROVE  OneAtATime'
    <2>1. \A j \in 1 .. Len(results') : p_client'[results'[j]] = "waiting"
      BY <1>2, <1>5, <1>6
    <2>2. p_server \notin {"unlink", "ended"} => (p_server = "answer" => p_client'[result] = "waiting")
      BY <1>2, <1>5, <1>6
    <2>3. p_server \notin {"unlink", "ended"} =>
             \A j \in 1 .. Len(pipe') : pipe'[j][2] = "+" => p_client'[pipe'[j][1]] = "waiting"
      BY <1>2, <1>4, <1>6
    <2> QED
      BY <1>2, <1>3, <1>6, <2>1, <2>2, <2>3 DEF OneAtATime
  \* The bytes of a number.
  <1>7. ASSUME NEW m \in {"num1", "num2"}, pipe' = pipe \o Pipes!Number(c, m)
        PROVE  \A j \in 1 .. Len(pipe') :
                  \/ j \in 1 .. Len(pipe) /\ pipe'[j] = pipe[j]
                  \/ pipe'[j][2] = "+" => p_client'[pipe'[j][1]] = "waiting"
    <2> DEFINE w == Len(pipe)
    <2>1. /\ Len(pipe') = w + INT
          /\ \A j \in 1 .. w + INT :
                /\ j <= w => pipe'[j] = pipe[j]
                /\ j > w => pipe'[j] = <<c, m>>
      <3>1. /\ Len(pipe \o Pipes!Number(c, m)) = w + INT
            /\ \A j \in 1 .. w + INT :
                  /\ j <= w => (pipe \o Pipes!Number(c, m))[j] = pipe[j]
                  /\ j > w => (pipe \o Pipes!Number(c, m))[j] = <<c, m>>
        BY <1>1, NumberWritten
      <3> QED
        BY <1>7, <3>1
    <2>2. w \in Nat
      BY <1>1
    <2> HIDE DEF w
    <2>3. \A j \in 1 .. w + INT : (j \in 1 .. w /\ j <= w) \/ j > w
      BY <1>1, <2>2
    <2>4. <<c, m>>[2] # "+"
      OBVIOUS
    <2>5. \A j \in 1 .. w + INT :
             \/ j \in 1 .. w /\ pipe'[j] = pipe[j]
             \/ pipe'[j][2] # "+"
      BY <2>1, <2>3, <2>4
    <2> QED
      BY <2>1, <2>5 DEF w
  <1>8. CASE Pipes!Start(c)
    <2>1. PICK to \in {"opening", "stuck", "gone", "idle"} :
             p_client[c] = "new" /\ p_client' = [p_client EXCEPT ![c] = to]
      BY <1>8 DEF Pipes!Start, Pipes!Go
    <2>2. UNCHANGED <<pipe, results>>
      BY <1>8 DEF Pipes!Start
    <2>3. \A b \in Clients : p_client'[b] = IF b = c THEN to ELSE p_client[b]
      BY <1>1, <2>1
    <2>4. \A b \in Clients : /\ Begun(b)' => Begun(b)
                             /\ p_client[b] = "waiting" => p_client'[b] = "waiting"
      BY <2>1, <2>3 DEF Begun
    <2> QED
      BY <1>2, <1>6, <2>2, <2>4
  <1>9. CASE Pipes!WriteNum1(c)
    <2>1. /\ p_client[c] = "idle" /\ p_client' = [p_client EXCEPT ![c] = "sent1"]
          /\ pipe' = pipe \o Pipes!Number(c, "num1") /\ results' = results
      BY <1>9 DEF Pipes!WriteNum1, Pipes!Go
    <2>2. \A b \in Clients : ~ Begun(b)
      BY <1>9, BeginsRequest DEF Apart
    <2>3. \A b \in Clients : p_client'[b] = IF b = c THEN "sent1" ELSE p_client[b]
      BY <1>1, <2>1
    <2>4. /\ \A b \in Clients : Begun(b)' => b = c
          /\ \A b \in Clients : p_client[b] = "waiting" => p_client'[b] = "waiting"
      BY <2>2, <2>3 DEF Begun
    <2> QED
      BY <1>6, <1>7, <2>1, <2>4
  <1>10. CASE Pipes!WriteNum2(c)
    <2>1. /\ p_client[c] = "sent1" /\ p_client' = [p_client EXCEPT ![c] = "sent2"]
          /\ pipe' = pipe \o Pipes!Number(c, "num2") /\ results' = results
      BY <1>10 DEF Pipes!WriteNum2, Pipes!Go
    <2>2. \A b \in Clients : p_client'[b] = IF b = c THEN "sent2" ELSE p_client[b]
      BY <1>1, <2>1
    <2>3. \A b \in Clients : /\ Begun(b)' => Begun(b)
                             /\ p_client[b] = "waiting" => p_client'[b] = "waiting"
      BY <2>1, <2>2 DEF Begun
    <2> QED
      BY <1>2, <1>6, <1>7, <2>1, <2>3
  <1>11. CASE Pipes!WriteOperator(c)
    <2>1. PICK o \in Pipes!Operators :
             /\ p_client[c] = "sent2"
             /\ line[c] = "exit" => o = "x"
             /\ \A b \in Clients :
                   p_client'[b] = IF b = c THEN IF line[c] = "exit" THEN "gone" ELSE "waiting"
                                  ELSE p_client[b]
             /\ Len(pipe') = Len(pipe) + 1
             /\ \A j \in 1 .. Len(pipe) : pipe'[j] = pipe[j]
             /\ pipe'[Len(pipe) + 1] = <<c, o>>
             /\ results' = results
      BY <1>11, EndsRequest
    <2>2. \A b \in Clients : /\ Begun(b)' => Begun(b)
                             /\ p_client[b] = "waiting" => p_client'[b] = "waiting"
      BY <2>1 DEF Begun
    <2>3. \A j \in 1 .. Len(pipe') : j \in 1 .. Len(pipe) \/ j = Len(pipe) + 1
      <3> DEFINE w == Len(pipe)
      <3>1. w \in Nat /\ Len(pipe') = w + 1
        BY <1>1, <2>1
      <3> HIDE DEF w
      <3>2. \A j \in 1 .. w + 1 : j \in 1 .. w \/ j = w + 1
        BY <3>1
      <3> QED
        BY <3>1, <3>2 DEF w
    <2>4. o = "+" => p_client'[c] = "waiting"
      BY <2>1
    <2>5. <<c, o>>[1] = c /\ <<c, o>>[2] = o
      OBVIOUS
    <2>6. \A j \in 1 .. Len(pipe') :
             \/ j \in 1 .. Len(pipe) /\ pipe'[j] = pipe[j]
             \/ pipe'[j][2] = "+" => p_client'[pipe'[j][1]] = "waiting"
      BY <2>1, <2>3, <2>4, <2>5
    <2> QED
      BY <1>2, <1>6, <2>1, <2>2, <2>6
  <1>12. CASE Pipes!ReadResult(c)
    <2>1. /\ p_client[c] = "waiting" /\ p_client' = [p_client EXCEPT ![c] = "idle"]
          /\ results # <<>> \/ p_server \in {"unlink", "ended"}
          /\ results' = IF results = <<>> THEN <<>> ELSE Tail(results)
          /\ pipe' = pipe
      BY <1>12 DEF Pipes!ReadResult, Pipes!Go
    <2>2. \A b \in Clients : p_client'[b] = IF b = c THEN "idle" ELSE p_client[b]
      BY <1>1, <2>1
    <2>3. \A b \in Clients : ~ Begun(b)'
      BY <1>2, <2>1, <2>2 DEF Begun
    <2>4. Len(results') = 0
      <3>1. CASE results = <<>>
        BY <2>1, <3>1, EmptySeq
      <3>2. CASE results # <<>>
        <4>1. Len(results') = Len(results) - 1 /\ Len(results) # 0
          BY <1>1, <2>1, <3>2, HeadTailProperties, EmptySeq
        <4> QED
          BY <1>1, <1>2, <4>1
      <3> QED
        BY <3>1, <3>2
    <2>5. ASSUME p_server \notin {"unlink", "ended"}
          PROVE  /\ p_server # "answer"
                 /\ \A j \in 1 .. Len(pipe) : pipe[j][2] # "+"
      <3>1. Len(results) # 0
        BY <1>1, <2>1, <2>5, EmptySeq
      <3>2. Cardinality(AllWaiting) <= 1 /\ Cardinality(AllWaiting) \in Nat
        BY OneWaits, WaitingFacts
      <3>3. Owed <= Cardinality(AllWaiting)
        BY <2>5 DEF ResultsDue, Apart
      <3>4. PICK answering \in {0, 1} : answering = IF p_server = "answer" THEN 1 ELSE 0
        OBVIOUS
      <3>5. Owed = Len(results) + Plus(pipe) + answering
        BY <3>4 DEF Owed
      <3>6. Plus(pipe) = 0 /\ answering = 0
        BY <1>1, <3>1, <3>2, <3>3, <3>5
      <3>7. PlusAt(pipe) = {}
        BY <1>1, <3>6, PlusIsFinite, FS_EmptySet DEF Plus
      <3> QED
        BY <3>4, <3>6, <3>7 DEF PlusAt
    <2>6. Len(results') <= 1 /\ \A j \in 1 .. Len(results') : FALSE
      BY <2>4
    <2> QED
      BY <1>3, <2>1, <2>3, <2>5, <2>6 DEF OneAtATime
  <1>13. CASE Pipes!Kill(c)
    <2>1. /\ \A b \in Clients : p_client'[b] = IF b = c THEN "gone" ELSE p_client[b]
          /\ pipe' = pipe /\ results' = results
          /\ p_client[c] # "waiting"
      BY <1>13, Killed DEF Apart
    <2>2. \A b \in Clients : /\ Begun(b)' => Begun(b)
                             /\ p_client[b] = "waiting" => p_client'[b] = "waiting"
      BY <2>1 DEF Begun
    <2> QED
      BY <1>2, <1>6, <2>1, <2>2
  <1> QED
    BY <1>8, <1>9, <1>10, <1>11, <1>12, <1>13, PipeClientStep

\* Mixed requests stay mixed, overlapping ones overlapping, and the killed are not forgotten.
LEMMA DisturbedStays ==
    ASSUME PipeTypes, Pipes!Next, "mixed" \notin happened'
    PROVE  "mixed" \notin happened /\ (Apart' => Apart)
  <1>1. CASE Pipes!ServerStep
    <2>1. happened' = happened
      BY <1>1 DEF Pipes!ServerStep, Pipes!Open, Pipes!ReadNum1, Pipes!ReadNum2,
                  Pipes!ReadOperator, Pipes!WriteResult, Pipes!WriteToNobody, Pipes!End,
                  Pipes!clientVars
    <2> QED
      BY <2>1 DEF Apart
  <1>2. ASSUME NEW c \in Clients, Pipes!ClientStep(c)
        PROVE  "mixed" \notin happened /\ (Apart' => Apart)
    <2>1. CASE Pipes!WriteNum1(c)
      BY <2>1, BeginsRequest DEF Apart
    <2>3. CASE Pipes!Kill(c)
      BY <2>3, Killed DEF Apart
    <2>2. CASE Pipes!Start(c) \/ Pipes!WriteNum2(c) \/ Pipes!WriteOperator(c) \/ Pipes!ReadResult(c)
      <3>1. happened' = happened
        BY <2>2 DEF Pipes!Start, Pipes!WriteNum2, Pipes!WriteOperator, Pipes!ReadResult
      <3> QED
        BY <3>1 DEF Apart
    <2> QED
      BY <1>2, <2>1, <2>2, <2>3, PipeClientStep
  <1> QED
    BY <1>1, <1>2 DEF Pipes!Next

LEMMA PipeNext == PipeInv /\ [Pipes!Next]_pipeVars => PipeInv'
  <1> SUFFICES ASSUME PipeInv, [Pipes!Next]_pipeVars PROVE PipeInv'
    OBVIOUS
  <1>1. /\ PipeTypes
        /\ "mixed" \notin happened =>
              /\ \E at, who : InStep(at, who)
              /\ ResultsDue
              /\ Apart => OneAtATime
    BY DEF PipeInv
  <1>2. CASE Pipes!ServerStep
    <2>1. PipeTypes'
      BY <1>1, <1>2, PipeServerTypes
    <2>2. ASSUME "mixed" \notin happened'
          PROVE  /\ \E at, who : InStep(at, who)'
                 /\ ResultsDue'
                 /\ Apart' => OneAtATime'
      <3>1. "mixed" \notin happened /\ (Apart' => Apart)
        BY <1>1, <1>2, <2>2, DisturbedStays DEF Pipes!Next
      <3>2. PICK at, who : InStep(at, who)
        BY <1>1, <3>1
      <3>3. \E x, y : InStep(x, y)'
        BY <1>1, <1>2, <3>2, PipeServerInStep
      <3>4. ResultsDue'
        BY <1>1, <1>2, <3>1, <3>2, PipeServerResults
      <3>5. Apart' => OneAtATime'
        BY <1>1, <1>2, <3>1, <3>2, PipeServerOne
      <3> QED
        BY <3>3, <3>4, <3>5
    <2> QED
      BY <2>1, <2>2 DEF PipeInv
  <1>3. ASSUME NEW c \in Clients, Pipes!ClientStep(c) PROVE PipeInv'
    <2>1. PipeTypes'
      BY <1>1, <1>3, PipeClientTypes
    <2>2. ASSUME "mixed" \notin happened'
          PROVE  /\ \E at, who : InStep(at, who)'
                 /\ ResultsDue'
                 /\ Apart' => OneAtATime'
      <3>1. "mixed" \notin happened /\ (Apart' => Apart)
        BY <1>1, <1>3, <2>2, DisturbedStays DEF Pipes!Next
      <3>2. PICK at, who : InStep(at, who)
        BY <1>1, <3>1
      <3>3. \E x, y : InStep(x, y)'
        BY <1>1, <1>3, <2>2, <3>2, PipeClientInStep
      <3>4. ResultsDue'
        BY <1>1, <1>3, <2>2, <3>1, PipeClientResults
      <3>5. Apart' => OneAtATime'
        BY <1>1, <1>3, <2>2, <3>1, PipeClientOne
      <3> QED
        BY <3>3, <3>4, <3>5
    <2> QED
      BY <2>1, <2>2 DEF PipeInv
  <1>4. CASE UNCHANGED pipeVars
    <2>1. UNCHANGED <<pipe, results, num1, num2, result, p_server, p_client, line, made, happened>>
      BY <1>4 DEF pipeVars
    <2>2. PipeTypes'
      BY <1>1, <2>1 DEF PipeTypes, Pipes!TypeOK
    <2>3. \A at, who : InStep(at, who) => InStep(at, who)'
      BY <2>1 DEF InStep, Offset
    <2>4. ResultsDue => ResultsDue'
      BY <2>1 DEF ResultsDue, Owed, AllWaiting
    <2>5. (OneAtATime => OneAtATime') /\ (Apart' => Apart)
      BY <2>1 DEF OneAtATime, Begun, Apart
    <2> QED
      BY <1>1, <2>1, <2>2, <2>3, <2>4, <2>5 DEF PipeInv
  <1> QED
    BY <1>2, <1>3, <1>4 DEF Pipes!Next

LEMMA PipeInit == Pipes!Init => PipeInv
  <1> SUFFICES ASSUME Pipes!Init PROVE PipeInv
    OBVIOUS
  <1>1. /\ pipe = <<>> /\ results = <<>>
        /\ p_server = "open" /\ p_client = [c \in Clients |-> "new"]
    BY DEF Pipes!Init
  <1>2. PipeTypes
    BY PipeTypesInit
  <1>3. /\ Len(pipe) = 0 /\ Len(results) = 0
        /\ \A c \in Clients : p_client[c] = "new"
    BY <1>1
  <1>4. INT \in Nat /\ INT > 0 /\ N \in Nat
    BY SamePipeNames
  <1> DEFINE zero == [j \in Nat |-> 0]
  <1>5. InStep(zero, zero)
    <2>1. Aligned(pipe, zero, zero) /\ zero[1] = 0
      BY <1>1, AlignedEmpty
    <2>2. Len(pipe) + 1 = 1
      BY <1>3
    <2> HIDE DEF zero
    <2>3. zero[1] = Offset
      BY <1>1, <2>1 DEF Offset
    <2> QED
      BY <1>1, <1>3, <2>1, <2>2, <2>3 DEF InStep
  <1>6. AllWaiting = {} /\ Cardinality(AllWaiting) = 0
    BY <1>3, FS_EmptySet DEF AllWaiting
  <1>7. Owed = 0
    <2>1. PlusAt(pipe) = {}
      BY <1>3 DEF PlusAt
    <2>2. Plus(pipe) = 0
      BY <2>1, FS_EmptySet DEF Plus
    <2> QED
      BY <1>1, <1>3, <2>2 DEF Owed
  <1>8. ResultsDue
    <2>1. \A j \in 1 .. Len(results) : FALSE
      BY <1>3
    <2> QED
      BY <1>1, <1>3, <1>6, <1>7, <2>1 DEF ResultsDue
  <1>9. OneAtATime
    <2>1. /\ \A j \in 1 .. Len(results) : FALSE
          /\ \A j \in 1 .. Len(pipe) : FALSE
          /\ Len(results) <= 1
      BY <1>3
    <2> QED
      BY <1>1, <1>3, <2>1 DEF OneAtATime, Begun
  <1> QED
    BY <1>2, <1>5, <1>8, <1>9 DEF PipeInv

LEMMA PipeResults == PipeInv => ResultsMatch
  <1> SUFFICES ASSUME PipeInv, "mixed" \notin happened
               PROVE  /\ None \notin Pipes!ToSet(results)
                      /\ happened \cap {"bad", "x"} = {} /\ p_server \notin {"unlink", "ended"} =>
                            /\ Pipes!Cardinality(Pipes!Waiting) <= Len(results) + Pipes!Unanswered
                            /\ "killed" \notin happened =>
                                  Pipes!Cardinality(Pipes!Waiting) = Len(results) + Pipes!Unanswered
                      /\ Apart => Pipes!ToSet(results) \subseteq Pipes!Waiting
    BY DEF ResultsMatch, Pipes!ResultsMatch, Apart
  <1>1. /\ PipeTypes /\ ResultsDue /\ (Apart => OneAtATime)
    BY DEF PipeInv
  <1>2. results \in Seq(Clients \cup {None}) /\ DOMAIN results = 1 .. Len(results)
        /\ Len(results) \in Nat /\ Plus(pipe) \in Nat
    BY <1>1, LenProperties, PlusIsFinite DEF PipeTypes, Pipes!TypeOK
  <1>3. Pipes!ToSet(results) = {results[j] : j \in 1 .. Len(results)}
    BY <1>2, SamePipeNames
  <1>4. None \notin Pipes!ToSet(results)
    BY <1>1, <1>3 DEF ResultsDue
  <1>5. Pipes!Waiting = AllWaiting
    BY DEF Pipes!Waiting, AllWaiting
  <1>6. Pipes!Unanswered = Plus(pipe) + (IF p_server = "answer" THEN 1 ELSE 0)
    BY SamePipeNames DEF Pipes!Unanswered, Plus, PlusAt
  <1>7. Owed = Len(results) + Pipes!Unanswered
    <2>1. PICK answering \in {0, 1} : answering = IF p_server = "answer" THEN 1 ELSE 0
      OBVIOUS
    <2>2. Owed = Len(results) + Plus(pipe) + answering /\ Pipes!Unanswered = Plus(pipe) + answering
      BY <1>6, <2>1 DEF Owed
    <2> QED
      BY <1>2, <2>2
  <1>8. Pipes!Cardinality(Pipes!Waiting) = Cardinality(AllWaiting)
    BY <1>5, SamePipeNames
  <1>9. \A j \in 1 .. Len(results) : results[j] \in Clients
    <2>1. \A j \in 1 .. Len(results) : results[j] \in Clients \cup {None}
      BY <1>2, ElementOfSeq
    <2> QED
      BY <1>1, <2>1 DEF ResultsDue
  <1>10. Apart => Pipes!ToSet(results) \subseteq Pipes!Waiting
    BY <1>1, <1>3, <1>5, <1>9 DEF OneAtATime, AllWaiting
  <1>11. ASSUME happened \cap {"bad", "x"} = {}, p_server \notin {"unlink", "ended"}
         PROVE  /\ Cardinality(AllWaiting) <= Owed
                /\ "killed" \notin happened => Cardinality(AllWaiting) = Owed
    <2>1. /\ Cardinality(AllWaiting) <= Owed
          /\ "killed" \notin happened => Owed <= Cardinality(AllWaiting)
      BY <1>1, <1>11 DEF ResultsDue
    <2>2. Cardinality(AllWaiting) \in Nat
      BY <1>1, WaitingFacts
    <2>3. PICK answering \in {0, 1} : answering = IF p_server = "answer" THEN 1 ELSE 0
      OBVIOUS
    <2>4. Owed = Len(results) + Plus(pipe) + answering
      BY <2>3 DEF Owed
    <2>5. Owed \in Nat
      BY <1>2, <2>4
    <2> QED
      BY <2>1, <2>2, <2>5
  <1> QED
    BY <1>4, <1>7, <1>8, <1>10, <1>11

\* The calculator over pipes by itself.
PipeSpec == Pipes!Init /\ [][Pipes!Next]_pipeVars

\* As long as the clients' requests are not mixed, the server, which reads each of them
\* in three reads, adds numbers of one client only; while all operators are valid there
\* is a result for each client that waits, and none to spare but for those of clients
\* killed while they waited; and as long as requests do not overlap either and no client was
\* killed while it waited, the result is the own one of the client that waits (the servers'
\* and clients' read and write loops).
THEOREM ResultsAreSums == PipeSpec => []ResultsMatch
  <1>1. Pipes!Init => PipeInv
    BY PipeInit
  <1>2. PipeInv /\ [Pipes!Next]_pipeVars => PipeInv'
    BY PipeNext
  <1>3. PipeInv => ResultsMatch
    BY PipeResults
  <1> QED
    BY <1>1, <1>2, <1>3, PTL DEF PipeSpec
------------------------------------------------------------------------------
(* The four programs in one run, and their types.                          *)

\* A run is a run of each program, of which those that were not chosen stay as they start:
\* what is shown above of each program by itself is shown of the run.
THEOREM RunsOfAll == MCSpec => Spec /\ PipeSpec /\ TransferSpec /\ IdSpec
  <1>1. MCInit => Init /\ Pipes!Init /\ Transfer!Init /\ Ids!Init
    BY DEF MCInit
  <1>2. ASSUME [MCNext]_allVars
        PROVE  /\ [Next]_vars /\ [Pipes!Next]_pipeVars
               /\ [Transfer!Next]_fileVars /\ [Ids!Next]_idVars
    <2>1. CASE UNCHANGED allVars
      BY <2>1 DEF allVars
    <2>3. CASE MCServer
      <3>1. CASE Sockets(MainStep)
        BY <3>1 DEF Sockets, Next
      <3>2. CASE OnPipes(Pipes!ServerStep)
        BY <3>2 DEF OnPipes, Pipes!Next
      <3>3. CASE OnFiles(Transfer!Accept)
        BY <3>3 DEF OnFiles, Transfer!Next
      <3>4. CASE OnIds(Ids!MainStep)
        BY <3>4 DEF OnIds, Ids!Next
      <3> QED
        BY <2>3, <3>1, <3>2, <3>3, <3>4 DEF MCServer
    <2>4. CASE MCUser
      <3>1. CASE Sockets(Exit)
        BY <3>1 DEF Sockets, Next
      <3>2. CASE OnFiles(MayKill /\ Transfer!Exit)
        BY <3>2 DEF OnFiles, Transfer!Next
      <3>3. CASE OnIds(Ids!Announce)
        BY <3>3 DEF OnIds, Ids!Next
      <3> QED
        BY <2>4, <3>1, <3>2, <3>3 DEF MCUser
    <2>5. ASSUME NEW t \in Threads, MCThread(t)
          PROVE  /\ [Next]_vars /\ [Pipes!Next]_pipeVars
                 /\ [Transfer!Next]_fileVars /\ [Ids!Next]_idVars
      <3>0. t \in Transfer!Clients /\ t \in Ids!Handlers
        BY SameClients DEF Threads, Clients, Ids!Handlers
      <3>1. CASE Sockets(ThreadStep(t))
        BY <3>1 DEF Sockets, Next
      <3>2. CASE OnFiles(Transfer!ThreadStep(t))
        BY <3>0, <3>2 DEF OnFiles, Transfer!Next
      <3>3. CASE OnIds(Ids!ThreadStep(t))
        BY <3>0, <3>3 DEF OnIds, Ids!Next
      <3> QED
        BY <2>5, <3>1, <3>2, <3>3 DEF MCThread
    <2>6. ASSUME NEW c \in Clients, MCClient(c)
          PROVE  /\ [Next]_vars /\ [Pipes!Next]_pipeVars
                 /\ [Transfer!Next]_fileVars /\ [Ids!Next]_idVars
      <3>0. c \in Transfer!Clients
        BY SameClients
      <3>1. CASE Sockets(ClientStep(c))
        BY <3>1 DEF Sockets, Next
      <3>2. CASE OnPipes((MayBegin(c) /\ Pipes!Begin(c)) \/ Pipes!GoOn(c) \/ Pipes!Kill(c))
        BY <3>0, <3>2 DEF OnPipes, Pipes!Next, Pipes!ClientStep
      <3>3. CASE OnFiles(((MayKill /\ Transfer!Kill(c)) \/ Transfer!Connect(c)
                            \/ Transfer!ClientRuns(c)) /\ UNCHANGED transferServer)
        <4>1. Transfer!ClientStep(c) /\ UNCHANGED <<vars, pipeVars, idVars>>
          BY <3>3 DEF OnFiles, Transfer!ClientStep, transferServer, Transfer!serverVars,
                      Transfer!mainVars
        <4> QED
          BY <3>0, <4>1 DEF Transfer!Next
      <3> QED
        BY <2>6, <3>1, <3>2, <3>3 DEF MCClient
    <2> QED
      BY <1>2, <2>1, <2>3, <2>4, <2>5, <2>6 DEF MCNext
  <1> QED
    BY <1>1, <1>2, PTL DEF MCSpec, Spec, PipeSpec, TransferSpec, IdSpec

\* The variables of all four programs keep their types, for every number of clients, file
\* and request.  In particular the counters that main and the threads change without a lock
\* stay in their ranges however many increments are lost, a stream holds no more than its
\* client has sent, and what handlers that share a connection write into the files of the
\* server are bytes that some client has sent.
THEOREM ServersTypes == MCSpec => []MCTypeOK
  <1>1. Init => ServerBounds
    BY ServerInit, CountsInit DEF ServerBounds
  <1>2. Spec => []ServerBounds
    BY <1>1, ServerBoundsNext, PTL DEF Spec
  <1>3. PipeSpec => []PipeInv
    BY PipeInit, PipeNext, PTL DEF PipeSpec
  <1>4. TransferSpec => []TransferBounds
    BY TransferBoundsInit, TransferBoundsNext, PTL DEF TransferSpec
  <1>5. IdSpec => []IdBounds
    BY IdBoundsInit, IdBoundsNext, PTL DEF IdSpec
  <1>6. ServerBounds /\ PipeInv /\ TransferBounds /\ IdBounds => MCTypeOK
    BY ServerTypeOK, TransferTypeOK, IdTypeOK DEF PipeInv, PipeTypes, MCTypeOK
  <1> QED
    BY <1>2, <1>3, <1>4, <1>5, <1>6, RunsOfAll, PTL
==============================================================================
