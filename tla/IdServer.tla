------------------------------ MODULE IdServer ------------------------------
(***************************************************************************)
(* ClientServer2(Pipes)/lab11_ex4_server.c and lab11_ex4_client.c: every   *)
(* client announces itself and is to get an id, from which the names of    *)
(* its own pipes are made.  The mutex that main locks is unlocked by the   *)
(* thread it creates, before the thread reads its argument.  Nobody writes *)
(* ids into server_pipe: a client waits for ever on line 29, and a thread  *)
(* in its first open.                                                      *)
(*                                                                         *)
(* A name is the sequence of the ids that were appended to "data_pipe";    *)
(* PIPE_NAME5 is made in the same way as PIPE_NAME4.                       *)
(***************************************************************************)
EXTENDS Integers, Sequences

CONSTANT CLIENTS        \* bound: how many clients come

VARIABLES announced,    \* the clients that have written into server_pipe1
          taken,        \* how many of these bytes main has read
          main, mutex,  \* where main is; the mutex is locked
          no_clients, arg,
          aux,          \* what main (0) and the threads have loaded of no_clients
          pc, id,       \* of each thread
          fresh,        \* history: main had not come to a later client when id was read
          PIPE_NAME4, id_str1,
          fifo          \* the pipe each thread opens

vars == <<announced, taken, main, mutex, no_clients, arg, aux, pc, id, fresh, PIPE_NAME4,
          id_str1, fifo>>

Handlers == 1 .. CLIENTS
NO_THREADS == 100    \* MAX_CLIENTS, the length of threads

\* main: lock, read: lines 100 and 101; load, store: line 104.  Threads: load, store: line
\* 23; unlock, id, strcpy, sprintf, name, mkfifo, open: lines 24, 26, 33, 40, 41, 45, 48.
Init ==
    /\ announced = 0 /\ taken = 0
    /\ main = "lock" /\ mutex = FALSE
    /\ no_clients = 0 /\ arg = 0
    /\ aux = [h \in {0} \cup Handlers |-> 0]
    /\ pc = [h \in Handlers |-> "new"]
    /\ id = [h \in Handlers |-> 0]
    /\ fresh = [h \in Handlers |-> FALSE]
    /\ PIPE_NAME4 = <<>>
    /\ id_str1 = [h \in Handlers |-> <<>>]
    /\ fifo = [h \in Handlers |-> <<>>]

pipes == <<PIPE_NAME4, id_str1, fifo>>

\* A client writes its byte.  A read that returns because every client was killed is the
\* same to main.  Bound: threads has places for them all; each client takes two.
Announce ==
    /\ announced < CLIENTS /\ 2 * announced < NO_THREADS
    /\ announced' = announced + 1
    /\ UNCHANGED <<taken, main, mutex, no_clients, arg, aux, pc, id, fresh, pipes>>

Main(from, to) == main = from /\ main' = to

MainLock ==
    /\ Main("lock", "read") /\ ~mutex /\ mutex' = TRUE
    /\ UNCHANGED <<taken, no_clients, arg, aux, pc>>

\* Mutant of ReadArrival: arg is computed from the count that main loaded before.
ReadArrivalStale ==
    /\ Main("read", "load") /\ taken < announced
    /\ taken' = taken + 1
    /\ arg' = (aux[0] + 1) * 2
    /\ pc' = [pc EXCEPT ![taken'] = "load"]
    /\ UNCHANGED <<mutex, no_clients, aux>>

ReadArrival ==
    /\ Main("read", "load") /\ taken < announced
    /\ taken' = taken + 1
    /\ arg' = (no_clients + 1) * 2
    /\ pc' = [pc EXCEPT ![taken'] = "load"]
    /\ UNCHANGED <<mutex, no_clients, aux>>

MainCount ==
    /\ \/ Main("load", "store") /\ aux' = [aux EXCEPT ![0] = no_clients] /\ UNCHANGED no_clients
       \/ Main("store", "lock") /\ no_clients' = aux[0] + 1 /\ UNCHANGED aux
    /\ UNCHANGED <<taken, mutex, arg, pc>>

MainStep ==
    (MainLock \/ ReadArrival \/ MainCount) /\ UNCHANGED <<announced, id, fresh, pipes>>

Move(h, from, to) == pc[h] = from /\ pc' = [pc EXCEPT ![h] = to]

\* Mutant of Count: the thread does not unlock the mutex of main.
CountStillLocked(h) ==
    /\ \/ Move(h, "load", "store") /\ aux' = [aux EXCEPT ![h] = no_clients]
          /\ UNCHANGED <<mutex, no_clients>>
       \/ Move(h, "store", "unlock") /\ no_clients' = aux[h] + 1 /\ UNCHANGED <<mutex, aux>>
       \/ Move(h, "unlock", "id") /\ UNCHANGED <<mutex, no_clients, aux>>
    /\ UNCHANGED <<id, fresh, pipes>>

Count(h) ==
    /\ \/ Move(h, "load", "store") /\ aux' = [aux EXCEPT ![h] = no_clients]
          /\ UNCHANGED <<mutex, no_clients>>
       \/ Move(h, "store", "unlock") /\ no_clients' = aux[h] + 1 /\ UNCHANGED <<mutex, aux>>
       \/ Move(h, "unlock", "id") /\ mutex' = FALSE /\ UNCHANGED <<no_clients, aux>>
    /\ UNCHANGED <<id, fresh, pipes>>

ReadId(h) ==
    /\ Move(h, "id", "strcpy")
    /\ id' = [id EXCEPT ![h] = arg]
    /\ fresh' = [fresh EXCEPT ![h] = taken = h]
    /\ UNCHANGED <<mutex, no_clients, aux, pipes>>

\* The buffers of the names are global.
MakeName(h) ==
    /\ \/ Move(h, "strcpy", "sprintf") /\ PIPE_NAME4' = <<>> /\ UNCHANGED <<id_str1, fifo>>
       \/ Move(h, "sprintf", "name") /\ id_str1' = [id_str1 EXCEPT ![h] = Append(PIPE_NAME4, id[h])]
          /\ UNCHANGED <<PIPE_NAME4, fifo>>
       \/ Move(h, "name", "open") /\ PIPE_NAME4' = id_str1[h] /\ UNCHANGED <<id_str1, fifo>>
       \/ Move(h, "open", "opened") /\ fifo' = [fifo EXCEPT ![h] = PIPE_NAME4]
          /\ UNCHANGED <<PIPE_NAME4, id_str1>>
    /\ UNCHANGED <<mutex, no_clients, aux, id, fresh>>

ThreadStep(h) ==
    (Count(h) \/ ReadId(h) \/ MakeName(h)) /\ UNCHANGED <<announced, taken, main, arg>>

Next == Announce \/ MainStep \/ \E h \in Handlers : ThreadStep(h)
------------------------------------------------------------------------------
TypeOK ==
    /\ announced \in 0 .. CLIENTS /\ taken \in 0 .. announced
    /\ main \in {"lock", "read", "load", "store"} /\ mutex \in BOOLEAN
    /\ no_clients \in 0 .. 2 * CLIENTS /\ arg \in 0 .. 4 * CLIENTS
    /\ \A h \in Handlers : id[h] \in 0 .. arg /\ Len(fifo[h]) <= CLIENTS

\* Although increments may be lost, the argument of every client is above those before:
\* threads that read theirs in time have different ids.
FreshIdsDiffer ==
    \A g, h \in Handlers : g < h /\ fresh[g] /\ fresh[h] => id[g] < id[h]

\* Client h has announced itself, and its thread has not come to its open.
Waits(h) == announced >= h /\ pc[h] # "opened"
=============================================================================
