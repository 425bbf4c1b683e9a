---------------------------- MODULE SocketServer ----------------------------
(***************************************************************************)
(* ClientServer(Sockets)/ex5_server.c and ex5_client.c: a calculator that  *)
(* serves every client with a thread of its own.  main passes each thread  *)
(* the address of the same record new_data, and main and the threads count *)
(* connected_clients without a lock.                                       *)
(*                                                                         *)
(* A stream holds whole lines and answers, which are a few bytes on one    *)
(* host.  Of a line only its operator matters: "+" is a valid one, "bad"   *)
(* another, "x" the end.  The ids of the clients are only printed.         *)
(***************************************************************************)
EXTENDS Integers, FiniteSets, FiniteSetsExt

CONSTANTS N,            \* how many clients come; they connect in the order of their numbers
          MAX_CLIENTS,
          REQUESTS      \* bound: how many lines a user types before the last

ASSUME ServerAssumption == {N, MAX_CLIENTS} \subseteq Nat \ {0} /\ REQUESTS \in Nat

Clients == 1 .. N
Threads == Clients
Descriptors == Clients
None == 0

VARIABLES client,       \* where each client is
          typed,        \* how many lines its user has typed
          request,      \* the line on its way to the server
          answers,      \* the answers on their way back: "own" to its line, or "other"
          server, main,
          accepted,     \* how many connections main has accepted
          descriptor,   \* whose connection each open descriptor of the server is
          new_socket, new_data,     \* new_socket and new_data.socket
          connected_clients, aux,
          terminate_flag,
          thread,       \* where the handler threads are
          socket, op,   \* their descriptors, and the operators in clientline
          conn,         \* whose connection they read
          overwritten   \* history: main used new_data again before it was copied

clientVars == <<client, typed, request>>
mainVars == <<main, accepted, new_socket, new_data, terminate_flag, overwritten>>
threadVars == <<thread, socket, op, conn>>
vars == <<clientVars, answers, server, mainVars, descriptor, connected_clients, aux, threadVars>>

Lines == {"+", "bad", "x"}

\* Main: accept: at line 161; store: at 165; load, write: at 166; create: at 170.
\* Threads: copy: at line 86; test: at 89; call, reading: at 91; send: at 112; load, write: at 106;
\* close: at 107.
Init ==
    /\ client = [c \in Clients |-> "new"]
    /\ typed = [c \in Clients |-> 0]
    /\ request = [c \in Clients |-> "none"]
    /\ answers = [c \in Clients |-> {}]
    /\ server = "running"
    /\ main = "accept"
    /\ accepted = 0
    /\ descriptor = [d \in Descriptors |-> None]
    /\ new_socket = None
    /\ new_data = None
    /\ connected_clients = 0
    /\ aux = [t \in Threads \cup {None} |-> 0]
    /\ terminate_flag = FALSE
    /\ thread = [t \in Threads |-> "new"]
    /\ socket = [t \in Threads |-> None]
    /\ op = [t \in Threads |-> "none"]
    /\ conn = [t \in Threads |-> None]
    /\ overwritten = FALSE
------------------------------------------------------------------------------
(* The client                                                               *)

Go(c, from, to) == client[c] = from /\ client' = [client EXCEPT ![c] = to]

Reading(c) == {t \in Threads : thread[t] = "reading" /\ conn[t] = c}

\* The server has closed its end of the connection, or has ended.
Closed(c) ==
    \/ server = "ended"
    \/ c <= accepted /\ (\A d \in Descriptors : descriptor[d] # c) /\ Reading(c) = {}

Connect(c) ==
    /\ \A b \in 1 .. c - 1 : client[b] # "new"
    /\ Go(c, "new", IF server = "running" THEN "idle" ELSE "gone")
    /\ UNCHANGED <<typed, request, answers>>

Request(c) ==
    /\ typed[c] < REQUESTS
    /\ Go(c, "idle", "waiting")
    /\ typed' = [typed EXCEPT ![c] = @ + 1]
    /\ \E line \in Lines \ {"x"} : request' = [request EXCEPT ![c] = line]
    /\ UNCHANGED answers

\* The client exits when it reads the end of the stream.
Answer(c) ==
    /\ \/ answers[c] # {} /\ Go(c, "waiting", "idle")
       \/ answers[c] = {} /\ Closed(c) /\ Go(c, "waiting", "gone")
    /\ answers' = [answers EXCEPT ![c] = {}]
    /\ UNCHANGED <<typed, request>>

Quit(c) ==
    /\ Go(c, "idle", "gone")
    /\ request' = [request EXCEPT ![c] = "x"]
    /\ UNCHANGED <<typed, answers>>

\* The user ends the client from outside.
Vanish(c) ==
    /\ client[c] \in {"idle", "waiting"}
    /\ client' = [client EXCEPT ![c] = "gone"]
    /\ UNCHANGED <<typed, request, answers>>

serverVars == <<server, mainVars, descriptor, connected_clients, aux, threadVars>>

ClientStep(c) ==
    /\ Connect(c) \/ Request(c) \/ Answer(c) \/ Quit(c) \/ Vanish(c)
    /\ UNCHANGED serverVars
------------------------------------------------------------------------------
(* main of the server                                                       *)

Main(from, to) == main = from /\ main' = to

\* ++connected_clients and --connected_clients in main (None) and the threads.
Load(t) == aux' = [aux EXCEPT ![t] = connected_clients] /\ UNCHANGED connected_clients
Write(t, by) == connected_clients' = aux[t] + by /\ UNCHANGED aux

\* What a write outside an array does is undefined: the server may crash, or go on.
InArray(i) == i \in 0 .. MAX_CLIENTS - 1
WriteAt(i) == server' \in IF InArray(i) THEN {server} ELSE {server, "ended"}

Accept ==
    /\ accepted < N
    /\ client[accepted + 1] # "new"
    /\ Main("accept", "store")
    /\ accepted' = accepted + 1
    /\ LET free == {d \in Descriptors : descriptor[d] = None}
       IN  /\ new_socket' = Min(free)
           /\ descriptor' = [descriptor EXCEPT ![Min(free)] = accepted']
    /\ UNCHANGED <<server, connected_clients, aux, threadVars, new_data>>
    /\ UNCHANGED <<terminate_flag, overwritten>>

\* sockets is read by the command /EXIT only, which ends the server.  Behind it there is
\* terminate_flag, or connected_clients, which the increment then writes: it had read it.
Store ==
    /\ Main("store", "load")
    /\ WriteAt(connected_clients)
    /\ terminate_flag' \in {terminate_flag, terminate_flag \/ ~InArray(connected_clients)}
    /\ UNCHANGED <<descriptor, connected_clients, aux, threadVars>>
    /\ UNCHANGED <<accepted, new_socket, new_data, overwritten>>

CountIn ==
    /\ \/ Main("load", "write") /\ Load(None)
       \/ Main("write", "create") /\ Write(None, 1)
    /\ UNCHANGED <<server, descriptor, threadVars, accepted, new_socket, new_data>>
    /\ UNCHANGED <<terminate_flag, overwritten>>

Create ==
    /\ Main("create", "accept")
    /\ WriteAt(connected_clients - 1)
    /\ new_data' = new_socket
    /\ overwritten' = (overwritten \/ \E t \in Threads : thread[t] = "copy")
    /\ thread' = [thread EXCEPT ![accepted] = "copy"]
    /\ UNCHANGED <<descriptor, connected_clients, aux, accepted, new_socket, socket, op, conn>>
    /\ UNCHANGED terminate_flag

MainStep ==
    /\ server = "running"
    /\ Accept \/ Store \/ CountIn \/ Create
    /\ UNCHANGED <<clientVars, answers>>

\* th_read_commands: /EXIT closes the sockets and ends the process, all in one step.
Exit ==
    /\ server = "running"
    /\ server' = "ended" /\ terminate_flag' = TRUE
    /\ UNCHANGED <<main, accepted, new_socket, new_data, overwritten>>
    /\ UNCHANGED <<clientVars, answers, descriptor, connected_clients, aux, threadVars>>
------------------------------------------------------------------------------
(* th_handle_client                                                         *)

Move(t, from, to) == thread[t] = from /\ thread' = [thread EXCEPT ![t] = to]

Copy(t) ==
    /\ Move(t, "copy", "test")
    /\ socket' = [socket EXCEPT ![t] = new_data]
    /\ UNCHANGED <<request, answers, server, descriptor, connected_clients, aux, op, conn>>

\* A thread that leaves because of terminate_flag leaves its socket open.
Test(t) ==
    /\ Move(t, "test", IF terminate_flag THEN "done" ELSE "call")
    /\ UNCHANGED <<request, answers, server, descriptor, connected_clients, aux>>
    /\ UNCHANGED <<socket, op, conn>>

\* read fails when another thread has closed the descriptor.
Call(t) ==
    /\ Move(t, "call", IF descriptor[socket[t]] = None THEN "done" ELSE "reading")
    /\ conn' = [conn EXCEPT ![t] = descriptor[socket[t]]]
    /\ UNCHANGED <<request, answers, server, descriptor, connected_clients, aux, socket, op>>

After(o) == CASE o = "x" -> "load" [] OTHER -> "send"

Receive(t) ==
    /\ thread[t] = "reading" /\ request[conn[t]] # "none"
    /\ Move(t, "reading", After(request[conn[t]]))
    /\ op' = [op EXCEPT ![t] = request[conn[t]]]
    /\ request' = [request EXCEPT ![conn[t]] = "none"]
    /\ UNCHANGED <<answers, server, descriptor, connected_clients, aux, socket, conn>>

\* At the end of the stream read returns 0 and the operator is that of the last line,
\* or anything when there was none; after a reset read fails.
EndOfStream(t) ==
    /\ thread[t] = "reading" /\ client[conn[t]] = "gone" /\ request[conn[t]] = "none"
    /\ \/ Move(t, "reading", "done") /\ UNCHANGED op
       \/ \E o \in IF op[t] = "none" THEN Lines ELSE {op[t]} :
             Move(t, "reading", After(o)) /\ op' = [op EXCEPT ![t] = o]
    /\ UNCHANGED <<request, answers, server, descriptor, connected_clients, aux, socket, conn>>

\* Mutant of Invalid: the thread reads the next line.
InvalidIgnored(t) ==
    /\ op[t] = "bad"
    /\ Move(t, "send", "test")
    /\ UNCHANGED <<request, answers, server, descriptor, connected_clients, aux>>
    /\ UNCHANGED <<socket, op, conn>>

\* The exit(1) of perform_operation.
Invalid(t) ==
    /\ op[t] = "bad"
    /\ Move(t, "send", "done")
    /\ server' = "ended"
    /\ UNCHANGED <<request, answers, descriptor, connected_clients, aux, socket, op, conn>>

\* Mutant of Send: the socket is that of new_data instead of the copy of line 86.
SendToNewest(t) ==
    LET to == descriptor[new_data]
    IN  /\ op[t] = "+"
        /\ Move(t, "send", "test")
        /\ IF to # None /\ client[to] # "gone"
           THEN answers' = [answers EXCEPT ![to] =
                               @ \cup {IF to = conn[t] THEN "own" ELSE "other"}]
           ELSE UNCHANGED answers
        /\ UNCHANGED <<request, server, descriptor, connected_clients, aux, socket, op, conn>>

\* To send to a client that has left does nothing, or ends the server with SIGPIPE.
Send(t) ==
    LET to == descriptor[socket[t]]
    IN  /\ op[t] = "+"
        /\ Move(t, "send", "test")
        /\ IF to # None /\ client[to] # "gone"
           THEN /\ answers' = [answers EXCEPT ![to] =
                                  @ \cup {IF to = conn[t] THEN "own" ELSE "other"}]
                /\ UNCHANGED server
           ELSE /\ server' \in IF to = None THEN {server} ELSE {server, "ended"}
                /\ UNCHANGED answers
        /\ UNCHANGED <<request, descriptor, connected_clients, aux, socket, op, conn>>

CountOut(t) ==
    /\ \/ Move(t, "load", "write") /\ Load(t)
       \/ Move(t, "write", "close") /\ Write(t, -1)
    /\ UNCHANGED <<request, answers, server, descriptor, socket, op, conn>>

Close(t) ==
    /\ Move(t, "close", "done")
    /\ descriptor' = [descriptor EXCEPT ![socket[t]] = None]
    /\ UNCHANGED <<request, answers, server, connected_clients, aux, socket, op, conn>>

ThreadStep(t) ==
    /\ server = "running"
    /\ \/ Copy(t) \/ Test(t) \/ Call(t) \/ Receive(t) \/ EndOfStream(t)
       \/ Invalid(t) \/ Send(t) \/ CountOut(t) \/ Close(t)
    /\ UNCHANGED <<client, typed, mainVars>>
------------------------------------------------------------------------------
Next ==
    \/ MainStep \/ Exit
    \/ \E c \in Clients : ClientStep(c)
    \/ \E t \in Threads : ThreadStep(t)

Spec == Init /\ [][Next]_vars

\* The threads run, and a client that waits reads its answer.  Users need not type,
\* nor does anybody end the server.
FairSpec ==
    /\ Spec
    /\ WF_vars(MainStep)
    /\ \A t \in Threads : WF_vars(ThreadStep(t))
    /\ \A c \in Clients : WF_vars(Answer(c) /\ UNCHANGED serverVars)
------------------------------------------------------------------------------
\* The type invariant.
TypeOK ==
    /\ client \in [Clients -> {"new", "idle", "waiting", "gone"}]
    /\ typed \in [Clients -> 0 .. REQUESTS]
    /\ request \in [Clients -> Lines \cup {"none"}]
    /\ answers \in [Clients -> SUBSET {"own", "other"}]
    /\ server \in {"running", "ended"}
    /\ main \in {"accept", "store", "load", "write", "create"}
    /\ accepted \in 0 .. N
    /\ descriptor \in [Descriptors -> 0 .. N]
    /\ new_socket \in 0 .. N
    /\ new_data \in 0 .. N
    /\ connected_clients \in -N .. N
    /\ aux \in [Threads \cup {None} -> -N .. N]
    /\ terminate_flag \in BOOLEAN
    /\ thread \in [Threads -> {"new", "copy", "test", "call", "reading", "send", "load",
                               "write", "close", "done"}]
    /\ socket \in [Threads -> 0 .. N]
    /\ op \in [Threads -> Lines \cup {"none"}]
    /\ conn \in [Threads -> 0 .. N]

Handlers == {t \in Threads : thread[t] \notin {"new", "copy", "done"}}

\* "Handle client separately on a new thread" (line 174): no two threads have the
\* same connection.
OwnThread ==
    \A t, u \in Handlers : t # u => socket[t] # socket[u]

\* While main has not used new_data too early, every thread handles the connection it
\* was created for, although descriptors are used again, and every answer goes to the
\* client that asked.
OwnAnswers ==
    ~overwritten =>
        /\ \A t \in Handlers : descriptor[socket[t]] = t /\ conn[t] \in {None, t}
        /\ \A c \in Clients : answers[c] \subseteq {"own"}

\* No thread handles the connection of client c, nor is about to: main has used new_data
\* too early, or has written behind its array.
Unserved(c) ==
    /\ overwritten \/ terminate_flag
    /\ \A t \in Threads : thread[t] # "copy" /\ (t \in Handlers => descriptor[socket[t]] # c)

Waits(c) == client[c] = "waiting"
==============================================================================
