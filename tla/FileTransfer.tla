---------------------------- MODULE FileTransfer ----------------------------
(***************************************************************************)
(* ClientServer(Sockets)/Separate server location.../ex6_server.c and      *)
(* ex6_client.c: each client sends one file, its size and name first, and  *)
(* each connection has a thread of the server that writes the file of that *)
(* name.  Sizes are uint32_t, in the header and in the count of what was   *)
(* received.                                                               *)
(*                                                                         *)
(* A stream is a sequence of items: the header with the size, the name,    *)
(* and the bytes, known by the client and the position they come from.     *)
(* The header and the name are one short send, and arrive whole; the bytes *)
(* of the file arrive in any pieces.                                       *)
(* Only main writes connected_clients, which is accepted here.             *)
(***************************************************************************)
EXTENDS Integers, Sequences, FiniteSets, FiniteSetsExt

CONSTANTS N,            \* how many clients come, in the order of their numbers
          MAX_CLIENTS,
          FILES,        \* what a user may ask for: [name, size], size NoFile: not there
          CHUNK,        \* the chunk size, 1024 in the code
          WRAP          \* stands for 2^32

VARIABLES client,       \* client: where it is, its file, the bytes it has sent
          stream,       \* what is on its way from each client to the server
          up,           \* the server runs
          accepted,     \* how many connections main has accepted
          descriptor,   \* whose connection each open descriptor of the server is
          new_data,     \* new_data.socket
          thread,       \* of each handler: where it is, its descriptor, the connection
                        \* it is receiving from, the size and the name of the file, the
                        \* bytes it has written
          disk,         \* the files of the server
          overwritten   \* history: main used new_data again before it was copied

mainVars == <<accepted, new_data, overwritten>>
vars == <<client, stream, up, mainVars, descriptor, thread, disk>>

Clients == 1 .. N
None == 0
NoFile == -1
Names == {f.name : f \in FILES}
Hole == <<"hole", <<None, 0>>>>     \* a byte that was never written

\* Clients: connect: before line 111; header: at 60; data: at 72; done: after 127.
\* Threads: copy: at line 146; header, name, data: at the recv of 45, 59, 87; garbled:
\* the header was not one; close: at 150 and 154.
Init ==
    /\ client \in [Clients -> [pc : {"new"}, file : FILES, sent : {0}]]
    /\ stream = [c \in Clients |-> <<>>]
    /\ up = TRUE
    /\ accepted = 0
    /\ descriptor = [d \in Clients |-> None]
    /\ new_data = None
    /\ thread = [t \in Clients |-> [pc |-> "new", socket |-> None, conn |-> None, size |-> 0,
                                    name |-> "none", off |-> 0, ret |-> "none"]]
    /\ disk = [n \in Names |-> <<>>]
    /\ overwritten = FALSE
------------------------------------------------------------------------------
(* The client                                                               *)

Is(c, l) == client[c].pc = l
Go(c, l) == client' = [client EXCEPT ![c].pc = l]

Connect(c) ==
    /\ Is(c, "new") /\ \A b \in 1 .. c - 1 : ~Is(b, "new")
    /\ Go(c, IF up THEN "header" ELSE "gone")
    /\ UNCHANGED stream

\* A file that cannot be opened ends the client, which has sent nothing.
SendHeader(c) ==
    LET file == client[c].file
    IN  /\ Is(c, "header")
        /\ IF file.size = NoFile
           THEN Go(c, "gone") /\ UNCHANGED stream
           ELSE /\ Go(c, "data")
                /\ stream' = [stream EXCEPT ![c] =
                                 <<<<"header", file.size % WRAP>>, <<"name", file.name>>>>]

Bytes(c, from, to) == [j \in 1 .. to - from |-> <<"byte", <<c, from + j>>>>]

\* One chunk, or the end of the file.
SendData(c) ==
    LET sent == client[c].sent
        to == Min({client[c].file.size, sent + CHUNK})
    IN  /\ Is(c, "data")
        /\ IF to = sent
           THEN Go(c, "done") /\ UNCHANGED stream
           ELSE /\ client' = [client EXCEPT ![c].sent = to]
                /\ stream' = [stream EXCEPT ![c] = @ \o Bytes(c, sent, to)]

\* Nobody at the server has the connection any more.
Cut(c) ==
    \/ ~up
    \/ /\ c <= accepted
       /\ \A d \in Clients : descriptor[d] # c
       /\ \A t \in Clients : thread[t].conn # c

\* A send fails, or its signal ends the client; or the user ends it.
SendFails(c) == Cut(c) /\ client[c].pc \in {"header", "data"} /\ Go(c, "gone") /\ UNCHANGED stream
Kill(c) == client[c].pc \in {"header", "data"} /\ Go(c, "gone") /\ UNCHANGED stream

Ended(c) == client[c].pc \in {"done", "gone"}

ClientRuns(c) == SendHeader(c) \/ SendData(c) \/ SendFails(c)

serverVars == <<up, mainVars, descriptor, thread, disk>>

ClientStep(c) ==
    /\ Connect(c) \/ ClientRuns(c) \/ Kill(c)
    /\ UNCHANGED serverVars
------------------------------------------------------------------------------
(* main and th_read_commands of the server                                  *)

\* accept, and the thread for it.  A write outside sockets or clients may crash.
Accept ==
    /\ up /\ accepted < N /\ ~Is(accepted + 1, "new")
    /\ accepted' = accepted + 1
    /\ LET free == Min({d \in Clients : descriptor[d] = None})
       IN  descriptor' = [descriptor EXCEPT ![free] = accepted'] /\ new_data' = free
    /\ overwritten' = (overwritten \/ \E t \in Clients : thread[t].pc = "copy")
    /\ thread' = [thread EXCEPT ![accepted'].pc = "copy"]
    /\ up' \in IF accepted < MAX_CLIENTS THEN {TRUE} ELSE BOOLEAN
    /\ UNCHANGED <<client, stream, disk>>

\* /EXIT closes the sockets and ends the process.
Exit == up /\ up' = FALSE /\ UNCHANGED <<client, stream, mainVars, descriptor, thread, disk>>
------------------------------------------------------------------------------
(* th_handle_client and receiveFile                                         *)

At(t, l) == thread[t].pc = l
Set(t, th) == thread' = [thread EXCEPT ![t] = th]

Copy(t) ==
    /\ At(t, "copy")
    /\ Set(t, [thread[t] EXCEPT !.pc = "header", !.socket = new_data])
    /\ UNCHANGED <<stream, up, descriptor, disk>>

Receiving == {"header", "name", "data", "garbled"}

Return(th, ret) == [th EXCEPT !.pc = "close", !.conn = None, !.ret = ret]

\* recv fails when another thread has closed the descriptor.
Call(t) ==
    LET conn == descriptor[thread[t].socket]
    IN  /\ thread[t].pc \in Receiving /\ thread[t].conn = None
        /\ Set(t, IF conn = None THEN Return(thread[t], "failed")
                                 ELSE [thread[t] EXCEPT !.conn = conn])
        /\ UNCHANGED <<stream, up, descriptor, disk>>

\* At the recv pc the first item that is on its way to t is of this kind.
Gets(t, pc, kind) ==
    /\ At(t, pc) /\ thread[t].conn # None
    /\ stream[thread[t].conn] # <<>> /\ Head(stream[thread[t].conn])[1] = kind

Value(t) == Head(stream[thread[t].conn])[2]
Consume(t, k) ==
    stream' = [stream EXCEPT ![thread[t].conn] = SubSeq(@, k + 1, Len(@))]

RecvHeader(t) ==
    /\ Gets(t, "header", "header")
    /\ Set(t, [thread[t] EXCEPT !.pc = "name", !.conn = None, !.size = Value(t)])
    /\ Consume(t, 1)
    /\ UNCHANGED <<up, descriptor, disk>>

\* Mutant of Loop: the loop goes on until recv has nothing left.
LoopOnceMore(th) == [th EXCEPT !.pc = "data", !.conn = None]

\* The test of the loop at line 86.
Loop(th) ==
    IF th.off % WRAP < th.size THEN [th EXCEPT !.pc = "data", !.conn = None]
                               ELSE Return(th, "received")

\* A file called exit is refused, any other is emptied.
RecvName(t) ==
    /\ Gets(t, "name", "name")
    /\ IF Value(t) = "exit"
       THEN Set(t, Return(thread[t], "failed")) /\ UNCHANGED disk
       ELSE /\ Set(t, Loop([thread[t] EXCEPT !.name = Value(t)]))
            /\ disk' = [disk EXCEPT ![Value(t)] = <<>>]
    /\ Consume(t, 1)
    /\ UNCHANGED <<up, descriptor>>

\* A write at an offset behind the end leaves a hole.
WriteAt(f, off, data) ==
    [j \in 1 .. Max({Len(f), off + Len(data)}) |->
        IF j \in off + 1 .. off + Len(data) THEN data[j - off]
        ELSE IF j <= Len(f) THEN f[j] ELSE Hole]

\* Mutant of RecvData: the last recv writes the whole buffer.
RecvDataWholeBuffer(t) ==
    LET th == thread[t]  s == stream[th.conn]
    IN  /\ Gets(t, "data", "byte")
        /\ \E k \in 1 .. Min({CHUNK, Len(s)}) :
              /\ disk' = [disk EXCEPT ![th.name] =
                            WriteAt(@, th.off, [j \in 1 .. CHUNK |-> IF j <= k THEN s[j] ELSE Hole])]
              /\ Set(t, Loop([th EXCEPT !.off = @ + k]))
              /\ Consume(t, k)
        /\ UNCHANGED <<up, descriptor>>

\* recv returns what is there, a chunk at most.
RecvData(t) ==
    LET th == thread[t]  s == stream[th.conn]
    IN  /\ Gets(t, "data", "byte")
        /\ \E k \in 1 .. Min({CHUNK, Len(s)}) :
              /\ disk' = [disk EXCEPT ![th.name] = WriteAt(@, th.off, SubSeq(s, 1, k))]
              /\ Set(t, Loop([th EXCEPT !.off = @ + k]))
              /\ Consume(t, k)
        /\ UNCHANGED <<up, descriptor>>

\* What is received is not what it is taken for: after the end of the stream, or on a
\* connection that another thread reads too.  Then the size and the name are anything,
\* but no name of a file that somebody sends, and the thread may go on for ever.
Garble(t) ==
    LET th == thread[t]  s == stream[th.conn]
        expected == IF th.pc = "data" THEN "byte" ELSE th.pc
    IN  /\ th.pc \in Receiving /\ th.conn # None
        /\ IF s = <<>> THEN Ended(th.conn) /\ th.pc # "data" ELSE Head(s)[1] # expected
        /\ \/ Set(t, [th EXCEPT !.pc = "garbled", !.conn = None])
           \/ Set(t, Return(th, "failed"))
        /\ \E k \in 0 .. Len(s) : Consume(t, k)
        /\ up' \in BOOLEAN
        /\ UNCHANGED <<descriptor, disk>>

\* recv returns 0 at line 87 for ever once the client has gone: nothing changes.

Close(t) ==
    /\ At(t, "close")
    /\ descriptor' = [descriptor EXCEPT ![thread[t].socket] = None]
    /\ Set(t, [thread[t] EXCEPT !.pc = "over"])
    /\ UNCHANGED <<stream, up, disk>>

ThreadStep(t) ==
    /\ up
    /\ \/ Copy(t) \/ Call(t) \/ RecvHeader(t) \/ RecvName(t) \/ RecvData(t)
       \/ Garble(t) \/ Close(t)
    /\ UNCHANGED <<client, mainVars>>
------------------------------------------------------------------------------
Next ==
    \/ Accept \/ Exit
    \/ \E c \in Clients : ClientStep(c) \/ ThreadStep(c)
------------------------------------------------------------------------------
TypeOK ==
    /\ \A c \in Clients :
          /\ client[c].pc \in {"new", "header", "data", "done", "gone"}
          /\ client[c].file \in FILES /\ client[c].sent \in 0 .. Max({0, client[c].file.size})
          /\ Len(stream[c]) <= client[c].sent + 2
    /\ up \in BOOLEAN /\ overwritten \in BOOLEAN
    /\ accepted \in 0 .. N /\ new_data \in 0 .. N
    /\ descriptor \in [Clients -> 0 .. N]
    /\ \A t \in Clients :
          /\ thread[t].pc \in {"new", "copy", "close", "over"} \cup Receiving
          /\ thread[t].socket \in 0 .. N /\ thread[t].conn \in 0 .. N
          /\ thread[t].size \in 0 .. WRAP - 1 /\ thread[t].name \in Names \cup {"none"}
    /\ \A n \in Names : \A j \in DOMAIN disk[n] : disk[n][j][2][1] \in 0 .. N

Received(t) == thread[t].ret = "received"

\* The threads that have emptied the file n, and the clients of them.
WritersOf(n) == {t \in Clients : thread[t].name = n}

\* "File received successfully." (line 106): as long as main has not used new_data too
\* early, a file of less than 2^32 bytes is then the client's, however recv cut it up and
\* whatever became of other clients; and so it is when several clients send files of one
\* name and size at the same time, once all of them are received.
FilesArrive ==
    ~overwritten => \A n \in Names :
        LET W == WritersOf(n)
            sizes == {client[t].file.size : t \in W}
        IN  \A s \in sizes :
              (sizes = {s} /\ s < WRAP /\ \A t \in W : Received(t)) =>
                  /\ Len(disk[n]) = s
                  /\ \A j \in 1 .. s : disk[n][j] \in {<<"byte", <<t, j>>>> : t \in W}

\* A client still sends, or its thread is still busy with the file it has sent, although
\* the server runs, main has not used new_data too early and the file has less than 2^32
\* bytes.  (A client that ends before the end of its file may keep a thread for ever.)
Waits(c) ==
    /\ Is(c, "data") \/ (Is(c, "done") /\ ~At(c, "over"))
    /\ up /\ ~overwritten /\ client[c].file.size < WRAP
==============================================================================
