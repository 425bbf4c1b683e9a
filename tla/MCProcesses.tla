---------------------------- MODULE MCProcesses -----------------------------
(***************************************************************************)
(* The four servers and their clients for TLC: a run is a run of one of    *)
(* them, the others stay as they start.  The variables of SocketServer     *)
(* have their own names, those of PipeServer are p_..., those of           *)
(* FileTransfer t_... and those of IdServer i_....                         *)
(***************************************************************************)
EXTENDS SocketServer

CONSTANTS Files,        \* what the users of the file transfer ask for
          CHUNK, WRAP,  \* its chunk size, and what stands for 2^32
          INT,          \* sizeof(int) of the calculator,
          SUMS          \* bound: how many requests its users make before the last

\* "none" stands for no name yet, and -1 for the size of a file that is not there.
ASSUME TransferAssumption ==
    /\ CHUNK \in Nat \ {0} /\ WRAP \in Nat \ {0}
    /\ \A f \in Files : f.name # "none" /\ f.size \in Nat \cup {-1}

ASSUME PipesAssumption == INT \in Nat \ {0} /\ SUMS \in Nat

\* For the runs: a file of two chunks, one whose size is 0 as a uint32_t, one that the
\* server refuses and one that is not there.
FourFiles == {[name |-> "a", size |-> 3], [name |-> "b", size |-> 4],
              [name |-> "exit", size |-> 1], [name |-> "b", size |-> -1]}

VARIABLES program,
          pipe, results, num1, num2, result, p_server, p_client, line, made, happened,
          t_client, t_stream, t_up, t_accepted, t_descriptor, t_new_data, t_thread, t_disk,
          t_overwritten,
          i_announced, i_taken, i_main, i_mutex, i_no_clients, i_arg, i_aux, i_pc, i_id,
          i_fresh, i_name, i_str, i_fifo

pipeVars == <<pipe, results, num1, num2, result, p_server, p_client, line, made, happened>>
transferServer == <<t_up, t_accepted, t_descriptor, t_new_data, t_thread, t_disk, t_overwritten>>
fileVars == <<t_client, t_stream, transferServer>>
idVars == <<i_announced, i_taken, i_main, i_mutex, i_no_clients, i_arg, i_aux, i_pc, i_id,
            i_fresh, i_name, i_str, i_fifo>>
allVars == <<vars, pipeVars, fileVars, idVars, program>>

Pipes == INSTANCE PipeServer
    WITH REQUESTS <- SUMS, server <- p_server, client <- p_client

Transfer == INSTANCE FileTransfer
    WITH FILES <- Files,
         client <- t_client, stream <- t_stream, up <- t_up, accepted <- t_accepted,
         descriptor <- t_descriptor, new_data <- t_new_data, thread <- t_thread,
         disk <- t_disk, overwritten <- t_overwritten

Ids == INSTANCE IdServer
    WITH CLIENTS <- N,
         announced <- i_announced, taken <- i_taken, main <- i_main, mutex <- i_mutex,
         no_clients <- i_no_clients, arg <- i_arg, aux <- i_aux, pc <- i_pc, id <- i_id,
         fresh <- i_fresh, PIPE_NAME4 <- i_name, id_str1 <- i_str, fifo <- i_fifo

\* Two clients send the file a, or one of them a file of another kind.
Asks(f, g) == <<[pc |-> "new", file |-> f, sent |-> 0], [pc |-> "new", file |-> g, sent |-> 0]>>
Two == LET a == CHOOSE f \in Files : f.name = "a"
       IN  {Asks(f, a) : f \in Files} \cup {Asks(a, f) : f \in Files}

MCInit ==
    /\ program \in {"sockets", "pipes", "transfer", "ids"}
    /\ Init /\ Pipes!Init /\ Transfer!Init /\ Ids!Init
    /\ t_client \in IF program = "transfer" THEN Two ELSE {CHOOSE both \in Two : TRUE}

Sockets(A) ==
    program = "sockets" /\ A /\ UNCHANGED <<pipeVars, fileVars, idVars, program>>
OnPipes(A) ==
    program = "pipes" /\ A /\ UNCHANGED <<vars, fileVars, idVars, program>>
OnFiles(A) ==
    program = "transfer" /\ A /\ UNCHANGED <<vars, pipeVars, idVars, program>>
OnIds(A) ==
    program = "ids" /\ A /\ UNCHANGED <<vars, pipeVars, fileVars, program>>

MCServer ==
    \/ Sockets(MainStep) \/ OnPipes(Pipes!ServerStep)
    \/ OnFiles(Transfer!Accept) \/ OnIds(Ids!MainStep)
MCThread(t) ==
    Sockets(ThreadStep(t)) \/ OnFiles(Transfer!ThreadStep(t)) \/ OnIds(Ids!ThreadStep(t))

\* The clients are alike: they start in the order of their numbers.
InLine(c) == p_client[c] = "new" => \A b \in 1 .. c - 1 : p_client[b] # "new"

\* Bound: after requests were mixed, or the thread of a transfer was lost, users begin
\* nothing new.
MayBegin(c) == InLine(c) /\ "mixed" \notin happened
MayKill == ~t_overwritten

MCClient(c) ==
    \/ Sockets(ClientStep(c))
    \/ OnPipes((MayBegin(c) /\ Pipes!Begin(c)) \/ Pipes!GoOn(c) \/ Pipes!Kill(c))
    \/ OnFiles(((MayKill /\ Transfer!Kill(c)) \/ Transfer!Connect(c) \/ Transfer!ClientRuns(c))
               /\ UNCHANGED transferServer)

\* What a client does by itself, without its user.
MCRuns(c) ==
    \/ Sockets(Answer(c) /\ UNCHANGED serverVars)
    \/ OnPipes(Pipes!GoOn(c))
    \/ OnFiles(Transfer!ClientRuns(c) /\ UNCHANGED transferServer)

\* What users start and end.
MCUser ==
    \/ Sockets(Exit)
    \/ OnFiles(MayKill /\ Transfer!Exit)
    \/ OnIds(Ids!Announce)

MCNext ==
    \/ MCServer \/ MCUser
    \/ \E t \in Threads : MCThread(t)
    \/ \E c \in Clients : MCClient(c)

\* Programs and threads run, and a client reads its answer.  Users need not type, nor
\* does anybody start or end a program.
MCSpec ==
    /\ MCInit /\ [][MCNext]_allVars
    /\ WF_allVars(MCServer)
    /\ \A t \in Threads : WF_allVars(MCThread(t))
    /\ \A c \in Clients : WF_allVars(MCRuns(c))
------------------------------------------------------------------------------
\* The type invariants.
MCTypeOK == TypeOK /\ Pipes!TypeOK /\ Transfer!TypeOK /\ Ids!TypeOK

\* As long as requests in the pipe are not mixed, every result is somebody's sum, and
\* one for each client that waits.
ResultsMatch == Pipes!ResultsMatch

\* A file that was received is the one that was sent, unless main lost its thread.
FilesArrive == Transfer!FilesArrive

\* Threads that read their argument in time have ids that nobody else has.
FreshIdsDiffer == Ids!FreshIdsDiffer

Waiting(c) ==
    \/ program = "sockets" /\ Waits(c)
    \/ program = "pipes" /\ Pipes!Waits(c)
    \/ program = "transfer" /\ Transfer!Waits(c)
    \/ program = "ids" /\ Ids!Waits(c)

\* Nobody waits for ever for an answer, for its file to be taken or for its thread, but
\* for the ways that the modules name: with sockets, main has used new_data before a
\* thread copied it or written behind its array, and no thread serves the client.
AllAnswered == \A c \in Clients : []<>~Waiting(c) \/ <>[](program = "sockets" /\ Unserved(c))
=============================================================================
