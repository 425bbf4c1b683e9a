----------------------------- MODULE PipeServer -----------------------------
(***************************************************************************)
(* ClientServer(Pipes)/lab11_ex2_server.c and lab11_ex2_client.c: clients  *)
(* write requests into my_pipe, two numbers and an operator in three       *)
(* writes, and read results from my_pipe1.  All clients share both pipes.  *)
(*                                                                         *)
(* A byte is the client it is from and what it is part of: a number, or    *)
(* the operator: "+" (a valid one), "bad" or "x".  A result is the client  *)
(* whose sum it is, or None when it is nobody's.  Both pipes exist when    *)
(* clients start, as readme.txt asks for.                                  *)
(***************************************************************************)
EXTENDS Integers, Sequences, SequencesExt, FiniteSets

CONSTANTS Clients, None,
          INT,          \* sizeof(int)
          REQUESTS      \* bound: how many requests a user makes before the last

VARIABLES pipe, results,    \* the bytes in my_pipe, the results in my_pipe1
          num1, num2,       \* of the server: bytes, and where they are from
          result,           \* of the server: whose sum it is
          server,
          client, made,
          line,             \* the operator of the request each client is writing
          happened          \* history: what has disturbed the requests

clientVars == <<client, line, made, happened>>
vars == <<pipe, results, num1, num2, result, server, clientVars>>

Operators == {"+", "bad", "x"}
Bytes == Clients \X ({"num1", "num2"} \cup Operators)
Number(c, k) == [b \in 1 .. INT |-> <<c, k>>]

Init ==
    /\ pipe = <<>> /\ results = <<>>
    /\ num1 = <<>> /\ num2 = <<>> /\ result = None
    /\ server = "open"
    /\ client = [c \in Clients |-> "new"]
    /\ line = [c \in Clients |-> "none"]
    /\ made = [c \in Clients |-> 0]
    /\ happened = {}
------------------------------------------------------------------------------
(* The server                                                               *)

Serve(from, to) == server = from /\ server' = to

\* The open of my_pipe1 waits for a client, and clients wait for it.
Open ==
    /\ \E c \in Clients : client[c] = "opening"
    /\ Serve("open", "num1")
    /\ client' = [c \in Clients |-> IF client[c] = "opening" THEN "idle" ELSE client[c]]
    /\ UNCHANGED <<pipe, results, num1, num2, result, line, made, happened>>

\* read returns the bytes there are, up to n, over what the buffer had before.
Min2(a, b) == IF a < b THEN a ELSE b
Got(n) == SubSeq(pipe, 1, Min2(n, Len(pipe)))
Over(old, new) == new \o SubSeq(old, Len(new) + 1, Len(old))
Take(n) == pipe # <<>> /\ pipe' = SubSeq(pipe, Min2(n, Len(pipe)) + 1, Len(pipe))

\* Mutant of ReadNum1: the bytes go behind those of the last request.
ReadNum1Behind ==
    /\ Serve("num1", "num2")
    /\ Take(INT)
    /\ num1' = num1 \o Got(INT)
    /\ UNCHANGED <<results, num2, result, clientVars>>

ReadNum1 ==
    /\ Serve("num1", "num2")
    /\ Take(INT)
    /\ num1' = Over(num1, Got(INT))
    /\ UNCHANGED <<results, num2, result, clientVars>>

\* Mutant of ReadNum2: it reads into num1.
ReadNum1Again ==
    /\ Serve("num2", "op")
    /\ Take(INT)
    /\ num1' = Over(num1, Got(INT))
    /\ UNCHANGED <<results, num2, result, clientVars>>

ReadNum2 ==
    /\ Serve("num2", "op")
    /\ Take(INT)
    /\ num2' = Over(num2, Got(INT))
    /\ UNCHANGED <<results, num1, result, clientVars>>

\* A byte of a number may be any operator.
Meaning(byte) == IF byte[2] \in Operators THEN {byte[2]} ELSE Operators

Sum(byte) ==
    IF num1 = Number(byte[1], "num1") /\ num2 = Number(byte[1], "num2") /\ byte[2] = "+"
    THEN byte[1] ELSE None

ReadOperator ==
    /\ Take(1)
    /\ \E o \in Meaning(Head(pipe)) :
          /\ Serve("op", CASE o = "x" -> "close" [] o = "+" -> "answer" [] o = "bad" -> "num1")
          /\ result' = IF o = "+" THEN Sum(Head(pipe)) ELSE result
    /\ UNCHANGED <<results, num1, num2, clientVars>>

\* The clients that have my_pipe1 open.
Readers == {c \in Clients : client[c] \in {"idle", "sent1", "sent2", "waiting"}}

WriteResult ==
    /\ Readers # {}
    /\ Serve("answer", "num1")
    /\ results' = Append(results, result)
    /\ UNCHANGED <<pipe, num1, num2, result, clientVars>>

\* SIGPIPE ends the server; with it both pipes lose what they held, but not their names.
WriteToNobody ==
    /\ Readers = {}
    /\ Serve("answer", "killed")
    /\ pipe' = <<>> /\ results' = <<>>
    /\ UNCHANGED <<num1, num2, result, clientVars>>

\* Closes both pipes, then removes their names.
End ==
    /\ Serve("close", "unlink") \/ Serve("unlink", "ended")
    /\ UNCHANGED <<pipe, results, num1, num2, result, clientVars>>

ServerStep ==
    \/ Open \/ ReadNum1 \/ ReadNum2 \/ ReadOperator
    \/ WriteResult \/ WriteToNobody \/ End
------------------------------------------------------------------------------
(* A client                                                                 *)

Go(c, from, to) == client[c] = from /\ client' = [client EXCEPT ![c] = to]

\* The open of my_pipe1 waits for the server to have it open: for ever, between its
\* close and its unlink or after a signal.  Without the names the opens fail.
Start(c) ==
    /\ Go(c, "new", CASE server = "open" -> "opening"
                      [] server \in {"unlink", "killed"} -> "stuck"
                      [] server = "ended" -> "gone"
                      [] OTHER -> "idle")
    /\ UNCHANGED <<pipe, results, line, made, happened>>

Writing == {c \in Clients : client[c] \in {"sent1", "sent2"}}
Waiting == {c \in Clients : client[c] = "waiting"}

\* What has happened when c begins a request; nothing is worse than mixed requests.
Disturbed(c, o) ==
    IF "mixed" \in happened \/ Writing \ {c} # {} THEN {"mixed"}
    ELSE happened \cup (IF Waiting \ {c} # {} THEN {"overlap"} ELSE {})
                  \cup ({o} \cap {"bad", "x"})

\* Input that is no request makes the client send an x and leave; after an x that is
\* typed as an operator it waits for a result like after any other.
WriteNum1(c) ==
    /\ Go(c, "idle", "sent1")
    /\ \E o \in {"exit"} \cup IF made[c] < REQUESTS THEN Operators ELSE {} :
          /\ line' = [line EXCEPT ![c] = o]
          /\ happened' = Disturbed(c, o)
    /\ made' = [made EXCEPT ![c] = @ + 1]
    /\ pipe' = pipe \o Number(c, "num1")
    /\ UNCHANGED results

WriteNum2(c) ==
    /\ Go(c, "sent1", "sent2")
    /\ pipe' = pipe \o Number(c, "num2")
    /\ UNCHANGED <<results, line, made, happened>>

WriteOperator(c) ==
    /\ Go(c, "sent2", IF line[c] = "exit" THEN "gone" ELSE "waiting")
    /\ pipe' = Append(pipe, <<c, IF line[c] = "exit" THEN "x" ELSE line[c]>>)
    /\ line' = [line EXCEPT ![c] = "none"]
    /\ UNCHANGED <<results, made, happened>>

\* The read takes whichever result is first; at the end of the pipe it returns 0 and
\* the client prints what it had.
ReadResult(c) ==
    /\ Go(c, "waiting", "idle")
    /\ results # <<>> \/ server \in {"unlink", "ended"}
    /\ results' = IF results = <<>> THEN <<>> ELSE Tail(results)
    /\ UNCHANGED <<pipe, line, made, happened>>

\* The user ends the client from outside: half a request stays in the pipe, or a result
\* that nobody waits for.
Kill(c) ==
    /\ client[c] \notin {"new", "gone"}
    /\ client' = [client EXCEPT ![c] = "gone"]
    /\ line' = [line EXCEPT ![c] = "none"]
    /\ happened' = IF c \in Writing \/ "mixed" \in happened THEN {"mixed"}
                   ELSE happened \cup (IF c \in Waiting THEN {"killed"} ELSE {})
    /\ UNCHANGED <<pipe, results, num1, num2, result, server, made>>

\* Input of the user, and what a client does once it has begun a request.
Begin(c) == (Start(c) \/ WriteNum1(c)) /\ UNCHANGED <<num1, num2, result, server>>
GoOn(c) ==
    /\ WriteNum2(c) \/ WriteOperator(c) \/ ReadResult(c)
    /\ UNCHANGED <<num1, num2, result, server>>

ClientStep(c) == Begin(c) \/ GoOn(c) \/ Kill(c)

Next == ServerStep \/ \E c \in Clients : ClientStep(c)

Spec == Init /\ [][Next]_vars

\* The server runs, and a client that has begun a request goes on with it.
FairSpec ==
    /\ Spec
    /\ WF_vars(ServerStep)
    /\ \A c \in Clients : WF_vars(GoOn(c))
------------------------------------------------------------------------------
\* The type invariant.
TypeOK ==
    /\ pipe \in Seq(Bytes)
    /\ results \in Seq(Clients \cup {None})
    /\ num1 \in Seq(Bytes) /\ Len(num1) <= INT
    /\ num2 \in Seq(Bytes) /\ Len(num2) <= INT
    /\ result \in Clients \cup {None}
    /\ server \in {"open", "num1", "num2", "op", "answer", "close", "unlink", "ended", "killed"}
    /\ client \in [Clients -> {"new", "opening", "stuck", "idle", "sent1", "sent2",
                               "waiting", "gone"}]
    /\ line \in [Clients -> Operators \cup {"exit", "none"}]
    /\ made \in [Clients -> 0 .. REQUESTS + 1]
    /\ happened \subseteq {"mixed", "overlap", "killed", "bad", "x"}

\* The requests the server has still to answer.
Unanswered ==
    Cardinality({j \in 1 .. Len(pipe) : pipe[j][2] = "+"}) + (IF server = "answer" THEN 1 ELSE 0)

\* As long as requests are not mixed, every result is the sum of one client's numbers
\* although the server reads them apart, and while all operators are valid there is one
\* for each client that waits, and none to spare but for those of clients killed while
\* they waited.  Until then, and as long as they do not overlap, it is the client's own.
ResultsMatch ==
    "mixed" \notin happened =>
        /\ None \notin ToSet(results)
        /\ happened \cap {"bad", "x"} = {} /\ server \notin {"unlink", "ended"} =>
              /\ Cardinality(Waiting) <= Len(results) + Unanswered
              /\ "killed" \notin happened => Cardinality(Waiting) = Len(results) + Unanswered
        /\ happened \cap {"overlap", "killed"} = {} => ToSet(results) \subseteq Waiting

\* A client waits for a result although nobody has sent an invalid operator and no
\* requests were mixed.
Waits(c) == client[c] = "waiting" /\ happened \cap {"mixed", "bad"} = {}
==============================================================================
