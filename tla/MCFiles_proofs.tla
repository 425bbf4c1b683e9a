---------------------------- MODULE MCFiles_proofs ----------------------------
(***************************************************************************)
(* Proofs about the programs of MCFiles, for every value of their          *)
(* constants: the copy by two processes (each byte is copied once, and     *)
(* next to its place), the mapped file and its two semaphores, the letters *)
(* in shared memory with their named pipes, the count of the processes     *)
(* that fork, the vector of the students, and the algorithms of the        *)
(* exercises.                                                              *)
(***************************************************************************)
EXTENDS MCFiles, FiniteSetTheorems, WellFoundedInduction, SequenceTheorems, TLAPS

Types ==
    /\ size \in Nat /\ fdR \in 0 .. size
    /\ written \in Seq(Nat)
    /\ c \in [Two -> 0 .. size]
    /\ done \in [Two -> BOOLEAN]

Holds(p) == IF c[p] # 0 THEN 1 ELSE 0

\* What the two have read is in the file or in the hands of one of them, and nothing is
\* there twice.
Accounted ==
    /\ \A j, k \in 1 .. Len(written) : written[j] = written[k] => j = k
    /\ \A p \in Two : \A j \in 1 .. Len(written) : written[j] # c[p]
    /\ c["parent"] = c["child"] => c["parent"] = 0
    /\ \A j \in 1 .. Len(written) : written[j] \in 1 .. fdR
    /\ \A p \in Two : c[p] \in 0 .. fdR
    /\ \A b \in 1 .. fdR :
           (\E j \in 1 .. Len(written) : written[j] = b) \/ \E p \in Two : c[p] = b

\* As many bytes are missing at the end of the file as the two hold.
Lengths == Len(written) + Holds("parent") + Holds("child") = fdR

\* The inductive invariant: that a byte is early by one place at most takes the number
\* of bytes that are held.
IInv ==
    /\ Types /\ Accounted /\ Lengths
    /\ \A j \in 1 .. Len(written) : written[j] <= j + 1
    /\ \A p \in Two : done[p] => c[p] = 0 /\ fdR = size
------------------------------------------------------------------------------
LEMMA InitIInv == Init => IInv
  BY CopyByTwoAssumption DEF Init, IInv, Types, Accounted, Lengths, Holds, Two

\* A byte that is read is new.
LEMMA ReadIInv ==
    ASSUME IInv, NEW p \in Two, Read(p)
    PROVE  IInv'
  <1> USE DEF IInv, Types
  <1>1. CASE fdR < size
    <2>1. /\ c[p] = 0 /\ c' = [c EXCEPT ![p] = fdR + 1] /\ fdR' = fdR + 1
          /\ UNCHANGED <<size, written, done>> /\ ~done[p]
      BY <1>1 DEF Read
    <2>2. Types'
      BY <1>1, <2>1
    <2>3. Accounted'
      BY <2>1, SMTT(30) DEF Accounted, Two
    <2>4. Lengths'
      <3>1. Holds(p) = 0 /\ Holds(p)' = 1 /\ \A q \in Two \ {p} : Holds(q)' = Holds(q)
        BY <2>1, <1>1 DEF Holds
      <3>2. p \in {"parent", "child"} /\ Len(written) \in Nat /\ Two = {"parent", "child"}
            /\ Holds("parent") \in Nat /\ Holds("child") \in Nat
        BY DEF Two, Holds
      <3>3. CASE p = "parent"
        <4>1. Holds("parent")' = Holds("parent") + 1 /\ Holds("child")' = Holds("child")
          BY <3>1, <3>2, <3>3
        <4> QED
          BY <2>1, <3>2, <4>1 DEF Lengths
      <3>4. CASE p = "child"
        <4>1. Holds("child")' = Holds("child") + 1 /\ Holds("parent")' = Holds("parent")
          BY <3>1, <3>2, <3>4
        <4> QED
          BY <2>1, <3>2, <4>1 DEF Lengths
      <3> QED
        BY <3>2, <3>3, <3>4
    <2>5. \A q \in Two : done'[q] => c'[q] = 0 /\ fdR' = size'
      BY <1>1, <2>1
    <2> QED
      BY <2>1, <2>2, <2>3, <2>4, <2>5
  <1>2. CASE ~(fdR < size)
    <2>1. /\ c[p] = 0 /\ done' = [done EXCEPT ![p] = TRUE] /\ fdR = size
          /\ UNCHANGED <<size, written, c, fdR>>
      BY <1>2 DEF Read
    <2> QED
      BY <2>1, ZenonT(40) DEF Accounted, Lengths, Holds
  <1> QED
    BY <1>1, <1>2

\* A byte that is written is no longer held.
LEMMA WriteIInv ==
    ASSUME IInv, NEW p \in Two, Write(p)
    PROVE  IInv'
  <1> USE DEF IInv, Types
  <1>1. /\ c[p] # 0 /\ written' = Append(written, c[p]) /\ c' = [c EXCEPT ![p] = 0]
        /\ UNCHANGED <<size, fdR, done>>
    BY DEF Write
  <1>2. /\ written' \in Seq(Nat) /\ Len(written') = Len(written) + 1 /\ Len(written) \in Nat
        /\ \A j \in 1 .. Len(written) : written'[j] = written[j]
        /\ written'[Len(written) + 1] = c[p]
    BY <1>1
  <1>3. Types'
    BY <1>1, <1>2
  <1>4. /\ p \in {"parent", "child"} /\ Two = {"parent", "child"}
        /\ Holds("parent") \in 0 .. 1 /\ Holds("child") \in 0 .. 1
    BY DEF Two, Holds
  <1>5. Lengths'
    <2>1. Holds(p) = 1 /\ Holds(p)' = 0 /\ \A q \in Two \ {p} : Holds(q)' = Holds(q)
      BY <1>1 DEF Holds
    <2>2. CASE p = "parent"
      BY <1>1, <1>2, <1>4, <2>1, <2>2 DEF Lengths
    <2>3. CASE p = "child"
      BY <1>1, <1>2, <1>4, <2>1, <2>3 DEF Lengths
    <2> QED
      BY <1>4, <2>2, <2>3
  <1>6. Accounted'
    <2> DEFINE L == Len(written)
    <2>1. L \in Nat /\ 1 .. Len(written') = (1 .. L) \cup {L + 1} /\ L + 1 \notin 1 .. L
      BY <1>2
    <2>2. /\ \A j \in 1 .. L : written'[j] = written[j]
          /\ written'[L + 1] = c[p]
      BY <1>2
    <2> HIDE DEF L
    <2>3. \A j, k \in 1 .. Len(written') : written'[j] = written'[k] => j = k
      <3>1. \A j \in 1 .. L : written[j] # c[p]
        BY DEF Accounted, L
      <3>2. ASSUME NEW j \in 1 .. L, NEW k \in 1 .. L, written'[j] = written'[k] PROVE j = k
        BY <2>2, <3>2 DEF Accounted, L
      <3>3. \A j \in 1 .. L : written'[j] # written'[L + 1]
        BY <2>2, <3>1
      <3> QED
        BY <2>1, <3>2, <3>3
    <2>4. \A q \in Two : \A j \in 1 .. Len(written') : written'[j] # c'[q]
      <3>1. \A q \in Two \ {p} : c'[q] = c[q] /\ c[q] # c[p]
        BY <1>1, <1>4 DEF Accounted
      <3>2. c'[p] = 0 /\ c[p] # 0 /\ \A j \in 1 .. L : written[j] \in 1 .. fdR
        BY <1>1 DEF Accounted, L
      <3>3. ASSUME NEW q \in Two, NEW j \in 1 .. L PROVE written'[j] # c'[q]
        BY <2>2, <3>1, <3>2, <3>3 DEF Accounted, L
      <3>4. ASSUME NEW q \in Two PROVE written'[L + 1] # c'[q]
        BY <2>2, <3>1, <3>2
      <3> QED
        BY <2>1, <3>3, <3>4
    <2>5. c'["parent"] = c'["child"] => c'["parent"] = 0
      BY <1>1, <1>4
    <2>6. \A j \in 1 .. Len(written') : written'[j] \in 1 .. fdR'
      <3>1. c[p] \in 1 .. fdR /\ fdR' = fdR
        BY <1>1 DEF Accounted
      <3> QED
        BY <2>1, <2>2, <3>1 DEF Accounted, L
    <2>7. \A q \in Two : c'[q] \in 0 .. fdR'
      BY <1>1 DEF Accounted
    <2>8. ASSUME NEW b \in 1 .. fdR'
          PROVE  (\E j \in 1 .. Len(written') : written'[j] = b) \/ \E q \in Two : c'[q] = b
      <3>1. CASE \E j \in 1 .. L : written[j] = b
        BY <2>1, <2>2, <3>1
      <3>2. CASE c[p] = b
        BY <2>1, <2>2, <3>2
      <3>3. CASE \E q \in Two \ {p} : c[q] = b
        BY <1>1, <3>3
      <3> QED
        BY <1>1, <3>1, <3>2, <3>3 DEF Accounted, L
    <2> QED
      BY <2>3, <2>4, <2>5, <2>6, <2>7, <2>8 DEF Accounted
  <1>8. \A j \in 1 .. Len(written') : written'[j] <= j + 1
    <2>1. c[p] <= fdR /\ Len(written) \in Nat /\ c[p] \in Nat
      BY DEF Accounted
    <2>2. c[p] <= Len(written) + 2
      BY <1>4, <2>1 DEF Lengths
    <2>3. ASSUME NEW j \in 1 .. Len(written) PROVE written'[j] <= j + 1
      BY <1>2
    <2>4. written'[Len(written) + 1] <= (Len(written) + 1) + 1
      BY <1>2, <2>1, <2>2
    <2>5. 1 .. Len(written') = (1 .. Len(written)) \cup {Len(written) + 1}
      BY <1>2
    <2> QED
      BY <2>3, <2>4, <2>5
  <1>7. \A q \in Two : done'[q] => c'[q] = 0 /\ fdR' = size'
    BY <1>1
  <1> QED
    BY <1>3, <1>5, <1>6, <1>7, <1>8

LEMMA NextIInv == IInv /\ [Next]_vars => IInv'
  <1>1. ASSUME IInv, UNCHANGED vars PROVE IInv'
    BY <1>1 DEF vars, IInv, Types, Accounted, Lengths, Holds
  <1> QED
    BY <1>1, ReadIInv, WriteIInv DEF Next, Step

LEMMA Invariance == Spec => []IInv
  BY InitIInv, NextIInv, PTL DEF Spec

LEMMA CopyTypes == IInv => TypeOK
  <1> SUFFICES ASSUME IInv PROVE TypeOK
    OBVIOUS
  <1>1. Holds("parent") \in 0 .. 1 /\ Holds("child") \in 0 .. 1 /\ Len(written) \in Nat
    BY DEF IInv, Types, Holds
  <1>2. Len(written) <= size
    BY <1>1 DEF IInv, Types, Lengths
  <1> QED
    BY <1>2 DEF IInv, Types, TypeOK

\* The variables have their types: nothing is written beyond the size of the file.
THEOREM TypeCorrect == Spec => []TypeOK
  BY CopyTypes, Invariance, PTL

\* The two reads of lines 11-20 share one offset, so that every byte is copied once, by
\* whoever gets it, and none is more than one place early, whatever the size.
THEOREM CopiedOnce == Spec => []EachByteOnce
  <1>1. IInv => EachByteOnce
    <2> SUFFICES ASSUME IInv PROVE EachByteOnce
      OBVIOUS
    <2>1. DOMAIN written = 1 .. Len(written) /\ Len(written) \in Nat
      BY DEF IInv, Types
    <2>2. IsInjective(written)
      BY <2>1 DEF IInv, Accounted, IsInjective
    <2>3. ToSet(written) \cup {c[p] : p \in {q \in Two : c[q] # 0}} = 1 .. fdR
      <3> DEFINE A == ToSet(written) \cup {c[p] : p \in {q \in Two : c[q] # 0}}
      <3>1. ASSUME NEW b \in A PROVE b \in 1 .. fdR
        BY <2>1 DEF IInv, Types, Accounted, ToSet
      <3>2. ASSUME NEW b \in 1 .. fdR PROVE b \in A
        <4>1. CASE \E j \in 1 .. Len(written) : written[j] = b
          BY <2>1, <4>1 DEF ToSet
        <4>2. CASE \E p \in Two : c[p] = b
          BY <4>2
        <4> QED
          BY <4>1, <4>2 DEF IInv, Accounted
      <3> QED
        BY <3>1, <3>2
    <2>4. (\A p \in Two : done[p]) => Len(written) = size
      BY <2>1 DEF IInv, Types, Lengths, Holds, Two
    <2> QED
      BY <2>2, <2>3, <2>4 DEF EachByteOnce, IInv
  <1> QED
    BY <1>1, Invariance, PTL
------------------------------------------------------------------------------
(* The mapped file.                                                        *)

WriterPlaces == {"open", "first_post", "wait", "add", "post", "end", "done"}
ReaderPlaces == {"open", "wait", "print", "post", "end", "done"}
Processes(places) == [pc : places, run : Nat, i : Nat, sem : Nat]

\* The loop of each.  A file of one byte or none has nothing to be changed.
InPlace(p) ==
    /\ p.run <= FILE_RUNS
    /\ p.pc \in {"wait", "add", "post", "print"} => p.i < f_size - 1
    /\ p.pc \in {"open", "first_post"} => p.i = 0
    /\ p.pc \in {"end", "done"} => p.i = IF p.run = 0 \/ f_size < 2 THEN 0 ELSE f_size - 1
    /\ p.pc # "done" => p.run > 0
FilePlaces ==
    /\ f_size \in Nat /\ f_name \in Nat
    /\ f_writer \in Processes(WriterPlaces) /\ f_reader \in Processes(ReaderPlaces)
    /\ InPlace(f_writer) /\ InPlace(f_reader)

FileTypes ==
    /\ f_semaphore \in [1 .. FILE_RUNS + 1 -> Nat] /\ f_semaphore1 \in Nat
    /\ f_added \in [File!Used -> Nat] /\ f_read \in [File!Used -> Nat]

\* What the writer and the reader have done in round k.
WriterIn(k) == f_writer.run = k
ReaderIn(k) == f_reader.run = k
Permitted(k) == IF WriterIn(k) /\ f_writer.pc \notin {"open", "first_post"} THEN 1 ELSE 0
Waited(k) ==
    IF WriterIn(k) THEN f_writer.i + (IF f_writer.pc \in {"add", "post"} THEN 1 ELSE 0) ELSE 0
Changed(k) ==
    IF WriterIn(k) THEN f_writer.i + (IF f_writer.pc = "post" THEN 1 ELSE 0) ELSE 0
Posted(k) == IF WriterIn(k) THEN f_writer.i ELSE 0
Met(k) ==
    IF ReaderIn(k) THEN f_reader.i + (IF f_reader.pc \in {"print", "post"} THEN 1 ELSE 0) ELSE 0
Returned(k) == IF ReaderIn(k) THEN f_reader.i ELSE 0

\* Round k has begun or is the next one, and has not ended.
InRound(k) ==
    /\ (f_writer.run = k - 1 /\ f_writer.pc = "done") \/ WriterIn(k)
    /\ (f_reader.run = k - 1 /\ f_reader.pc = "done") \/ ReaderIn(k)
    /\ ~(WriterIn(k) /\ f_writer.pc = "done" /\ ReaderIn(k) /\ f_reader.pc = "done")
    /\ WriterIn(k) /\ f_writer.pc # "open" => f_writer.sem = k
    /\ ReaderIn(k) /\ f_reader.pc # "open" => f_reader.sem = k
    /\ f_name = IF ReaderIn(k) /\ f_reader.pc = "done" THEN k + 1 ELSE k

\* Each semaphore holds what one of the two has posted in this round and the other has
\* not waited for.
Balanced(k) ==
    /\ \A s \in k + 1 .. FILE_RUNS + 1 : f_semaphore[s] = 0
    /\ f_semaphore[k] + Waited(k) = Permitted(k) + Returned(k)
    /\ f_semaphore1 + Met(k) = Posted(k)

AddedInRound(k) == \A j \in File!Used : f_added[j] = IF j < Changed(k) THEN k ELSE k - 1

BytesRead ==
    \A j \in File!Used :
        j < f_reader.i + (IF f_reader.pc = "post" THEN 1 ELSE 0) => f_read[j] = f_reader.run

FileRound(k) == InRound(k) /\ Balanced(k) /\ AddedInRound(k)

FileInv ==
    /\ FilePlaces
    /\ f_size > 1 /\ f_orderly =>
          FileTypes /\ BytesRead /\ \E k \in 1 .. FILE_RUNS + 1 : FileRound(k)

LEMMA FileInit == File!Init => FileInv
  <1> SUFFICES ASSUME File!Init PROVE FileInv
    OBVIOUS
  <1>1. f_size \in Nat /\ FILE_RUNS \in Nat
    BY MCFilesAssumption DEF File!Init
  <1>2. /\ f_writer.run = 0 /\ f_writer.pc = "done" /\ f_writer.i = 0
        /\ f_reader.run = 0 /\ f_reader.pc = "done" /\ f_reader.i = 0
        /\ f_name = 1 /\ f_semaphore1 = 0
        /\ f_writer \in Processes(WriterPlaces) /\ f_reader \in Processes(ReaderPlaces)
    BY DEF File!Init, Processes, WriterPlaces, ReaderPlaces
  <1>3. FilePlaces
    BY <1>1, <1>2 DEF FilePlaces, InPlace
  <1>4. FileTypes /\ BytesRead
    BY <1>1, <1>2 DEF File!Init, FileTypes, BytesRead
  <1>5. InRound(1)
    BY <1>2 DEF InRound, WriterIn, ReaderIn
  <1>6. Balanced(1)
    <2>1. Waited(1) = 0 /\ Permitted(1) = 0 /\ Returned(1) = 0 /\ Met(1) = 0 /\ Posted(1) = 0
      BY <1>2 DEF Waited, Permitted, Returned, Met, Posted, WriterIn, ReaderIn
    <2>2. \A s \in 1 .. FILE_RUNS + 1 : f_semaphore[s] = 0
      BY DEF File!Init
    <2> QED
      BY <1>1, <1>2, <2>1, <2>2 DEF Balanced
  <1>7. AddedInRound(1)
    <2>1. Changed(1) = 0
      BY <1>2 DEF Changed, WriterIn
    <2> QED
      BY <1>1, <2>1 DEF AddedInRound, File!Init, File!Used
  <1> QED
    BY <1>1, <1>3, <1>4, <1>5, <1>6, <1>7 DEF FileInv, FileRound

LEMMA FilePlacesStep == ASSUME FilePlaces, File!Next PROVE FilePlaces' /\ f_size' = f_size
  <1>1. f_size' = f_size
    BY DEF File!Next, File!StartWriter, File!StartReader, File!WriterStep, File!OpenWriter,
           File!FirstPost, File!WriterWait, File!Add, File!WriterPost, File!EndWriter,
           File!ReaderStep, File!OpenReader, File!ReaderWait, File!PrintByte,
           File!ReaderPost, File!Unlink
  <1>2. /\ FILE_RUNS \in Nat /\ f_size \in Nat /\ f_name \in Nat
        /\ f_writer \in Processes(WriterPlaces) /\ f_reader \in Processes(ReaderPlaces)
        /\ InPlace(f_writer) /\ InPlace(f_reader)
    BY MCFilesAssumption DEF FilePlaces
  <1>3. /\ f_writer.i \in Nat /\ f_writer.run \in Nat /\ f_writer.pc \in WriterPlaces
        /\ f_reader.i \in Nat /\ f_reader.run \in Nat /\ f_reader.pc \in ReaderPlaces
    BY <1>2 DEF Processes
  <1>19. /\ {"first_post", "wait", "add", "post", "end", "done"} \subseteq WriterPlaces
        /\ {"wait", "print", "post", "end", "done"} \subseteq ReaderPlaces
    BY DEF WriterPlaces, ReaderPlaces
  <1>4. ASSUME f_reader' = f_reader, f_name' \in Nat, f_writer' \in Processes(WriterPlaces),
               InPlace(f_writer)'
        PROVE  FilePlaces'
    BY <1>1, <1>2, <1>4 DEF FilePlaces, InPlace
  <1>5. ASSUME f_writer' = f_writer, f_name' \in Nat, f_reader' \in Processes(ReaderPlaces),
               InPlace(f_reader)'
        PROVE  FilePlaces'
    BY <1>1, <1>2, <1>5 DEF FilePlaces, InPlace
  <1>6. ASSUME File!StartWriter PROVE FilePlaces'
    <2>1. /\ f_reader' = f_reader /\ f_name' = f_name /\ f_writer.run < FILE_RUNS
          /\ f_writer' = [pc |-> "open", run |-> f_writer.run + 1, i |-> 0, sem |-> 0]
      BY <1>6 DEF File!StartWriter
    <2>2. f_writer' \in Processes(WriterPlaces)
      BY <1>3, <2>1 DEF Processes, WriterPlaces
    <2>3. f_writer'.pc = "open" /\ f_writer'.run = f_writer.run + 1 /\ f_writer'.i = 0
      BY <2>1
    <2>4. InPlace(f_writer)'
      BY <1>1, <1>2, <1>3, <2>1, <2>3 DEF InPlace
    <2> QED
      BY <1>2, <1>4, <2>1, <2>2, <2>4
  <1>7. ASSUME File!OpenWriter PROVE FilePlaces'
    <2>1. /\ f_reader' = f_reader /\ f_name' = f_name /\ f_writer.pc = "open"
          /\ f_writer' = [f_writer EXCEPT !.pc = "first_post", !.sem = f_name]
      BY <1>7 DEF File!OpenWriter
    <2>2. /\ f_writer' \in Processes(WriterPlaces) /\ f_writer'.pc = "first_post"
          /\ f_writer'.i = f_writer.i /\ f_writer'.run = f_writer.run
      BY <1>2, <2>1, <1>19 DEF Processes
    <2>3. InPlace(f_writer)'
      BY <1>1, <1>2, <1>3, <2>1, <2>2 DEF InPlace
    <2> QED
      BY <1>2, <1>4, <2>1, <2>2, <2>3
  <1>8. ASSUME File!FirstPost PROVE FilePlaces'
    <2>1. /\ f_reader' = f_reader /\ f_name' = f_name /\ f_writer.pc = "first_post"
          /\ f_writer' = [f_writer EXCEPT !.pc = IF 0 < f_size - 1 THEN "wait" ELSE "end", !.i = 0]
      BY <1>8 DEF File!FirstPost, File!Loop
    <2>2. /\ f_writer' \in Processes(WriterPlaces)
          /\ f_writer'.pc = IF 0 < f_size - 1 THEN "wait" ELSE "end"
          /\ f_writer'.i = 0 /\ f_writer'.run = f_writer.run
      BY <1>2, <2>1, <1>19 DEF Processes
    <2>3. InPlace(f_writer)'
      BY <1>1, <1>2, <1>3, <2>1, <2>2 DEF InPlace
    <2> QED
      BY <1>2, <1>4, <2>1, <2>2, <2>3
  <1>9. ASSUME File!WriterWait PROVE FilePlaces'
    <2>1. /\ f_reader' = f_reader /\ f_name' = f_name /\ f_writer.pc = "wait"
          /\ f_writer' = [f_writer EXCEPT !.pc = "add"]
      BY <1>9 DEF File!WriterWait
    <2>2. /\ f_writer' \in Processes(WriterPlaces) /\ f_writer'.pc = "add"
          /\ f_writer'.i = f_writer.i /\ f_writer'.run = f_writer.run
      BY <1>2, <2>1, <1>19 DEF Processes
    <2>3. InPlace(f_writer)'
      BY <1>1, <1>2, <1>3, <2>1, <2>2 DEF InPlace
    <2> QED
      BY <1>2, <1>4, <2>1, <2>2, <2>3
  <1>10. ASSUME File!Add PROVE FilePlaces'
    <2>1. /\ f_reader' = f_reader /\ f_name' = f_name /\ f_writer.pc = "add"
          /\ f_writer' = [f_writer EXCEPT !.pc = "post"]
      BY <1>10 DEF File!Add
    <2>2. /\ f_writer' \in Processes(WriterPlaces) /\ f_writer'.pc = "post"
          /\ f_writer'.i = f_writer.i /\ f_writer'.run = f_writer.run
      BY <1>2, <2>1, <1>19 DEF Processes
    <2>3. InPlace(f_writer)'
      BY <1>1, <1>2, <1>3, <2>1, <2>2 DEF InPlace
    <2> QED
      BY <1>2, <1>4, <2>1, <2>2, <2>3
  <1>11. ASSUME File!WriterPost PROVE FilePlaces'
    <2>1. /\ f_reader' = f_reader /\ f_name' = f_name /\ f_writer.pc = "post"
          /\ f_writer' = [f_writer EXCEPT !.pc = IF f_writer.i + 1 < f_size - 1 THEN "wait" ELSE "end",
                                          !.i = f_writer.i + 1]
      BY <1>11 DEF File!WriterPost, File!Loop
    <2>2. /\ f_writer' \in Processes(WriterPlaces)
          /\ f_writer'.pc = IF f_writer.i + 1 < f_size - 1 THEN "wait" ELSE "end"
          /\ f_writer'.i = f_writer.i + 1 /\ f_writer'.run = f_writer.run
      <3>1. f_writer.i + 1 \in Nat
        BY <1>3
      <3> QED
        BY <1>2, <2>1, <3>1, <1>19 DEF Processes
    <2>3. InPlace(f_writer)'
      BY <1>1, <1>2, <1>3, <2>1, <2>2 DEF InPlace
    <2> QED
      BY <1>2, <1>4, <2>1, <2>2, <2>3
  <1>12. ASSUME File!EndWriter PROVE FilePlaces'
    <2>1. /\ f_reader' = f_reader /\ f_name' = f_name /\ f_writer.pc = "end"
          /\ f_writer' = [f_writer EXCEPT !.pc = "done"]
      BY <1>12 DEF File!EndWriter
    <2>2. /\ f_writer' \in Processes(WriterPlaces) /\ f_writer'.pc = "done"
          /\ f_writer'.i = f_writer.i /\ f_writer'.run = f_writer.run
      BY <1>2, <2>1, <1>19 DEF Processes
    <2>3. InPlace(f_writer)'
      BY <1>1, <1>2, <1>3, <2>1, <2>2 DEF InPlace
    <2> QED
      BY <1>2, <1>4, <2>1, <2>2, <2>3
  <1>13. ASSUME File!StartReader PROVE FilePlaces'
    <2>1. /\ f_writer' = f_writer /\ f_name' = f_name /\ f_reader.run < FILE_RUNS
          /\ f_reader' = [pc |-> "open", run |-> f_reader.run + 1, i |-> 0, sem |-> 0]
      BY <1>13 DEF File!StartReader
    <2>2. f_reader' \in Processes(ReaderPlaces)
      BY <1>3, <2>1 DEF Processes, ReaderPlaces
    <2>3. f_reader'.pc = "open" /\ f_reader'.run = f_reader.run + 1 /\ f_reader'.i = 0
      BY <2>1
    <2>4. InPlace(f_reader)'
      BY <1>1, <1>2, <1>3, <2>1, <2>3 DEF InPlace
    <2> QED
      BY <1>2, <1>5, <2>1, <2>2, <2>4
  <1>14. ASSUME File!OpenReader PROVE FilePlaces'
    <2>1. /\ f_writer' = f_writer /\ f_name' = f_name /\ f_reader.pc = "open"
          /\ f_reader' = [[f_reader EXCEPT !.sem = f_name] EXCEPT
                             !.pc = IF 0 < f_size - 1 THEN "wait" ELSE "end", !.i = 0]
      BY <1>14 DEF File!OpenReader, File!Loop
    <2>2. /\ [f_reader EXCEPT !.sem = f_name] \in Processes(ReaderPlaces)
          /\ [f_reader EXCEPT !.sem = f_name].run = f_reader.run
      BY <1>2 DEF Processes
    <2>3. /\ f_reader' \in Processes(ReaderPlaces)
          /\ f_reader'.pc = IF 0 < f_size - 1 THEN "wait" ELSE "end"
          /\ f_reader'.i = 0 /\ f_reader'.run = f_reader.run
      BY <1>2, <2>1, <2>2, <1>19 DEF Processes
    <2>4. InPlace(f_reader)'
      BY <1>1, <1>2, <1>3, <2>1, <2>3 DEF InPlace
    <2> QED
      BY <1>2, <1>5, <2>1, <2>3, <2>4
  <1>15. ASSUME File!ReaderWait PROVE FilePlaces'
    <2>1. /\ f_writer' = f_writer /\ f_name' = f_name /\ f_reader.pc = "wait"
          /\ f_reader' = [f_reader EXCEPT !.pc = "print"]
      BY <1>15 DEF File!ReaderWait
    <2>2. /\ f_reader' \in Processes(ReaderPlaces) /\ f_reader'.pc = "print"
          /\ f_reader'.i = f_reader.i /\ f_reader'.run = f_reader.run
      BY <1>2, <2>1, <1>19 DEF Processes
    <2>3. InPlace(f_reader)'
      BY <1>1, <1>2, <1>3, <2>1, <2>2 DEF InPlace
    <2> QED
      BY <1>2, <1>5, <2>1, <2>2, <2>3
  <1>16. ASSUME File!PrintByte PROVE FilePlaces'
    <2>1. /\ f_writer' = f_writer /\ f_name' = f_name /\ f_reader.pc = "print"
          /\ f_reader' = [f_reader EXCEPT !.pc = "post"]
      BY <1>16 DEF File!PrintByte
    <2>2. /\ f_reader' \in Processes(ReaderPlaces) /\ f_reader'.pc = "post"
          /\ f_reader'.i = f_reader.i /\ f_reader'.run = f_reader.run
      BY <1>2, <2>1, <1>19 DEF Processes
    <2>3. InPlace(f_reader)'
      BY <1>1, <1>2, <1>3, <2>1, <2>2 DEF InPlace
    <2> QED
      BY <1>2, <1>5, <2>1, <2>2, <2>3
  <1>17. ASSUME File!ReaderPost PROVE FilePlaces'
    <2>1. /\ f_writer' = f_writer /\ f_name' = f_name /\ f_reader.pc = "post"
          /\ f_reader' = [f_reader EXCEPT !.pc = IF f_reader.i + 1 < f_size - 1 THEN "wait" ELSE "end",
                                          !.i = f_reader.i + 1]
      BY <1>17 DEF File!ReaderPost, File!Loop
    <2>2. /\ f_reader' \in Processes(ReaderPlaces)
          /\ f_reader'.pc = IF f_reader.i + 1 < f_size - 1 THEN "wait" ELSE "end"
          /\ f_reader'.i = f_reader.i + 1 /\ f_reader'.run = f_reader.run
      <3>1. f_reader.i + 1 \in Nat
        BY <1>3
      <3> QED
        BY <1>2, <2>1, <3>1, <1>19 DEF Processes
    <2>3. InPlace(f_reader)'
      BY <1>1, <1>2, <1>3, <2>1, <2>2 DEF InPlace
    <2> QED
      BY <1>2, <1>5, <2>1, <2>2, <2>3
  <1>18. ASSUME File!Unlink PROVE FilePlaces'
    <2>1. /\ f_writer' = f_writer /\ f_name' = f_name + 1 /\ f_reader.pc = "end"
          /\ f_reader' = [f_reader EXCEPT !.pc = "done"]
      BY <1>18 DEF File!Unlink
    <2>2. /\ f_reader' \in Processes(ReaderPlaces) /\ f_reader'.pc = "done"
          /\ f_reader'.i = f_reader.i /\ f_reader'.run = f_reader.run
      BY <1>2, <2>1, <1>19 DEF Processes
    <2>3. InPlace(f_reader)'
      BY <1>1, <1>2, <1>3, <2>1, <2>2 DEF InPlace
    <2> QED
      BY <1>2, <1>5, <2>1, <2>2, <2>3
  <1> QED
    BY <1>1, <1>6, <1>7, <1>8, <1>9, <1>10, <1>11, <1>12, <1>13, <1>14, <1>15, <1>16, <1>17, <1>18
    DEF File!Next, File!WriterStep, File!ReaderStep

\* The state of a round, with the numbers that its steps change.
FileAt(k) == FilePlaces /\ FileTypes /\ BytesRead /\ FileRound(k)

LEMMA FileNumbers ==
    ASSUME NEW k \in 1 .. FILE_RUNS + 1, FileAt(k), f_size > 1
    PROVE  /\ FILE_RUNS \in Nat /\ f_size \in Nat /\ k \in Nat
           /\ f_writer \in Processes(WriterPlaces) /\ f_reader \in Processes(ReaderPlaces)
           /\ f_writer.i \in Nat /\ f_writer.run \in Nat /\ f_writer.sem \in Nat
           /\ f_reader.i \in Nat /\ f_reader.run \in Nat /\ f_reader.sem \in Nat
           /\ f_writer.pc \in WriterPlaces /\ f_reader.pc \in ReaderPlaces
           /\ Waited(k) \in Nat /\ Changed(k) \in Nat /\ Posted(k) \in Nat
           /\ Permitted(k) \in 0 .. 1 /\ Met(k) \in Nat /\ Returned(k) \in Nat
           /\ f_semaphore[k] \in Nat /\ f_semaphore1 \in Nat
           /\ (f_writer.pc # "done" => WriterIn(k)) /\ (f_reader.pc # "done" => ReaderIn(k))
           /\ (WriterIn(k) => f_writer.run = k) /\ (ReaderIn(k) => f_reader.run = k)
           /\ \A j \in File!Used : j \in Nat /\ j < f_size - 1
  <1>1. FILE_RUNS \in Nat
    BY MCFilesAssumption
  <1>2. /\ f_size \in Nat /\ k \in Nat
        /\ f_writer \in Processes(WriterPlaces) /\ f_reader \in Processes(ReaderPlaces)
    BY <1>1 DEF FileAt, FilePlaces
  <1>3. /\ f_writer.i \in Nat /\ f_writer.run \in Nat /\ f_writer.sem \in Nat
        /\ f_reader.i \in Nat /\ f_reader.run \in Nat /\ f_reader.sem \in Nat
        /\ f_writer.pc \in WriterPlaces /\ f_reader.pc \in ReaderPlaces
    BY <1>2 DEF Processes
  <1>4. /\ Waited(k) \in Nat /\ Changed(k) \in Nat /\ Posted(k) \in Nat
        /\ Permitted(k) \in 0 .. 1 /\ Met(k) \in Nat /\ Returned(k) \in Nat
    BY <1>3 DEF Waited, Changed, Posted, Permitted, Met, Returned
  <1>5. f_semaphore[k] \in Nat /\ f_semaphore1 \in Nat
    BY DEF FileAt, FileTypes
  <1>6. (f_writer.pc # "done" => WriterIn(k)) /\ (f_reader.pc # "done" => ReaderIn(k))
    BY DEF FileAt, FileRound, InRound
  <1>7. \A j \in File!Used : j \in Nat /\ j < f_size - 1
    BY <1>2 DEF File!Used
  <1> QED
    BY <1>1, <1>2, <1>3, <1>4, <1>5, <1>6, <1>7 DEF WriterIn, ReaderIn

\* What the one does does not change what the other has done.
LEMMA OtherKeeps ==
    ASSUME NEW k
    PROVE  /\ UNCHANGED f_reader =>
                 Met(k)' = Met(k) /\ Returned(k)' = Returned(k) /\ ReaderIn(k)' = ReaderIn(k)
           /\ UNCHANGED f_writer =>
                 /\ Permitted(k)' = Permitted(k) /\ Waited(k)' = Waited(k)
                 /\ Changed(k)' = Changed(k) /\ Posted(k)' = Posted(k)
                 /\ WriterIn(k)' = WriterIn(k)
  BY DEF Met, Returned, ReaderIn, Permitted, Waited, Changed, Posted, WriterIn

\* What a step has to show of the semaphores.
LEMMA Balance ==
    ASSUME NEW k \in 1 .. FILE_RUNS + 1, FileAt(k), f_size > 1,
           \A s \in k + 1 .. FILE_RUNS + 1 : f_semaphore'[s] = f_semaphore[s],
           f_semaphore'[k] \in Nat, f_semaphore1' \in Nat, Waited(k)' \in Nat, Permitted(k)' \in Nat,
           Returned(k)' \in Nat, Met(k)' \in Nat, Posted(k)' \in Nat,
           (f_semaphore'[k] - f_semaphore[k]) + (Waited(k)' - Waited(k))
               = (Permitted(k)' - Permitted(k)) + (Returned(k)' - Returned(k)),
           (f_semaphore1' - f_semaphore1) + (Met(k)' - Met(k)) = Posted(k)' - Posted(k)
    PROVE  Balanced(k)'
  <1>1. /\ f_semaphore[k] + Waited(k) = Permitted(k) + Returned(k)
        /\ f_semaphore1 + Met(k) = Posted(k)
        /\ \A s \in k + 1 .. FILE_RUNS + 1 : f_semaphore[s] = 0
    BY DEF FileAt, FileRound, Balanced
  <1>2. /\ Waited(k) \in Nat /\ Permitted(k) \in Nat /\ Returned(k) \in Nat /\ Met(k) \in Nat
        /\ Posted(k) \in Nat /\ f_semaphore[k] \in Nat /\ f_semaphore1 \in Nat
    BY FileNumbers
  <1>3. f_semaphore'[k] + Waited(k)' = Permitted(k)' + Returned(k)'
    BY <1>1, <1>2
  <1>4. f_semaphore1' + Met(k)' = Posted(k)'
    BY <1>1, <1>2
  <1> QED
    BY <1>1, <1>3, <1>4 DEF Balanced

LEMMA StartWriterRound ==
    ASSUME NEW k \in 1 .. FILE_RUNS + 1, FileAt(k), f_size > 1, File!StartWriter, f_orderly'
    PROVE  FileTypes' /\ BytesRead' /\ FileRound(k)'
  <1>1. /\ f_writer.pc = "done" /\ f_writer'.pc = "open" /\ f_writer'.run = f_writer.run + 1
        /\ f_writer'.i = 0 /\ f_writer'.sem = 0
        /\ UNCHANGED <<f_size, f_name, f_semaphore, f_semaphore1, f_added, f_read, f_reader>>
        /\ (f_reader.run > f_writer.run \/ (f_reader.run = f_writer.run /\ f_reader.pc = "done"))
    BY DEF File!StartWriter
  <1>2. /\ k \in Nat /\ f_writer.run \in Nat /\ f_reader.run \in Nat
        /\ Met(k)' = Met(k) /\ Returned(k)' = Returned(k)
    BY <1>1, FileNumbers, OtherKeeps
  <1>3. f_writer.run = k - 1
    BY <1>1, <1>2 DEF FileAt, FileRound, InRound, WriterIn, ReaderIn
  <1>4. f_writer'.run = k /\ ~WriterIn(k) /\ WriterIn(k)'
    BY <1>1, <1>2, <1>3 DEF WriterIn
  <1>5. FileTypes' /\ BytesRead'
    BY <1>1 DEF FileAt, FileTypes, BytesRead, File!Used
  <1>6. /\ Permitted(k) = 0 /\ Waited(k) = 0 /\ Changed(k) = 0 /\ Posted(k) = 0
        /\ Permitted(k)' = 0 /\ Waited(k)' = 0 /\ Changed(k)' = 0 /\ Posted(k)' = 0
    BY <1>1, <1>4 DEF Permitted, Waited, Changed, Posted
  <1>7. InRound(k)'
    BY <1>1, <1>4 DEF FileAt, FileRound, InRound, ReaderIn
  <1>8. Balanced(k)'
    BY <1>1, <1>2, <1>6 DEF FileAt, FileRound, Balanced
  <1>9. AddedInRound(k)'
    BY <1>1, <1>6 DEF FileAt, FileRound, AddedInRound, File!Used
  <1> QED
    BY <1>5, <1>7, <1>8, <1>9 DEF FileRound

LEMMA OpenWriterRound ==
    ASSUME NEW k \in 1 .. FILE_RUNS + 1, FileAt(k), f_size > 1, File!OpenWriter
    PROVE  FileTypes' /\ BytesRead' /\ FileRound(k)'
  <1>1. /\ f_writer.pc = "open" /\ f_writer' = [f_writer EXCEPT !.pc = "first_post", !.sem = f_name]
        /\ UNCHANGED <<f_size, f_name, f_semaphore, f_semaphore1, f_added, f_read, f_reader>>
    BY DEF File!OpenWriter
  <1>2. /\ f_writer'.pc = "first_post" /\ f_writer'.run = f_writer.run /\ f_writer'.i = f_writer.i
        /\ f_writer'.sem = f_name
    BY <1>1, FileNumbers DEF Processes
  <1>3. /\ f_writer.run = k /\ f_writer'.run = k /\ WriterIn(k) /\ WriterIn(k)'
        /\ Met(k)' = Met(k) /\ Returned(k)' = Returned(k) /\ f_reader.i \in Nat /\ f_size \in Nat
    BY <1>1, <1>2, FileNumbers, OtherKeeps DEF WriterIn
  <1>4. f_writer.i = 0
    BY <1>1 DEF FileAt, FilePlaces, InPlace
  <1>5. /\ Permitted(k) = 0 /\ Waited(k) = 0 /\ Changed(k) = 0 /\ Posted(k) = 0
        /\ Permitted(k)' = 0 /\ Waited(k)' = 0 /\ Changed(k)' = 0 /\ Posted(k)' = 0
    BY <1>1, <1>2, <1>3, <1>4 DEF Permitted, Waited, Changed, Posted
  <1>6. ~(ReaderIn(k) /\ f_reader.pc = "done")
    <2> SUFFICES ASSUME ReaderIn(k), f_reader.pc = "done" PROVE FALSE
      OBVIOUS
    <2>1. f_reader.i = f_size - 1
      BY FileNumbers DEF FileAt, FilePlaces, InPlace, ReaderIn
    <2>2. Met(k) = f_reader.i
      BY <1>3 DEF Met
    <2>3. Met(k) = 0
      BY <1>5, FileNumbers DEF FileAt, FileRound, Balanced
    <2> QED
      BY <1>3, <2>1, <2>2, <2>3
  <1>7. FileTypes' /\ BytesRead'
    BY <1>1 DEF FileAt, FileTypes, BytesRead, File!Used
  <1>8. InRound(k)'
    BY <1>1, <1>2, <1>3, <1>6 DEF FileAt, FileRound, InRound, ReaderIn
  <1>9. Balanced(k)'
    BY <1>1, <1>3, <1>5 DEF FileAt, FileRound, Balanced
  <1>10. AddedInRound(k)'
    BY <1>1, <1>5 DEF FileAt, FileRound, AddedInRound, File!Used
  <1> QED
    BY <1>7, <1>8, <1>9, <1>10 DEF FileRound

LEMMA FirstPostRound ==
    ASSUME NEW k \in 1 .. FILE_RUNS + 1, FileAt(k), f_size > 1, File!FirstPost
    PROVE  FileTypes' /\ BytesRead' /\ FileRound(k)'
  <1>1. /\ f_writer.pc = "first_post" /\ f_writer' = [f_writer EXCEPT !.pc = "wait", !.i = 0]
        /\ f_semaphore' = [f_semaphore EXCEPT ![f_writer.sem] = @ + 1]
        /\ UNCHANGED <<f_size, f_name, f_semaphore1, f_added, f_read, f_reader>>
    <2>1. 0 < f_size - 1
      BY FileNumbers
    <2> QED
      BY <2>1 DEF File!FirstPost, File!Loop
  <1>2. /\ f_writer'.pc = "wait" /\ f_writer'.run = f_writer.run /\ f_writer'.i = 0
        /\ f_writer'.sem = f_writer.sem
    BY <1>1, FileNumbers DEF Processes
  <1>3. /\ f_writer.run = k /\ f_writer'.run = k /\ WriterIn(k) /\ WriterIn(k)'
        /\ Met(k)' = Met(k) /\ Returned(k)' = Returned(k)
    BY <1>1, <1>2, FileNumbers, OtherKeeps DEF WriterIn
  <1>4. f_writer.i = 0 /\ f_writer.sem = k
    BY <1>1, <1>3 DEF FileAt, FilePlaces, InPlace, FileRound, InRound
  <1>5. /\ Permitted(k) = 0 /\ Waited(k) = 0 /\ Changed(k) = 0 /\ Posted(k) = 0
        /\ Permitted(k)' = 1 /\ Waited(k)' = 0 /\ Changed(k)' = 0 /\ Posted(k)' = 0
    BY <1>1, <1>2, <1>3, <1>4 DEF Permitted, Waited, Changed, Posted
  <1>6. /\ f_semaphore'[k] = f_semaphore[k] + 1
        /\ \A s \in k + 1 .. FILE_RUNS + 1 : f_semaphore'[s] = f_semaphore[s]
        /\ f_semaphore' \in [1 .. FILE_RUNS + 1 -> Nat]
    BY <1>1, <1>4, FileNumbers DEF FileAt, FileTypes
  <1>7. FileTypes' /\ BytesRead'
    BY <1>1, <1>6 DEF FileAt, FileTypes, BytesRead, File!Used
  <1>8. InRound(k)'
    BY <1>1, <1>2, <1>3 DEF FileAt, FileRound, InRound, ReaderIn
  <1>9. Balanced(k)'
    BY <1>1, <1>3, <1>5, <1>6, FileNumbers, Balance, SMTT(30)
  <1>10. AddedInRound(k)'
    BY <1>1, <1>5 DEF FileAt, FileRound, AddedInRound, File!Used
  <1> QED
    BY <1>7, <1>8, <1>9, <1>10 DEF FileRound

LEMMA WriterWaitRound ==
    ASSUME NEW k \in 1 .. FILE_RUNS + 1, FileAt(k), f_size > 1, File!WriterWait
    PROVE  FileTypes' /\ BytesRead' /\ FileRound(k)'
  <1>1. /\ f_writer.pc = "wait" /\ f_writer' = [f_writer EXCEPT !.pc = "add"]
        /\ f_semaphore[f_writer.sem] > 0
        /\ f_semaphore' = [f_semaphore EXCEPT ![f_writer.sem] = @ - 1]
        /\ UNCHANGED <<f_size, f_name, f_semaphore1, f_added, f_read, f_reader>>
    BY DEF File!WriterWait
  <1>2. /\ f_writer'.pc = "add" /\ f_writer'.run = f_writer.run /\ f_writer'.i = f_writer.i
        /\ f_writer'.sem = f_writer.sem
    BY <1>1, FileNumbers DEF Processes
  <1>3. /\ f_writer.run = k /\ f_writer'.run = k /\ WriterIn(k) /\ WriterIn(k)'
        /\ Met(k)' = Met(k) /\ Returned(k)' = Returned(k) /\ f_writer.i \in Nat
    BY <1>1, <1>2, FileNumbers, OtherKeeps DEF WriterIn
  <1>4. f_writer.sem = k
    BY <1>1, <1>3 DEF FileAt, FileRound, InRound
  <1>5. /\ Permitted(k)' = Permitted(k) /\ Waited(k)' = Waited(k) + 1
        /\ Changed(k)' = Changed(k) /\ Posted(k)' = Posted(k)
    BY <1>1, <1>2, <1>3 DEF Permitted, Waited, Changed, Posted
  <1>6. /\ f_semaphore'[k] = f_semaphore[k] - 1
        /\ \A s \in k + 1 .. FILE_RUNS + 1 : f_semaphore'[s] = f_semaphore[s]
        /\ f_semaphore' \in [1 .. FILE_RUNS + 1 -> Nat]
    BY <1>1, <1>4, FileNumbers DEF FileAt, FileTypes
  <1>7. FileTypes' /\ BytesRead'
    BY <1>1, <1>6 DEF FileAt, FileTypes, BytesRead, File!Used
  <1>8. InRound(k)'
    BY <1>1, <1>2, <1>3 DEF FileAt, FileRound, InRound, ReaderIn
  <1>9. Balanced(k)'
    <2>1. /\ f_semaphore[k] \in Nat /\ Waited(k) \in Nat /\ Permitted(k) \in Nat
          /\ Returned(k) \in Nat /\ Met(k) \in Nat /\ Posted(k) \in Nat /\ f_semaphore1 \in Nat
      BY FileNumbers
    <2>2. f_semaphore'[k] \in Nat /\ Waited(k)' \in Nat
      BY <1>5, <1>6, <2>1
    <2> QED
      BY <1>1, <1>3, <1>5, <1>6, <2>1, <2>2, Balance, SMTT(20)
  <1>10. AddedInRound(k)'
    BY <1>1, <1>5 DEF FileAt, FileRound, AddedInRound, File!Used
  <1> QED
    BY <1>7, <1>8, <1>9, <1>10 DEF FileRound

LEMMA AddRound ==
    ASSUME NEW k \in 1 .. FILE_RUNS + 1, FileAt(k), f_size > 1, File!Add
    PROVE  FileTypes' /\ BytesRead' /\ FileRound(k)'
  <1>1. /\ f_writer.pc = "add" /\ f_writer' = [f_writer EXCEPT !.pc = "post"]
        /\ f_added' = [f_added EXCEPT ![f_writer.i] = @ + 1]
        /\ UNCHANGED <<f_size, f_name, f_semaphore, f_semaphore1, f_read, f_reader>>
    BY DEF File!Add
  <1>2. /\ f_writer'.pc = "post" /\ f_writer'.run = f_writer.run /\ f_writer'.i = f_writer.i
        /\ f_writer'.sem = f_writer.sem
    BY <1>1, FileNumbers DEF Processes
  <1>3. /\ f_writer.run = k /\ f_writer'.run = k /\ WriterIn(k) /\ WriterIn(k)'
        /\ Met(k)' = Met(k) /\ Returned(k)' = Returned(k) /\ f_writer.i \in Nat
        /\ f_size \in Nat /\ k \in Nat
    BY <1>1, <1>2, FileNumbers, OtherKeeps DEF WriterIn
  <1>4. f_writer.i < f_size - 1
    BY <1>1 DEF FileAt, FilePlaces, InPlace
  <1>5. /\ Permitted(k)' = Permitted(k) /\ Waited(k)' = Waited(k)
        /\ Changed(k)' = Changed(k) + 1 /\ Changed(k) = f_writer.i /\ Posted(k)' = Posted(k)
    BY <1>1, <1>2, <1>3 DEF Permitted, Waited, Changed, Posted
  <1>6. f_writer.i \in File!Used /\ File!Used' = File!Used
    BY <1>1, <1>3, <1>4 DEF File!Used
  <1>7. FileTypes' /\ BytesRead'
    BY <1>1, <1>6 DEF FileAt, FileTypes, BytesRead
  <1>8. InRound(k)'
    BY <1>1, <1>2, <1>3 DEF FileAt, FileRound, InRound, ReaderIn
  <1>9. Balanced(k)'
    BY <1>1, <1>3, <1>5 DEF FileAt, FileRound, Balanced
  <1>10. AddedInRound(k)'
    <2>1. f_added \in [File!Used -> Nat] /\ f_added[f_writer.i] = k - 1
      BY <1>3, <1>5, <1>6 DEF FileAt, FileTypes, FileRound, AddedInRound
    <2>2. /\ f_added'[f_writer.i] = k
          /\ \A j \in File!Used : j # f_writer.i => f_added'[j] = f_added[j]
      BY <1>1, <1>3, <1>6, <2>1
    <2>3. \A j \in File!Used : j \in Nat
      BY FileNumbers
    <2>4. ASSUME NEW j \in File!Used PROVE f_added'[j] = IF j < f_writer.i + 1 THEN k ELSE k - 1
      <3>1. CASE j = f_writer.i
        BY <1>3, <2>2, <3>1
      <3>2. CASE j # f_writer.i
        BY <1>3, <1>5, <2>2, <2>3, <3>2 DEF FileAt, FileRound, AddedInRound
      <3> QED
        BY <3>1, <3>2
    <2> QED
      BY <1>5, <1>6, <2>4 DEF AddedInRound
  <1> QED
    BY <1>7, <1>8, <1>9, <1>10 DEF FileRound

LEMMA WriterPostRound ==
    ASSUME NEW k \in 1 .. FILE_RUNS + 1, FileAt(k), f_size > 1, File!WriterPost
    PROVE  FileTypes' /\ BytesRead' /\ FileRound(k)'
  <1>1. /\ f_writer.pc = "post" /\ f_semaphore1' = f_semaphore1 + 1
        /\ f_writer' = [f_writer EXCEPT !.pc = IF f_writer.i + 1 < f_size - 1 THEN "wait" ELSE "end",
                                        !.i = f_writer.i + 1]
        /\ UNCHANGED <<f_size, f_name, f_semaphore, f_added, f_read, f_reader>>
    BY DEF File!WriterPost, File!Loop
  <1>2. /\ f_writer'.pc \in {"wait", "end"} /\ f_writer'.run = f_writer.run
        /\ f_writer'.i = f_writer.i + 1 /\ f_writer'.sem = f_writer.sem
    BY <1>1, FileNumbers DEF Processes
  <1>3. /\ f_writer.run = k /\ f_writer'.run = k /\ WriterIn(k) /\ WriterIn(k)'
        /\ Met(k)' = Met(k) /\ Returned(k)' = Returned(k) /\ f_writer.i \in Nat
    BY <1>1, <1>2, FileNumbers, OtherKeeps DEF WriterIn
  <1>5. /\ Permitted(k)' = Permitted(k) /\ Waited(k)' = Waited(k)
        /\ Changed(k)' = Changed(k) /\ Posted(k)' = Posted(k) + 1
    BY <1>1, <1>2, <1>3 DEF Permitted, Waited, Changed, Posted
  <1>7. FileTypes' /\ BytesRead'
    BY <1>1 DEF FileAt, FileTypes, BytesRead, File!Used
  <1>8. InRound(k)'
    BY <1>1, <1>2, <1>3 DEF FileAt, FileRound, InRound, ReaderIn
  <1>9. Balanced(k)'
    <2>1. /\ f_semaphore[k] \in Nat /\ Waited(k) \in Nat /\ Permitted(k) \in Nat
          /\ Returned(k) \in Nat /\ Met(k) \in Nat /\ Posted(k) \in Nat /\ f_semaphore1 \in Nat
      BY FileNumbers
    <2> QED
      BY <1>1, <1>3, <1>5, <2>1, Balance
  <1>10. AddedInRound(k)'
    BY <1>1, <1>5 DEF FileAt, FileRound, AddedInRound, File!Used
  <1> QED
    BY <1>7, <1>8, <1>9, <1>10 DEF FileRound

\* After the end of both the next round may begin.
LEMMA NextRound ==
    ASSUME NEW k \in 1 .. FILE_RUNS + 1, FileAt(k), f_size > 1, FilePlaces', UNCHANGED f_size,
           f_writer.run = k, f_reader.run = k,
           f_writer.i = f_size - 1, f_reader.i = f_size - 1,
           f_writer.pc \in {"end", "done"}, f_reader.pc \in {"end", "done"},
           f_writer'.run = k, f_writer'.pc = "done", f_reader'.run = k, f_reader'.pc = "done",
           f_name' = k + 1, UNCHANGED <<f_semaphore, f_semaphore1, f_added>>
    PROVE  \E m \in 1 .. FILE_RUNS + 1 : FileRound(m)'
  <1>1. /\ FILE_RUNS \in Nat /\ k \in Nat /\ f_size \in Nat /\ f_semaphore1 \in Nat
        /\ \A j \in File!Used : j \in Nat /\ j < f_size - 1
    BY FileNumbers
  <1>2. k <= FILE_RUNS
    BY DEF FileAt, FilePlaces, InPlace
  <1>3. k + 1 \in 1 .. FILE_RUNS + 1 /\ k # k + 1 /\ (k + 1) - 1 = k
    BY <1>1, <1>2
  <1>4. ~WriterIn(k + 1)' /\ ~ReaderIn(k + 1)'
    BY <1>3 DEF WriterIn, ReaderIn
  <1>5. InRound(k + 1)'
    BY <1>3, <1>4 DEF InRound, WriterIn
  <1>6. /\ Waited(k + 1)' = 0 /\ Permitted(k + 1)' = 0 /\ Returned(k + 1)' = 0
        /\ Met(k + 1)' = 0 /\ Posted(k + 1)' = 0 /\ Changed(k + 1)' = 0
    BY <1>4 DEF Waited, Permitted, Returned, Met, Posted, Changed
  <1>7. f_semaphore1 = 0
    <2>1. Met(k) = f_size - 1 /\ Posted(k) = f_size - 1
      BY <1>1 DEF Met, Posted, WriterIn, ReaderIn
    <2>2. f_semaphore1 + Met(k) = Posted(k)
      BY DEF FileAt, FileRound, Balanced
    <2> QED
      BY <1>1, <2>1, <2>2
  <1>8. \A s \in k + 1 .. FILE_RUNS + 1 : f_semaphore[s] = 0
    BY DEF FileAt, FileRound, Balanced
  <1>9. Balanced(k + 1)'
    <2>1. \A s \in (k + 1) + 1 .. FILE_RUNS + 1 : f_semaphore[s] = 0
      BY <1>1, <1>8
    <2>2. f_semaphore[k + 1] = 0
      BY <1>1, <1>3, <1>8
    <2> QED
      BY <1>6, <1>7, <2>1, <2>2 DEF Balanced
  <1>10. AddedInRound(k + 1)'
    <2>1. Changed(k) = f_size - 1
      BY <1>1 DEF Changed, WriterIn
    <2>2. \A j \in File!Used : f_added[j] = k
      BY <1>1, <2>1 DEF FileAt, FileRound, AddedInRound
    <2>3. File!Used' = File!Used
      BY DEF File!Used
    <2>4. \A j \in File!Used : ~(j < 0)
      BY <1>1
    <2> QED
      BY <1>3, <1>6, <2>2, <2>3, <2>4 DEF AddedInRound
  <1> QED
    BY <1>3, <1>5, <1>9, <1>10 DEF FileRound

LEMMA EndWriterRound ==
    ASSUME NEW k \in 1 .. FILE_RUNS + 1, FileAt(k), f_size > 1, File!EndWriter, FilePlaces'
    PROVE  FileTypes' /\ BytesRead' /\ \E m \in 1 .. FILE_RUNS + 1 : FileRound(m)'
  <1>1. /\ f_writer.pc = "end" /\ f_writer' = [f_writer EXCEPT !.pc = "done"]
        /\ UNCHANGED <<f_size, f_name, f_semaphore, f_semaphore1, f_added, f_read, f_reader>>
    BY DEF File!EndWriter
  <1>2. /\ f_writer'.pc = "done" /\ f_writer'.run = f_writer.run
        /\ f_writer'.i = f_writer.i /\ f_writer'.sem = f_writer.sem
    BY <1>1, FileNumbers DEF Processes
  <1>3. /\ f_writer.run = k /\ f_writer'.run = k /\ WriterIn(k) /\ WriterIn(k)'
        /\ Met(k)' = Met(k) /\ Returned(k)' = Returned(k) /\ f_writer.i \in Nat
        /\ k \in Nat /\ k > 0 /\ f_size \in Nat
    BY <1>1, <1>2, FileNumbers, OtherKeeps DEF WriterIn
  <1>4. FileTypes' /\ BytesRead'
    BY <1>1 DEF FileAt, FileTypes, BytesRead, File!Used
  <1>5. CASE ReaderIn(k) /\ f_reader.pc = "done"
    <2>1. f_writer.i = f_size - 1 /\ f_reader.i = f_size - 1 /\ f_reader.run = k
      BY <1>1, <1>3, <1>5 DEF FileAt, FilePlaces, InPlace, ReaderIn
    <2>2. f_name = k + 1
      BY <1>5 DEF FileAt, FileRound, InRound
    <2> QED
      BY <1>1, <1>2, <1>3, <1>4, <1>5, <2>1, <2>2, NextRound
  <1>6. CASE ~(ReaderIn(k) /\ f_reader.pc = "done")
    <2>1. /\ Permitted(k)' = Permitted(k) /\ Waited(k)' = Waited(k)
          /\ Changed(k)' = Changed(k) /\ Posted(k)' = Posted(k)
      BY <1>1, <1>2, <1>3 DEF Permitted, Waited, Changed, Posted
    <2>2. InRound(k)'
      BY <1>1, <1>2, <1>3, <1>6 DEF FileAt, FileRound, InRound, ReaderIn
    <2>3. Balanced(k)'
      BY <1>1, <1>3, <2>1 DEF FileAt, FileRound, Balanced
    <2>4. AddedInRound(k)'
      BY <1>1, <2>1 DEF FileAt, FileRound, AddedInRound, File!Used
    <2> QED
      BY <1>4, <2>2, <2>3, <2>4 DEF FileRound
  <1> QED
    BY <1>5, <1>6

LEMMA StartReaderRound ==
    ASSUME NEW k \in 1 .. FILE_RUNS + 1, FileAt(k), f_size > 1, File!StartReader, f_orderly'
    PROVE  FileTypes' /\ BytesRead' /\ FileRound(k)'
  <1>1. /\ f_reader.pc = "done" /\ f_reader'.pc = "open" /\ f_reader'.run = f_reader.run + 1
        /\ f_reader'.i = 0 /\ f_reader'.sem = 0
        /\ f_read' = [j \in File!Used |-> 0]
        /\ UNCHANGED <<f_size, f_name, f_semaphore, f_semaphore1, f_added, f_writer>>
        /\ (f_writer.run > f_reader.run \/ (f_writer.run = f_reader.run /\ f_writer.pc = "done"))
    BY DEF File!StartReader
  <1>2. /\ k \in Nat /\ f_writer.run \in Nat /\ f_reader.run \in Nat
        /\ Permitted(k)' = Permitted(k) /\ Waited(k)' = Waited(k)
        /\ Changed(k)' = Changed(k) /\ Posted(k)' = Posted(k)
        /\ \A j \in File!Used : j \in Nat
    BY <1>1, FileNumbers, OtherKeeps
  <1>3. f_reader.run = k - 1
    BY <1>1, <1>2 DEF FileAt, FileRound, InRound, WriterIn, ReaderIn
  <1>4. f_reader'.run = k /\ ~ReaderIn(k) /\ ReaderIn(k)'
    BY <1>1, <1>2, <1>3 DEF ReaderIn
  <1>5. FileTypes' /\ BytesRead'
    <2>1. File!Used' = File!Used
      BY <1>1 DEF File!Used
    <2>2. FileTypes'
      BY <1>1, <2>1 DEF FileAt, FileTypes
    <2>3. \A j \in File!Used : ~(j < 0 + 0)
      BY <1>2
    <2> QED
      BY <1>1, <2>1, <2>2, <2>3 DEF BytesRead
  <1>6. Met(k) = 0 /\ Returned(k) = 0 /\ Met(k)' = 0 /\ Returned(k)' = 0
    BY <1>1, <1>4 DEF Met, Returned
  <1>7. InRound(k)'
    BY <1>1, <1>4 DEF FileAt, FileRound, InRound, WriterIn
  <1>8. Balanced(k)'
    BY <1>1, <1>2, <1>6 DEF FileAt, FileRound, Balanced
  <1>9. AddedInRound(k)'
    BY <1>1, <1>2 DEF FileAt, FileRound, AddedInRound, File!Used
  <1> QED
    BY <1>5, <1>7, <1>8, <1>9 DEF FileRound

LEMMA OpenReaderRound ==
    ASSUME NEW k \in 1 .. FILE_RUNS + 1, FileAt(k), f_size > 1, File!OpenReader
    PROVE  FileTypes' /\ BytesRead' /\ FileRound(k)'
  <1>1. /\ f_reader.pc = "open"
        /\ f_reader' = [[f_reader EXCEPT !.sem = f_name] EXCEPT !.pc = "wait", !.i = 0]
        /\ UNCHANGED <<f_size, f_name, f_semaphore, f_semaphore1, f_added, f_read, f_writer>>
    <2>1. 0 < f_size - 1
      BY FileNumbers
    <2> QED
      BY <2>1 DEF File!OpenReader, File!Loop
  <1>2. /\ f_reader'.pc = "wait" /\ f_reader'.run = f_reader.run /\ f_reader'.i = 0
        /\ f_reader'.sem = f_name
    BY <1>1, FileNumbers DEF Processes
  <1>3. /\ f_reader.run = k /\ f_reader'.run = k /\ ReaderIn(k) /\ ReaderIn(k)'
        /\ Permitted(k)' = Permitted(k) /\ Waited(k)' = Waited(k)
        /\ Changed(k)' = Changed(k) /\ Posted(k)' = Posted(k)
        /\ \A j \in File!Used : j \in Nat
    BY <1>1, <1>2, FileNumbers, OtherKeeps DEF ReaderIn
  <1>4. f_reader.i = 0 /\ f_name = k
    BY <1>1 DEF FileAt, FilePlaces, InPlace, FileRound, InRound
  <1>5. Met(k) = 0 /\ Returned(k) = 0 /\ Met(k)' = 0 /\ Returned(k)' = 0
    BY <1>1, <1>2, <1>3, <1>4 DEF Met, Returned
  <1>6. FileTypes' /\ BytesRead'
    <2>1. File!Used' = File!Used /\ FileTypes'
      BY <1>1 DEF FileAt, FileTypes, File!Used
    <2>2. \A j \in File!Used : ~(j < 0 + 0)
      BY <1>3
    <2> QED
      BY <1>2, <2>1, <2>2 DEF BytesRead
  <1>7. InRound(k)'
    BY <1>1, <1>2, <1>3, <1>4 DEF FileAt, FileRound, InRound, WriterIn
  <1>8. Balanced(k)'
    BY <1>1, <1>3, <1>5 DEF FileAt, FileRound, Balanced
  <1>9. AddedInRound(k)'
    BY <1>1, <1>3 DEF FileAt, FileRound, AddedInRound, File!Used
  <1> QED
    BY <1>6, <1>7, <1>8, <1>9 DEF FileRound

LEMMA ReaderWaitRound ==
    ASSUME NEW k \in 1 .. FILE_RUNS + 1, FileAt(k), f_size > 1, File!ReaderWait
    PROVE  FileTypes' /\ BytesRead' /\ FileRound(k)'
  <1>1. /\ f_reader.pc = "wait" /\ f_reader' = [f_reader EXCEPT !.pc = "print"]
        /\ f_semaphore1 > 0 /\ f_semaphore1' = f_semaphore1 - 1
        /\ UNCHANGED <<f_size, f_name, f_semaphore, f_added, f_read, f_writer>>
    BY DEF File!ReaderWait
  <1>2. /\ f_reader'.pc = "print" /\ f_reader'.run = f_reader.run /\ f_reader'.i = f_reader.i
        /\ f_reader'.sem = f_reader.sem
    BY <1>1, FileNumbers DEF Processes
  <1>3. /\ f_reader.run = k /\ f_reader'.run = k /\ ReaderIn(k) /\ ReaderIn(k)'
        /\ Permitted(k)' = Permitted(k) /\ Waited(k)' = Waited(k)
        /\ Changed(k)' = Changed(k) /\ Posted(k)' = Posted(k)
        /\ f_reader.i \in Nat /\ f_semaphore1 \in Nat
    BY <1>1, <1>2, FileNumbers, OtherKeeps DEF ReaderIn
  <1>4. Met(k)' = Met(k) + 1 /\ Returned(k)' = Returned(k)
    BY <1>1, <1>2, <1>3 DEF Met, Returned
  <1>5. f_semaphore1' \in Nat
    BY <1>1, <1>3
  <1>6. FileTypes' /\ BytesRead'
    BY <1>1, <1>2, <1>5 DEF FileAt, FileTypes, BytesRead, File!Used
  <1>7. InRound(k)'
    BY <1>1, <1>2, <1>3 DEF FileAt, FileRound, InRound, WriterIn
  <1>8. Balanced(k)'
    <2>1. /\ f_semaphore[k] \in Nat /\ Waited(k) \in Nat /\ Permitted(k) \in Nat
          /\ Returned(k) \in Nat /\ Met(k) \in Nat /\ Posted(k) \in Nat
      BY FileNumbers
    <2> QED
      BY <1>1, <1>3, <1>4, <1>5, <2>1, Balance
  <1>9. AddedInRound(k)'
    BY <1>1, <1>3 DEF FileAt, FileRound, AddedInRound, File!Used
  <1> QED
    BY <1>6, <1>7, <1>8, <1>9 DEF FileRound

\* The byte that is printed has been changed in this round: the reader has met fewer
\* posts than there were.
LEMMA PrintByteRound ==
    ASSUME NEW k \in 1 .. FILE_RUNS + 1, FileAt(k), f_size > 1, File!PrintByte
    PROVE  FileTypes' /\ BytesRead' /\ FileRound(k)'
  <1>1. /\ f_reader.pc = "print" /\ f_reader' = [f_reader EXCEPT !.pc = "post"]
        /\ f_read' = [f_read EXCEPT ![f_reader.i] = f_added[f_reader.i]]
        /\ UNCHANGED <<f_size, f_name, f_semaphore, f_semaphore1, f_added, f_writer>>
    BY DEF File!PrintByte
  <1>2. /\ f_reader'.pc = "post" /\ f_reader'.run = f_reader.run /\ f_reader'.i = f_reader.i
        /\ f_reader'.sem = f_reader.sem
    BY <1>1, FileNumbers DEF Processes
  <1>3. /\ f_reader.run = k /\ f_reader'.run = k /\ ReaderIn(k) /\ ReaderIn(k)'
        /\ Permitted(k)' = Permitted(k) /\ Waited(k)' = Waited(k)
        /\ Changed(k)' = Changed(k) /\ Posted(k)' = Posted(k)
        /\ f_reader.i \in Nat /\ f_size \in Nat /\ k \in Nat
        /\ \A j \in File!Used : j \in Nat
    BY <1>1, <1>2, FileNumbers, OtherKeeps DEF ReaderIn
  <1>4. Met(k)' = Met(k) /\ Met(k) = f_reader.i + 1 /\ Returned(k)' = Returned(k)
    BY <1>1, <1>2, <1>3 DEF Met, Returned
  <1>5. f_reader.i < f_size - 1
    BY <1>1 DEF FileAt, FilePlaces, InPlace
  <1>6. f_reader.i \in File!Used /\ File!Used' = File!Used
    BY <1>1, <1>3, <1>5 DEF File!Used
  <1>7. f_added[f_reader.i] = k
    <2>1. Posted(k) <= Changed(k)
      BY FileNumbers DEF Posted, Changed
    <2>2. f_semaphore1 + Met(k) = Posted(k)
      BY DEF FileAt, FileRound, Balanced
    <2>3. f_semaphore1 \in Nat /\ Posted(k) \in Nat /\ Changed(k) \in Nat
      BY FileNumbers
    <2>4. f_reader.i < Changed(k)
      BY <1>3, <1>4, <2>1, <2>2, <2>3
    <2> QED
      BY <1>6, <2>4 DEF FileAt, FileRound, AddedInRound
  <1>8. FileTypes'
    BY <1>1, <1>3, <1>6, <1>7 DEF FileAt, FileTypes
  <1>9. BytesRead'
    <2>1. /\ f_read'[f_reader.i] = k
          /\ \A j \in File!Used : j # f_reader.i => f_read'[j] = f_read[j]
      BY <1>1, <1>6, <1>7 DEF FileAt, FileTypes
    <2>2. \A j \in File!Used : j < f_reader.i => f_read[j] = k
      BY <1>1, <1>3 DEF FileAt, BytesRead
    <2>3. \A j \in File!Used : j < f_reader.i + 1 => j = f_reader.i \/ j < f_reader.i
      BY <1>3
    <2>4. \A j \in File!Used : j < f_reader.i + 1 => f_read'[j] = k
      BY <2>1, <2>2, <2>3
    <2> QED
      BY <1>2, <1>3, <1>6, <2>4 DEF BytesRead
  <1>10. InRound(k)'
    BY <1>1, <1>2, <1>3 DEF FileAt, FileRound, InRound, WriterIn
  <1>11. Balanced(k)'
    BY <1>1, <1>3, <1>4 DEF FileAt, FileRound, Balanced
  <1>12. AddedInRound(k)'
    BY <1>1, <1>3 DEF FileAt, FileRound, AddedInRound, File!Used
  <1> QED
    BY <1>8, <1>9, <1>10, <1>11, <1>12 DEF FileRound

LEMMA ReaderPostRound ==
    ASSUME NEW k \in 1 .. FILE_RUNS + 1, FileAt(k), f_size > 1, File!ReaderPost
    PROVE  FileTypes' /\ BytesRead' /\ FileRound(k)'
  <1>1. /\ f_reader.pc = "post"
        /\ f_semaphore' = [f_semaphore EXCEPT ![f_reader.sem] = @ + 1]
        /\ f_reader' = [f_reader EXCEPT !.pc = IF f_reader.i + 1 < f_size - 1 THEN "wait" ELSE "end",
                                        !.i = f_reader.i + 1]
        /\ UNCHANGED <<f_size, f_name, f_semaphore1, f_added, f_read, f_writer>>
    BY DEF File!ReaderPost, File!Loop
  <1>2. /\ f_reader'.pc \in {"wait", "end"} /\ f_reader'.run = f_reader.run
        /\ f_reader'.i = f_reader.i + 1 /\ f_reader'.sem = f_reader.sem
    BY <1>1, FileNumbers DEF Processes
  <1>3. /\ f_reader.run = k /\ f_reader'.run = k /\ ReaderIn(k) /\ ReaderIn(k)'
        /\ Permitted(k)' = Permitted(k) /\ Waited(k)' = Waited(k)
        /\ Changed(k)' = Changed(k) /\ Posted(k)' = Posted(k)
        /\ f_reader.i \in Nat
    BY <1>1, <1>2, FileNumbers, OtherKeeps DEF ReaderIn
  <1>4. Met(k)' = Met(k) /\ Returned(k)' = Returned(k) + 1
    BY <1>1, <1>2, <1>3 DEF Met, Returned
  <1>5. f_reader.sem = k
    BY <1>1, <1>3 DEF FileAt, FileRound, InRound
  <1>6. /\ f_semaphore'[k] = f_semaphore[k] + 1
        /\ \A s \in k + 1 .. FILE_RUNS + 1 : f_semaphore'[s] = f_semaphore[s]
        /\ f_semaphore' \in [1 .. FILE_RUNS + 1 -> Nat]
    BY <1>1, <1>5, FileNumbers DEF FileAt, FileTypes
  <1>7. FileTypes'
    BY <1>1, <1>6 DEF FileAt, FileTypes, File!Used
  <1>8. BytesRead'
    <2>1. \A j \in File!Used : j < f_reader.i + 1 => f_read[j] = f_reader.run
      BY <1>1 DEF FileAt, BytesRead
    <2>2. File!Used' = File!Used
      BY <1>1 DEF File!Used
    <2>3. \A j \in File!Used : j < (f_reader.i + 1) + 0 => j < f_reader.i + 1
      BY <1>3, FileNumbers
    <2>4. f_reader'.i + (IF f_reader'.pc = "post" THEN 1 ELSE 0) = (f_reader.i + 1) + 0
      BY <1>2
    <2> QED
      BY <1>1, <1>2, <2>1, <2>2, <2>3, <2>4 DEF BytesRead
  <1>9. InRound(k)'
    BY <1>1, <1>2, <1>3 DEF FileAt, FileRound, InRound, WriterIn
  <1>10. Balanced(k)'
    <2>1. /\ f_semaphore[k] \in Nat /\ Waited(k) \in Nat /\ Permitted(k) \in Nat
          /\ Returned(k) \in Nat /\ Met(k) \in Nat /\ Posted(k) \in Nat /\ f_semaphore1 \in Nat
      BY FileNumbers
    <2>2. f_semaphore'[k] \in Nat /\ Returned(k)' \in Nat
      BY <1>4, <1>6, <2>1
    <2> QED
      BY <1>1, <1>3, <1>4, <1>6, <2>1, <2>2, Balance, SMTT(30)
  <1>11. AddedInRound(k)'
    BY <1>1, <1>3 DEF FileAt, FileRound, AddedInRound, File!Used
  <1> QED
    BY <1>7, <1>8, <1>9, <1>10, <1>11 DEF FileRound

LEMMA UnlinkRound ==
    ASSUME NEW k \in 1 .. FILE_RUNS + 1, FileAt(k), f_size > 1, File!Unlink, FilePlaces'
    PROVE  FileTypes' /\ BytesRead' /\ \E m \in 1 .. FILE_RUNS + 1 : FileRound(m)'
  <1>1. /\ f_reader.pc = "end" /\ f_reader' = [f_reader EXCEPT !.pc = "done"]
        /\ f_name' = f_name + 1
        /\ UNCHANGED <<f_size, f_semaphore, f_semaphore1, f_added, f_read, f_writer>>
    BY DEF File!Unlink
  <1>2. /\ f_reader'.pc = "done" /\ f_reader'.run = f_reader.run
        /\ f_reader'.i = f_reader.i /\ f_reader'.sem = f_reader.sem
    BY <1>1, FileNumbers DEF Processes
  <1>3. /\ f_reader.run = k /\ f_reader'.run = k /\ ReaderIn(k) /\ ReaderIn(k)'
        /\ Permitted(k)' = Permitted(k) /\ Waited(k)' = Waited(k)
        /\ Changed(k)' = Changed(k) /\ Posted(k)' = Posted(k)
        /\ k \in Nat /\ k > 0 /\ f_size \in Nat
    BY <1>1, <1>2, FileNumbers, OtherKeeps DEF ReaderIn
  <1>4. FileTypes' /\ BytesRead'
    BY <1>1, <1>2 DEF FileAt, FileTypes, BytesRead, File!Used
  <1>5. f_name' = k + 1
    BY <1>1 DEF FileAt, FileRound, InRound
  <1>6. CASE WriterIn(k) /\ f_writer.pc = "done"
    <2>1. f_writer.i = f_size - 1 /\ f_reader.i = f_size - 1 /\ f_writer.run = k
      BY <1>1, <1>3, <1>6 DEF FileAt, FilePlaces, InPlace, WriterIn
    <2> QED
      BY <1>1, <1>2, <1>3, <1>4, <1>5, <1>6, <2>1, NextRound
  <1>7. CASE ~(WriterIn(k) /\ f_writer.pc = "done")
    <2>1. Met(k)' = Met(k) /\ Returned(k)' = Returned(k)
      BY <1>1, <1>2, <1>3 DEF Met, Returned
    <2>2. InRound(k)'
      BY <1>1, <1>2, <1>3, <1>5, <1>7 DEF FileAt, FileRound, InRound, WriterIn
    <2>3. Balanced(k)'
      BY <1>1, <1>3, <2>1 DEF FileAt, FileRound, Balanced
    <2>4. AddedInRound(k)'
      BY <1>1, <1>3 DEF FileAt, FileRound, AddedInRound, File!Used
    <2> QED
      BY <1>4, <2>2, <2>3, <2>4 DEF FileRound
  <1> QED
    BY <1>6, <1>7

LEMMA FileStep == FileInv /\ File!Next => FileInv'
  <1> SUFFICES ASSUME FileInv, File!Next PROVE FileInv'
    OBVIOUS
  <1>1. FilePlaces' /\ f_size' = f_size
    BY FilePlacesStep DEF FileInv
  <1>2. f_orderly' => f_orderly
    BY DEF File!Next, File!StartWriter, File!StartReader, File!WriterStep, File!OpenWriter,
           File!FirstPost, File!WriterWait, File!Add, File!WriterPost, File!EndWriter,
           File!ReaderStep, File!OpenReader, File!ReaderWait, File!PrintByte,
           File!ReaderPost, File!Unlink
  <1>3. ASSUME f_size > 1, f_orderly'
        PROVE  FileTypes' /\ BytesRead' /\ \E m \in 1 .. FILE_RUNS + 1 : FileRound(m)'
    <2>1. PICK k \in 1 .. FILE_RUNS + 1 : FileAt(k)
      BY <1>2, <1>3 DEF FileInv, FileAt
    <2> QED
      BY <1>1, <1>3, <2>1, StartWriterRound, OpenWriterRound, FirstPostRound, WriterWaitRound,
         AddRound, WriterPostRound, EndWriterRound, StartReaderRound, OpenReaderRound,
         ReaderWaitRound, PrintByteRound, ReaderPostRound, UnlinkRound
      DEF File!Next, File!WriterStep, File!ReaderStep
  <1> QED
    BY <1>1, <1>3 DEF FileInv

LEMMA FileFresh == FileInv => File!ReadsChangedBytes
  <1> SUFFICES ASSUME FileInv, f_orderly
               PROVE  /\ \A j \in File!Used : j < f_reader.i => f_read[j] = f_reader.run
                      /\ f_writer.run = f_reader.run => f_writer.i <= f_reader.i + 1
    BY DEF File!ReadsChangedBytes
  <1>1. /\ f_size \in Nat /\ f_writer.i \in Nat /\ f_reader.i \in Nat
        /\ f_writer.run \in Nat /\ f_reader.run \in Nat
        /\ f_writer.pc \in WriterPlaces /\ f_reader.pc \in ReaderPlaces
        /\ InPlace(f_writer) /\ InPlace(f_reader)
    BY DEF FileInv, FilePlaces, Processes
  <1>2. CASE f_size > 1
    <2>1. PICK k \in 1 .. FILE_RUNS + 1 : FileAt(k)
      BY <1>2 DEF FileInv, FileAt
    <2>2. \A j \in File!Used : j < f_reader.i => f_read[j] = f_reader.run
      <3>1. \A j \in File!Used : j \in Nat
        BY <1>2, <2>1, FileNumbers
      <3>2. \A j \in File!Used :
                j < f_reader.i => j < f_reader.i + (IF f_reader.pc = "post" THEN 1 ELSE 0)
        BY <1>1, <3>1
      <3> QED
        BY <2>1, <3>2 DEF FileAt, BytesRead
    <2>3. ASSUME f_writer.run = f_reader.run PROVE f_writer.i <= f_reader.i + 1
      <3>1. CASE WriterIn(k)
        <4>1. ReaderIn(k)
          BY <2>3, <3>1 DEF WriterIn, ReaderIn
        <4>2. /\ f_semaphore[k] + Waited(k) = Permitted(k) + Returned(k)
              /\ f_semaphore[k] \in Nat /\ Permitted(k) \in 0 .. 1 /\ Waited(k) \in Nat
          BY <1>2, <2>1, FileNumbers DEF FileAt, FileRound, Balanced
        <4>3. Returned(k) = f_reader.i /\ f_writer.i <= Waited(k)
          BY <1>1, <3>1, <4>1 DEF Returned, Waited
        <4> QED
          BY <1>1, <4>2, <4>3
      <3>2. CASE ~WriterIn(k)
        <4>1. f_writer.pc = "done" /\ f_reader.pc = "done"
          BY <2>1, <2>3, <3>2 DEF FileAt, FileRound, InRound, WriterIn, ReaderIn
        <4>2. f_writer.i = f_reader.i
          BY <1>1, <2>3, <4>1 DEF InPlace
        <4> QED
          BY <1>1, <4>2
      <3> QED
        BY <3>1, <3>2
    <2> QED
      BY <2>2, <2>3
  <1>3. CASE ~(f_size > 1)
    <2>1. f_writer.i = 0 /\ f_reader.i = 0
      BY <1>1, <1>3 DEF InPlace, WriterPlaces, ReaderPlaces
    <2>2. \A j \in File!Used : ~(j < 0)
      BY <1>1, <1>3 DEF File!Used
    <2> QED
      BY <2>1, <2>2
  <1> QED
    BY <1>2, <1>3
------------------------------------------------------------------------------
(* The letters of shared memory.                                           *)

Early == {"unlink1", "unlink2", "mkfifo1", "mkfifo2"}
Unmapped == {"unlink1", "unlink2", "mkfifo1", "mkfifo2", "open", "shm_open"}
Storing == {"read", "store", "write"}
Places1 ==
    {"idle", "killed", "bus", "unlink1", "unlink2", "mkfifo1", "mkfifo2", "open", "shm_open",
     "ftruncate", "read", "store", "write", "shm_unlink", "last_unlink1", "last_unlink2"}
Places2 ==
    {"idle", "killed", "bus", "open1", "open2", "shm_open", "read", "print", "write", "shm_unlink"}
Proc1s == [pc : Places1, run : 0 .. LETTER_RUNS, count : Nat, letter : Nat, met : BOOLEAN]
Proc2s == [pc : Places2, run : 0 .. LETTER_RUNS, count : Nat,
           fd : [Letters!Pipes -> 0 .. LETTER_RUNS], obj : Letters!Objects \cup {Letters!None}]

LetterTypes ==
    /\ l_size \in Nat \ {0}
    /\ l_fifo \in [Letters!Pipes -> 0 .. LETTER_RUNS]
    /\ l_bytes \in [Letters!Pipes -> [Letters!Runs -> Nat]]
    /\ l_shm \in Letters!Objects \cup {Letters!None}
    /\ l_memory \in [Letters!Objects -> Seq(Nat)]
    /\ l_mapped \in [Letters!Runs -> Letters!Objects \cup {Letters!None}]
    /\ l_proc1 \in Proc1s /\ l_proc2 \in Proc2s
    /\ l_out \in Seq(Nat) /\ Len(l_out) = l_proc2.count

\* There is nothing of a run that has not begun.
Unbegun ==
    /\ l_proc1.run = 0 => l_proc1.pc = "idle"
    /\ l_proc2.run = 0 => l_proc2.pc = "idle"
    /\ \A k \in Letters!Pipes : l_fifo[k] <= l_proc1.run /\ l_proc2.fd[k] <= l_proc1.run
    /\ \A r \in Letters!Runs : r > l_proc1.run =>
           l_mapped[r] = Letters!None /\ \A k \in Letters!Pipes : l_bytes[k][r] = 0

\* How far each of the two has got.
Places ==
    /\ l_proc1.pc \in Early => l_fifo[2] # l_proc1.run /\ l_proc2.fd[2] # l_proc1.run
    /\ l_proc1.pc \in Unmapped => l_mapped[l_proc1.run] = Letters!None
    /\ l_proc1.pc \in Unmapped \cup {"ftruncate"} => l_proc1.count = 0
    /\ l_proc1.pc \in Storing \cup {"ftruncate"} => l_mapped[l_proc1.run] # Letters!None
    /\ l_proc1.pc \in {"read", "store"} => l_proc1.count < l_size
    /\ l_proc1.pc \in Storing => l_memory[l_mapped[l_proc1.run]] # <<>>
    /\ l_proc2.pc \in {"open1", "open2", "shm_open"} =>
           l_proc2.count = 0 /\ l_proc2.obj = Letters!None
    /\ l_proc2.pc \in {"read", "print", "write", "shm_unlink", "bus"} =>
           l_proc2.obj # Letters!None
    /\ l_proc2.pc \in {"shm_open", "read", "print", "write", "shm_unlink", "bus"} =>
           \A k \in Letters!Pipes : l_proc2.fd[k] > 0
    /\ l_proc2.pc \in {"read", "print"} => l_proc2.count < l_size

\* Whoever stores a letter stores the right one, whatever run created the object.
RightLetters(o) ==
    /\ Len(l_memory[o]) \in {0, l_size}
    /\ \A j \in 1 .. Len(l_memory[o]) : l_memory[o][j] \in {0, Letters!Alphabet(j)}
Alphabetical ==
    /\ \A o \in Letters!Objects : RightLetters(o)
    /\ (IF l_proc1.letter > LETTERS THEN 1 ELSE l_proc1.letter) = Letters!Alphabet(l_proc1.count + 1)

\* The first letters of the object of run r are there.
Stored(r, letters) ==
    /\ l_mapped[r] # Letters!None
    /\ letters <= Len(l_memory[l_mapped[r]])
    /\ \A j \in 1 .. letters : l_memory[l_mapped[r]][j] = Letters!Alphabet(j)

\* The permissions of run r: what proc1 has written, and the last proc2 has read.
Consumed(r) ==
    IF l_proc2.fd[1] = r
    THEN l_proc2.count + (IF l_proc2.pc \in {"print", "bus"} THEN 1 ELSE 0) ELSE 0
Permitted1(r) == l_bytes[1][r] + Consumed(r)

\* A permission is worth a letter.
Permissions ==
    /\ l_proc1.count > 0 => Stored(l_proc1.run, l_proc1.count)
    /\ l_proc1.run > 0 =>
           Permitted1(l_proc1.run) + (IF l_proc1.pc = "write" THEN 1 ELSE 0) <= l_proc1.count
    /\ \A r \in Letters!Runs : \A letters \in 1 .. Permitted1(r) : Stored(r, letters)

\* What was printed is right if it was read from the object of the run whose pipe it is.
Printed ==
    l_proc2.fd[1] > 0 /\ l_proc2.obj = l_mapped[l_proc2.fd[1]] =>
        (\A j \in 1 .. Len(l_out) : l_out[j] = Letters!Alphabet(j)) /\ l_proc2.pc # "bus"

\* proc1 has stored one letter at most, and waits for the permission of a proc2.
Meeting ==
    /\ l_proc1.pc \in Unmapped \cup Storing \cup {"ftruncate"}
    /\ l_bytes[2][l_proc1.run] + l_proc1.count + (IF l_proc1.pc = "store" THEN 1 ELSE 0)
           <= IF l_proc1.pc \in Early \cup {"open"} THEN 0 ELSE 1
    /\ l_proc1.pc \notin Unmapped => l_shm = l_mapped[l_proc1.run]

\* Nobody else has opened the pipes of this run.
Alone ==
    /\ Meeting /\ l_proc2.pc \in Letters!Down \cup {"open1", "open2"}
    /\ l_proc2.pc \notin Letters!Down => \A k \in Letters!Pipes : l_fifo[k] \in {0, l_proc1.run}
    /\ l_proc2.pc = "open2" => l_proc2.fd[1] \in {0, l_proc1.run}

\* The two come to one object.
Together ==
    /\ \A k \in Letters!Pipes : l_proc2.fd[k] = l_proc1.run
    /\ l_proc1.pc \notin Early /\ l_proc2.pc \notin {"open1", "open2"}
    /\ l_proc2.pc = "shm_open" => Meeting
    /\ l_proc2.pc # "shm_open" =>
          /\ l_proc2.obj # Letters!None
          /\ \/ l_mapped[l_proc1.run] = l_proc2.obj
             \/ l_proc1.pc \in {"open", "shm_open"} /\ l_proc2.pc = "read" /\ l_shm = l_proc2.obj

InOrder ==
    l_orderly /\ l_size > 1 =>
        l_proc1.run > 0 /\ (~l_proc1.met => Alone) /\ (l_proc1.met => Together)

LettersInv ==
    LetterTypes /\ Unbegun /\ Places /\ Alphabetical /\ Permissions /\ Printed /\ InOrder

LEMMA Multiples ==
    ASSUME NEW m \in Nat \ {0}, NEW d \in Int
    PROVE  (d < 0 => m * d <= 0 - m) /\ (d > 1 => m * d >= m + m)
  OBVIOUS

LEMMA NextModulo ==
    ASSUME NEW n \in Nat, NEW m \in Nat \ {0}
    PROVE  (n + 1) % m = IF (n % m) + 1 = m THEN 0 ELSE (n % m) + 1
  <1> DEFINE q == n \div m  q1 == (n + 1) \div m  r == n % m  r1 == (n + 1) % m  d == q1 - q
  <1>1. r \in 0 .. m - 1 /\ r1 \in 0 .. m - 1 /\ q \in Int /\ q1 \in Int /\ m \in Nat /\ m > 0
    OBVIOUS
  <1>2. n = m * q + r
    OBVIOUS
  <1>3. n + 1 = m * q1 + r1
    OBVIOUS
  <1> HIDE DEF q, q1, r, r1
  <1>4. m * d = (r + 1) - r1
    <2>1. m * d = m * q1 - m * q
      BY <1>1
    <2>2. m * q \in Int /\ m * q1 \in Int
      BY <1>1
    <2> QED
      BY <1>1, <1>2, <1>3, <2>1, <2>2
  <1>5. d \in Int
    BY <1>1
  <1> HIDE DEF d
  <1>6. d \in 0 .. 1
    BY <1>1, <1>4, <1>5, Multiples
  <1>7. CASE d = 0
    BY <1>1, <1>4, <1>7 DEF r, r1
  <1>8. CASE d = 1
    <2>1. r + 1 = m /\ r1 = 0
      BY <1>1, <1>4, <1>8
    <2> QED
      BY <2>1 DEF r, r1
  <1> QED
    BY <1>6, <1>7, <1>8

\* After the last letter comes the first.
LEMMA NextLetter ==
    ASSUME NEW n \in Nat \ {0}
    PROVE  /\ Letters!Alphabet(n) \in 1 .. LETTERS
           /\ Letters!Alphabet(n + 1) =
                  IF Letters!Alphabet(n) + 1 > LETTERS THEN 1 ELSE Letters!Alphabet(n) + 1
  <1>1. n - 1 \in Nat /\ (n - 1) + 1 = n /\ (n + 1) - 1 = n /\ LETTERS \in Nat \ {0}
    BY MCFilesAssumption
  <1>2. (n - 1) % LETTERS \in 0 .. LETTERS - 1
    BY <1>1
  <1>a. ((n - 1) + 1) % LETTERS = IF ((n - 1) % LETTERS) + 1 = LETTERS THEN 0 ELSE ((n - 1) % LETTERS) + 1
    BY <1>1, NextModulo, Zenon
  <1>3. n % LETTERS = IF ((n - 1) % LETTERS) + 1 = LETTERS THEN 0 ELSE ((n - 1) % LETTERS) + 1
    BY <1>1, <1>a, Zenon
  <1> QED
    BY <1>1, <1>2, <1>3 DEF Letters!Alphabet

LEMMA FirstLetter == Letters!Alphabet(1) = 1
  <1>1. 0 % LETTERS = 0 /\ 1 - 1 = 0
    BY MCFilesAssumption
  <1> QED
    BY <1>1 DEF Letters!Alphabet

LEMMA ObjectFacts ==
    /\ Letters!None \notin Letters!Objects
    /\ \A r \in Letters!Runs : <<"proc1", r>> \in Letters!Objects /\ <<"proc2", r>> \in Letters!Objects
    /\ 1 \in Letters!Pipes /\ 2 \in Letters!Pipes /\ LETTER_RUNS \in Nat
    /\ \A r : r \in 0 .. LETTER_RUNS /\ r > 0 => r \in Letters!Runs
    /\ \A r \in Letters!Runs : r \in Nat /\ r > 0
  BY MCFilesAssumption DEF Letters!None, Letters!Objects, Letters!Pipes, Letters!Runs

LEMMA LetterInit == Letters!Init => LettersInv
  <1> SUFFICES ASSUME Letters!Init PROVE LettersInv
    OBVIOUS
  <1>1. l_size \in Nat \ {0}
    BY MCFilesAssumption DEF Letters!Init
  <1>2. /\ l_proc1 = [pc |-> "idle", run |-> 0, count |-> 0, letter |-> 1, met |-> FALSE]
        /\ l_proc2 = [pc |-> "idle", run |-> 0, count |-> 0, fd |-> [k \in Letters!Pipes |-> 0],
                      obj |-> Letters!None]
        /\ l_fifo = [k \in Letters!Pipes |-> 0]
        /\ l_bytes = [k \in Letters!Pipes |-> [r \in Letters!Runs |-> 0]]
        /\ l_shm = Letters!None /\ l_memory = [o \in Letters!Objects |-> <<>>]
        /\ l_mapped = [r \in Letters!Runs |-> Letters!None] /\ l_out = <<>> /\ l_orderly = FALSE
    BY DEF Letters!Init
  <1>3. /\ l_proc1.pc = "idle" /\ l_proc1.run = 0 /\ l_proc1.count = 0 /\ l_proc1.letter = 1
        /\ l_proc2.pc = "idle" /\ l_proc2.count = 0 /\ l_proc2.fd = [k \in Letters!Pipes |-> 0]
    BY <1>2
  <1>4. LetterTypes
    <2>1. l_proc1 \in Proc1s
      BY <1>2, ObjectFacts DEF Proc1s, Places1
    <2>2. [k \in Letters!Pipes |-> 0] \in [Letters!Pipes -> 0 .. LETTER_RUNS]
      BY ObjectFacts
    <2>3. l_proc2 \in Proc2s
      BY <1>2, <2>2, ObjectFacts DEF Proc2s, Places2
    <2> QED
      BY <1>1, <1>2, <1>3, <2>1, <2>2, <2>3, ObjectFacts DEF LetterTypes
  <1>5. Unbegun
    BY <1>2, <1>3 DEF Unbegun
  <1>6. Places
    BY <1>3 DEF Places, Early, Unmapped, Storing
  <1>7. Alphabetical
    <2>1. \A o \in Letters!Objects : l_memory[o] = <<>>
      BY <1>2
    <2>2. ~(1 > LETTERS)
      BY MCFilesAssumption
    <2> QED
      BY <1>3, <2>1, <2>2, FirstLetter DEF Alphabetical, RightLetters
  <1>8. Permissions
    <2>1. \A r \in Letters!Runs : l_bytes[1][r] = 0 /\ Consumed(r) = 0
      BY <1>2, <1>3, ObjectFacts DEF Consumed
    <2>2. \A r \in Letters!Runs : Permitted1(r) = 0
      BY <2>1 DEF Permitted1
    <2> QED
      BY <1>3, <2>2 DEF Permissions
  <1>9. Printed /\ InOrder
    BY <1>2, <1>3, ObjectFacts DEF Printed, InOrder
  <1> QED
    BY <1>4, <1>5, <1>6, <1>7, <1>8, <1>9 DEF LettersInv

LEMMA LetterNumbers ==
    ASSUME LetterTypes
    PROVE  /\ l_size \in Nat /\ l_size > 0
           /\ l_proc1.pc \in Places1 /\ l_proc1.run \in 0 .. LETTER_RUNS /\ l_proc1.run \in Nat
           /\ l_proc1.count \in Nat /\ l_proc1.letter \in Nat /\ l_proc1.met \in BOOLEAN
           /\ l_proc2.pc \in Places2 /\ l_proc2.run \in 0 .. LETTER_RUNS
           /\ l_proc2.count \in Nat
           /\ l_proc2.obj \in Letters!Objects \cup {Letters!None}
           /\ \A k \in Letters!Pipes :
                  /\ l_fifo[k] \in 0 .. LETTER_RUNS /\ l_proc2.fd[k] \in 0 .. LETTER_RUNS
                  /\ \A r \in Letters!Runs : l_bytes[k][r] \in Nat
           /\ \A r \in Letters!Runs : Consumed(r) \in Nat /\ Permitted1(r) \in Nat
           /\ \A o \in Letters!Objects : l_memory[o] \in Seq(Nat)
  <1>1. /\ l_size \in Nat /\ l_size > 0
        /\ \A o \in Letters!Objects : l_memory[o] \in Seq(Nat)
    BY DEF LetterTypes
  <1>2. /\ l_proc1.pc \in Places1 /\ l_proc1.run \in 0 .. LETTER_RUNS
        /\ l_proc1.count \in Nat /\ l_proc1.letter \in Nat /\ l_proc1.met \in BOOLEAN
    BY DEF LetterTypes, Proc1s
  <1>3. /\ l_proc2.pc \in Places2 /\ l_proc2.run \in 0 .. LETTER_RUNS /\ l_proc2.count \in Nat
        /\ l_proc2.obj \in Letters!Objects \cup {Letters!None}
        /\ l_proc2.fd \in [Letters!Pipes -> 0 .. LETTER_RUNS]
    BY DEF LetterTypes, Proc2s
  <1>4. \A k \in Letters!Pipes :
            /\ l_fifo[k] \in 0 .. LETTER_RUNS /\ l_proc2.fd[k] \in 0 .. LETTER_RUNS
            /\ \A r \in Letters!Runs : l_bytes[k][r] \in Nat
    BY <1>3 DEF LetterTypes
  <1>5. \A r \in Letters!Runs : Consumed(r) \in Nat
    BY <1>3 DEF Consumed
  <1>6. \A r \in Letters!Runs : Permitted1(r) \in Nat
    BY <1>4, <1>5, ObjectFacts DEF Permitted1
  <1>7. l_proc1.run \in Nat
    BY <1>2, ObjectFacts
  <1> QED
    BY <1>1, <1>2, <1>3, <1>4, <1>5, <1>6, <1>7

LEMMA PermittedNat == ASSUME LetterTypes' PROVE \A r \in Letters!Runs : Permitted1(r)' \in Nat
  <1>1. /\ l_proc2'.count \in Nat
        /\ \A r \in Letters!Runs : l_bytes'[1][r] \in Nat
    BY ObjectFacts DEF LetterTypes, Proc2s
  <1>2. \A r \in Letters!Runs : Consumed(r)' \in Nat
    BY <1>1 DEF Consumed
  <1> QED
    BY <1>1, <1>2 DEF Permitted1

\* A run of proc1 that does something has begun.
LEMMA Running ==
    ASSUME LettersInv, l_proc1.pc # "idle"
    PROVE  l_proc1.run \in Letters!Runs /\ l_proc1.run > 0
  BY LetterNumbers, ObjectFacts DEF LettersInv, Unbegun

LEMMA AlphabeticalKept ==
    ASSUME Alphabetical, UNCHANGED <<l_memory, l_size>>,
           l_proc1'.letter = l_proc1.letter, l_proc1'.count = l_proc1.count
    PROVE  Alphabetical'
  BY DEF Alphabetical, RightLetters

LEMMA PermissionsKept ==
    ASSUME Permissions, LetterTypes, LetterTypes', UNCHANGED <<l_memory, l_mapped>>,
           l_proc1'.run = l_proc1.run, l_proc1'.count = l_proc1.count,
           l_proc1'.pc = "write" => l_proc1.pc = "write",
           \A r \in Letters!Runs : Permitted1(r)' <= Permitted1(r)
    PROVE  Permissions'
  <1>1. \A r, letters : Stored(r, letters) => Stored(r, letters)'
    BY DEF Stored
  <1>2. \A r \in Letters!Runs : Permitted1(r)' \in Nat /\ Permitted1(r) \in Nat
    BY PermittedNat, LetterNumbers
  <1>3. l_proc1'.count > 0 => Stored(l_proc1.run, l_proc1.count)'
    BY <1>1 DEF Permissions
  <1>4. ASSUME l_proc1.run > 0
        PROVE  Permitted1(l_proc1.run)' + (IF l_proc1'.pc = "write" THEN 1 ELSE 0) <= l_proc1.count
    <2>1. l_proc1.run \in Letters!Runs /\ l_proc1.count \in Nat
      BY <1>4, LetterNumbers, ObjectFacts
    <2>2. Permitted1(l_proc1.run) + (IF l_proc1.pc = "write" THEN 1 ELSE 0) <= l_proc1.count
      BY <1>4 DEF Permissions
    <2> QED
      BY <1>2, <2>1, <2>2
  <1>5. ASSUME NEW r \in Letters!Runs, NEW letters \in 1 .. Permitted1(r)'
        PROVE  Stored(r, letters)'
    BY <1>1, <1>2 DEF Permissions
  <1> QED
    BY <1>3, <1>4, <1>5 DEF Permissions

LEMMA PrintedKept ==
    ASSUME Printed, UNCHANGED <<l_out, l_mapped>>, l_proc2'.obj = l_proc2.obj,
           l_proc2'.fd[1] = l_proc2.fd[1], l_proc2'.pc = "bus" => l_proc2.pc = "bus"
    PROVE  Printed'
  BY DEF Printed

\* What a step of proc1 has to show of two programs that were started in order.
LEMMA OrderStep1 ==
    ASSUME LettersInv, UNCHANGED <<l_size, l_proc2, l_orderly>>,
           l_proc1'.run = l_proc1.run, l_proc1'.met = l_proc1.met,
           l_size > 1 /\ Meeting => Meeting',
           \A k \in Letters!Pipes : l_fifo'[k] \in {0, l_proc1.run, l_fifo[k]},
           l_proc1.pc \notin Early => l_proc1'.pc \notin Early,
           l_mapped'[l_proc1.run] = l_mapped[l_proc1.run],
           l_proc1.pc \in {"open", "shm_open"} => l_proc1'.pc = "shm_open" /\ l_shm' = l_shm
    PROVE  InOrder'
  <1> SUFFICES ASSUME l_orderly, l_size > 1
               PROVE  l_proc1.run > 0 /\ (~l_proc1.met => Alone') /\ (l_proc1.met => Together')
    BY DEF InOrder
  <1>1. ASSUME ~l_proc1.met PROVE Alone'
    <2>1. Alone
      BY <1>1 DEF LettersInv, InOrder
    <2> QED
      BY <2>1 DEF Alone
  <1>2. ASSUME l_proc1.met PROVE Together'
    <2>1. Together
      BY <1>2 DEF LettersInv, InOrder
    <2> QED
      BY <2>1 DEF Together
  <1>3. l_proc1.run > 0
    BY DEF LettersInv, InOrder
  <1> QED
    BY <1>1, <1>2, <1>3

\* A name is removed or made, by proc1 before it opens its pipes or after it closed them.
LEMMA PipeNames ==
    ASSUME LettersInv, NEW k \in Letters!Pipes, NEW v \in {0, l_proc1.run}, NEW l,
           <<l_proc1.pc, l>> \in {<<"unlink1", "unlink2">>, <<"unlink2", "mkfifo1">>,
                                  <<"mkfifo1", "mkfifo2">>, <<"mkfifo2", "open">>,
                                  <<"last_unlink1", "last_unlink2">>, <<"last_unlink2", "idle">>},
           v = 0 \/ k = 1 \/ l = "open",
           l_fifo' = [l_fifo EXCEPT ![k] = v], Letters!Go1(l),
           UNCHANGED <<l_size, l_bytes, l_shm, l_memory, l_mapped, l_proc2, l_out, l_orderly>>
    PROVE  LettersInv'
  <1>1. LetterTypes /\ Unbegun /\ Places /\ Alphabetical /\ Permissions /\ Printed
    BY DEF LettersInv
  <1>2. l_proc1.run \in Letters!Runs /\ l_proc1.run > 0 /\ l_proc1.run \in Nat
    BY Running, LetterNumbers, <1>1
  <1>3. l \in Places1 /\ l_proc1 \in Proc1s
    BY <1>1 DEF Places1, LetterTypes
  <1>4. /\ l_proc1' \in Proc1s /\ l_proc1'.pc = l /\ l_proc1'.run = l_proc1.run
        /\ l_proc1'.count = l_proc1.count /\ l_proc1'.letter = l_proc1.letter
        /\ l_proc1'.met = l_proc1.met
    BY <1>3 DEF Letters!Go1, Proc1s
  <1>5. v \in 0 .. LETTER_RUNS
    BY <1>1, LetterNumbers, ObjectFacts
  <1>6. LetterTypes'
    BY <1>1, <1>4, <1>5 DEF LetterTypes
  <1>7. \A m \in Letters!Pipes : l_fifo'[m] = IF m = k THEN v ELSE l_fifo[m]
    BY <1>1 DEF LetterTypes
  <1>8. Unbegun'
    BY <1>1, <1>2, <1>4, <1>7 DEF Unbegun
  <1>9. Places'
    <2>1. l \in Early => l_proc1.pc \in Early /\ (v = 0 \/ k # 2)
      BY DEF Early
    <2>2. l \in Early => l_fifo'[2] # l_proc1.run
      BY <1>1, <1>2, <1>7, <2>1, ObjectFacts DEF Places
    <2>3. l \in Unmapped => l_proc1.pc \in Unmapped
      BY DEF Unmapped
    <2>4. l \notin Storing /\ l # "ftruncate" /\ l \notin {"read", "store"}
      BY DEF Storing
    <2> QED
      BY <1>1, <1>4, <2>1, <2>2, <2>3, <2>4 DEF Places
  <1>10. Alphabetical' /\ Printed'
    BY <1>1, <1>4, AlphabeticalKept, PrintedKept
  <1>11. Permissions'
    <2>1. \A r \in Letters!Runs : Permitted1(r)' <= Permitted1(r)
      BY <1>1, LetterNumbers DEF Permitted1, Consumed
    <2> QED
      BY <1>1, <1>4, <1>6, <2>1, PermissionsKept
  <1>12. InOrder'
    <2>1. Meeting => Meeting'
      <3> SUFFICES ASSUME Meeting PROVE Meeting'
        OBVIOUS
      <3>1. l_proc1.pc \in Early /\ l \in Unmapped /\ (l \in Early \cup {"open"})
        BY DEF Meeting, Early, Unmapped, Storing
      <3>2. l # "store" /\ l_proc1.pc # "store"
        BY <3>1 DEF Early
      <3> QED
        BY <1>4, <3>1, <3>2 DEF Meeting
    <2>2. l_proc1.pc \notin Early => l \notin Early
      BY DEF Early
    <2>3. l_proc1.pc \notin {"open", "shm_open"}
      OBVIOUS
    <2> QED
      BY <1>4, <1>7, <2>1, <2>2, <2>3, OrderStep1
  <1> QED
    BY <1>6, <1>8, <1>9, <1>10, <1>11, <1>12 DEF LettersInv

LEMMA OpenPipesLetters == ASSUME LettersInv, Letters!OpenPipes PROVE LettersInv'
  <1>1. LetterTypes /\ Unbegun /\ Places /\ Alphabetical /\ Permissions /\ Printed
    BY DEF LettersInv
  <1>2. /\ l_proc1.pc = "open" /\ l_proc1' = [l_proc1 EXCEPT !.pc = "shm_open"]
        /\ l_bytes' = [l_bytes EXCEPT ![2][l_proc1.run] = @ + 1]
        /\ UNCHANGED <<l_size, l_fifo, l_shm, l_memory, l_mapped, l_proc2, l_out, l_orderly>>
    BY DEF Letters!OpenPipes, Letters!At1, Letters!Go1
  <1>3. l_proc1.run \in Letters!Runs /\ l_proc1.run > 0 /\ l_proc1.run \in Nat
    BY <1>1, <1>2, Running, LetterNumbers
  <1>4. /\ l_proc1' \in Proc1s /\ l_proc1'.pc = "shm_open" /\ l_proc1'.run = l_proc1.run
        /\ l_proc1'.count = l_proc1.count /\ l_proc1'.letter = l_proc1.letter
        /\ l_proc1'.met = l_proc1.met
    BY <1>1, <1>2 DEF LetterTypes, Proc1s, Places1
  <1>5. /\ l_bytes' \in [Letters!Pipes -> [Letters!Runs -> Nat]]
        /\ \A r \in Letters!Runs : l_bytes'[1][r] = l_bytes[1][r]
        /\ \A r \in Letters!Runs :
               l_bytes'[2][r] = IF r = l_proc1.run THEN l_bytes[2][r] + 1 ELSE l_bytes[2][r]
    <2>1. l_bytes \in [Letters!Pipes -> [Letters!Runs -> Nat]]
      BY <1>1 DEF LetterTypes
    <2>2. l_bytes' = [l_bytes EXCEPT ![2][l_proc1.run] = @ + 1] /\ 1 \in Letters!Pipes
             /\ 2 \in Letters!Pipes
      BY <1>2, ObjectFacts
    <2> QED
      BY <1>3, <2>1, <2>2
  <1>6. LetterTypes'
    BY <1>1, <1>2, <1>4, <1>5 DEF LetterTypes
  <1>7. Unbegun'
    <2>1. \A r \in Letters!Runs : r > l_proc1.run =>
              l_bytes'[1][r] = l_bytes[1][r] /\ l_bytes'[2][r] = l_bytes[2][r]
      BY <1>3, <1>5
    <2> QED
      BY <1>1, <1>2, <1>3, <1>4, <2>1 DEF Unbegun, Letters!Pipes
  <1>8. Places'
    BY <1>1, <1>2, <1>4 DEF Places, Early, Unmapped, Storing
  <1>9. Alphabetical' /\ Printed'
    BY <1>1, <1>2, <1>4, AlphabeticalKept, PrintedKept
  <1>10. Permissions'
    <2>1. \A r \in Letters!Runs : Permitted1(r)' <= Permitted1(r)
      BY <1>1, <1>2, <1>5, LetterNumbers DEF Permitted1, Consumed
    <2> QED
      BY <1>1, <1>2, <1>4, <1>6, <2>1, PermissionsKept
  <1>11. InOrder'
    <2>1. Meeting => Meeting'
      <3> SUFFICES ASSUME Meeting PROVE Meeting'
        OBVIOUS
      <3>1. l_bytes[2][l_proc1.run] + l_proc1.count + 0 <= 0
        BY <1>2 DEF Meeting
      <3>2. l_bytes[2][l_proc1.run] \in Nat /\ l_proc1.count \in Nat
        BY <1>1, <1>3, LetterNumbers, ObjectFacts
      <3>3. l_bytes'[2][l_proc1.run] = l_bytes[2][l_proc1.run] + 1
        BY <1>3, <1>5
      <3>4. l_bytes'[2][l_proc1.run] + l_proc1.count + 0 <= 1
        BY <3>1, <3>2, <3>3
      <3> QED
        BY <1>4, <3>4 DEF Meeting, Unmapped, Early
    <2> QED
      BY <1>2, <1>4, <2>1, OrderStep1 DEF Early
  <1> QED
    BY <1>6, <1>7, <1>8, <1>9, <1>10, <1>11 DEF LettersInv

\* proc1 has stored nothing yet, and its proc2 has read nothing yet.
LEMMA ShmOpen1Letters == ASSUME LettersInv, Letters!ShmOpen1 PROVE LettersInv'
  <1> DEFINE o == Letters!Opened(<<"proc1", l_proc1.run>>)
  <1>1. LetterTypes /\ Unbegun /\ Places /\ Alphabetical /\ Permissions /\ Printed
    BY DEF LettersInv
  <1>2. /\ l_proc1.pc = "shm_open" /\ l_proc1' = [l_proc1 EXCEPT !.pc = "ftruncate"]
        /\ l_shm' = o /\ l_mapped' = [l_mapped EXCEPT ![l_proc1.run] = o]
        /\ UNCHANGED <<l_size, l_fifo, l_bytes, l_memory, l_proc2, l_out, l_orderly>>
    BY DEF Letters!ShmOpen1, Letters!At1, Letters!Go1
  <1>3. l_proc1.run \in Letters!Runs /\ l_proc1.run > 0 /\ l_proc1.run \in Nat
    BY <1>1, <1>2, Running, LetterNumbers
  <1>4. /\ l_proc1' \in Proc1s /\ l_proc1'.pc = "ftruncate" /\ l_proc1'.run = l_proc1.run
        /\ l_proc1'.count = l_proc1.count /\ l_proc1'.letter = l_proc1.letter
        /\ l_proc1'.met = l_proc1.met
    BY <1>1, <1>2 DEF LetterTypes, Proc1s, Places1
  <1>5. o \in Letters!Objects /\ o # Letters!None /\ (l_shm # Letters!None => o = l_shm)
    BY <1>1, <1>3, ObjectFacts DEF LetterTypes, Letters!Opened
  <1> HIDE DEF o
  <1>6. /\ l_mapped' \in [Letters!Runs -> Letters!Objects \cup {Letters!None}]
        /\ l_mapped'[l_proc1.run] = o
        /\ \A r \in Letters!Runs : r # l_proc1.run => l_mapped'[r] = l_mapped[r]
    BY <1>1, <1>2, <1>3, <1>5 DEF LetterTypes
  <1>7. LetterTypes'
    BY <1>1, <1>2, <1>4, <1>5, <1>6 DEF LetterTypes
  <1>8. Unbegun'
    BY <1>1, <1>2, <1>3, <1>4, <1>6 DEF Unbegun
  <1>9. l_proc1.count = 0
    BY <1>1, <1>2 DEF Places, Unmapped
  <1>10. Places'
    BY <1>1, <1>2, <1>4, <1>5, <1>6, <1>9 DEF Places, Early, Unmapped, Storing
  <1>11. Alphabetical'
    BY <1>1, <1>2, <1>4, AlphabeticalKept
  <1>12. Permitted1(l_proc1.run) = 0
    <2>1. Permitted1(l_proc1.run) + 0 <= 0
      BY <1>1, <1>2, <1>3, <1>9 DEF Permissions
    <2> QED
      BY <1>1, <1>3, <2>1, LetterNumbers
  <1>13. Consumed(l_proc1.run) = 0 /\ l_bytes[1][l_proc1.run] = 0
    <2>1. Consumed(l_proc1.run) \in Nat /\ l_bytes[1][l_proc1.run] \in Nat
      BY <1>1, <1>3, LetterNumbers, ObjectFacts
    <2> QED
      BY <1>12, <2>1 DEF Permitted1
  <1>14. Permissions'
    <2>1. \A r \in Letters!Runs : Permitted1(r)' = Permitted1(r)
      BY <1>2 DEF Permitted1, Consumed
    <2>2. ASSUME NEW r \in Letters!Runs, NEW letters \in 1 .. Permitted1(r)' PROVE Stored(r, letters)'
      <3>1. r # l_proc1.run
        BY <1>12, <2>1, <2>2
      <3>2. Stored(r, letters)
        BY <1>1, <2>1 DEF Permissions
      <3> QED
        BY <1>2, <1>6, <3>1, <3>2 DEF Stored
    <2>3. Permitted1(l_proc1.run)' + 0 <= l_proc1.count
      BY <1>3, <1>4, <1>9, <1>12, <2>1
    <2> QED
      BY <1>4, <1>9, <2>2, <2>3 DEF Permissions
  <1>15. Printed'
    <2>1. CASE l_proc2.fd[1] = l_proc1.run
      <3>1. l_proc2.count + (IF l_proc2.pc \in {"print", "bus"} THEN 1 ELSE 0) = 0
        BY <1>13, <2>1 DEF Consumed
      <3>2. l_proc2.count = 0 /\ l_proc2.pc # "bus"
        BY <1>1, <3>1, LetterNumbers
      <3>3. 1 .. Len(l_out) = {}
        BY <1>1, <3>2 DEF LetterTypes
      <3> QED
        BY <1>2, <3>2, <3>3 DEF Printed
    <2>2. CASE l_proc2.fd[1] # l_proc1.run
      <3>1. l_proc2.fd[1] > 0 => l_proc2.fd[1] \in Letters!Runs
        BY <1>1, LetterNumbers, ObjectFacts
      <3> QED
        BY <1>1, <1>2, <1>6, <2>2, <3>1 DEF Printed
    <2> QED
      BY <2>1, <2>2
  <1>16. InOrder'
    <2> SUFFICES ASSUME l_orderly, l_size > 1
                 PROVE  (~l_proc1.met => Alone') /\ (l_proc1.met => Together')
      BY <1>2, <1>3, <1>4 DEF InOrder
    <2>1. Meeting => Meeting'
      BY <1>2, <1>4, <1>6 DEF Meeting, Early, Unmapped, Storing
    <2>2. ASSUME ~l_proc1.met PROVE Alone'
      BY <1>2, <1>4, <2>1, <2>2 DEF LettersInv, InOrder, Alone
    <2>3. ASSUME l_proc1.met PROVE Together'
      <3>1. Together
        BY <2>3 DEF LettersInv, InOrder
      <3>2. l_mapped[l_proc1.run] = Letters!None
        BY <1>1, <1>2 DEF Places, Unmapped
      <3>3. l_proc2.pc # "shm_open" => l_proc2.obj # Letters!None /\ l_shm = l_proc2.obj
        BY <3>1, <3>2 DEF Together
      <3> QED
        BY <1>2, <1>4, <1>5, <1>6, <2>1, <3>1, <3>3 DEF Together, Early
    <2> QED
      BY <2>2, <2>3
  <1> QED
    BY <1>7, <1>8, <1>10, <1>11, <1>14, <1>15, <1>16 DEF LettersInv

LEMMA FtruncateLetters == ASSUME LettersInv, Letters!Ftruncate PROVE LettersInv'
  <1> DEFINE o == l_mapped[l_proc1.run]
             zeros == [j \in 1 .. l_size |-> 0]
  <1>1. LetterTypes /\ Unbegun /\ Places /\ Alphabetical /\ Permissions /\ Printed
    BY DEF LettersInv
  <1>2. /\ l_proc1.pc = "ftruncate" /\ l_proc1' = [l_proc1 EXCEPT !.pc = "read"]
        /\ l_memory' = [l_memory EXCEPT ![o] = IF @ = <<>> THEN zeros ELSE @]
        /\ UNCHANGED <<l_size, l_fifo, l_bytes, l_shm, l_mapped, l_proc2, l_out, l_orderly>>
    BY DEF Letters!Ftruncate, Letters!At1, Letters!Go1
  <1>3. l_proc1.run \in Letters!Runs /\ l_proc1.run > 0 /\ l_proc1.run \in Nat
    BY <1>1, <1>2, Running, LetterNumbers
  <1>4. /\ l_proc1' \in Proc1s /\ l_proc1'.pc = "read" /\ l_proc1'.run = l_proc1.run
        /\ l_proc1'.count = l_proc1.count /\ l_proc1'.letter = l_proc1.letter
        /\ l_proc1'.met = l_proc1.met
    BY <1>1, <1>2 DEF LetterTypes, Proc1s, Places1
  <1>5. o \in Letters!Objects /\ o # Letters!None
    BY <1>1, <1>2, <1>3 DEF LetterTypes, Places
  <1>6. zeros \in Seq(Nat) /\ Len(zeros) = l_size /\ \A j \in 1 .. Len(zeros) : zeros[j] = 0
    BY <1>1, LetterNumbers
  <1> HIDE DEF o, zeros
  <1>7. /\ l_memory' \in [Letters!Objects -> Seq(Nat)]
        /\ l_memory'[o] = IF l_memory[o] = <<>> THEN zeros ELSE l_memory[o]
        /\ \A x \in Letters!Objects : x # o => l_memory'[x] = l_memory[x]
    BY <1>1, <1>2, <1>5, <1>6 DEF LetterTypes
  <1>8. LetterTypes'
    BY <1>1, <1>2, <1>4, <1>7 DEF LetterTypes
  <1>9. Unbegun'
    BY <1>1, <1>2, <1>3, <1>4 DEF Unbegun
  <1>10. l_memory'[o] # <<>>
    BY <1>1, <1>6, <1>7, LetterNumbers
  <1>11. l_proc1.count = 0 /\ 0 < l_size
    BY <1>1, <1>2, LetterNumbers DEF Places
  <1>12. Places'
    BY <1>1, <1>2, <1>4, <1>5, <1>10, <1>11 DEF Places, Early, Unmapped, Storing, o
  <1>13. Alphabetical'
    <2>1. ASSUME NEW x \in Letters!Objects PROVE RightLetters(x)'
      <3>1. RightLetters(x)
        BY <1>1 DEF Alphabetical
      <3>2. CASE l_memory'[x] = l_memory[x]
        BY <1>2, <3>1, <3>2 DEF RightLetters
      <3>3. CASE l_memory'[x] = zeros
        BY <1>2, <1>6, <3>3 DEF RightLetters
      <3> QED
        BY <1>7, <3>2, <3>3
    <2> QED
      BY <1>1, <1>4, <2>1 DEF Alphabetical
  <1>14. Permissions'
    <2>1. ASSUME NEW r \in Letters!Runs, NEW letters \in Nat \ {0}, Stored(r, letters)
          PROVE  Stored(r, letters)'
      <3>1. CASE l_mapped[r] = o
        <4>1. l_memory[o] # <<>>
          BY <2>1, <3>1 DEF Stored
        <4> QED
          BY <1>2, <1>7, <2>1, <3>1, <4>1 DEF Stored
      <3>2. CASE l_mapped[r] # o
        BY <1>1, <1>2, <1>7, <2>1, <3>2 DEF Stored, LetterTypes
      <3> QED
        BY <3>1, <3>2
    <2>2. \A r : Permitted1(r)' = Permitted1(r)
      BY <1>2 DEF Permitted1, Consumed
    <2>3. ASSUME NEW r \in Letters!Runs, NEW letters \in 1 .. Permitted1(r)' PROVE Stored(r, letters)'
      <3>1. Stored(r, letters) /\ letters \in Nat \ {0}
        BY <1>1, <2>2, LetterNumbers DEF Permissions
      <3> QED
        BY <2>1, <3>1
    <2>4. Permitted1(l_proc1.run) + 0 <= l_proc1.count
      BY <1>1, <1>2, <1>3 DEF Permissions
    <2> QED
      BY <1>4, <1>11, <2>2, <2>3, <2>4 DEF Permissions
  <1>15. Printed'
    BY <1>1, <1>2, PrintedKept
  <1>16. InOrder'
    <2>1. Meeting => Meeting'
      BY <1>2, <1>4 DEF Meeting, Early, Unmapped, Storing
    <2> QED
      BY <1>2, <1>4, <2>1, OrderStep1 DEF Early
  <1> QED
    BY <1>8, <1>9, <1>12, <1>13, <1>14, <1>15, <1>16 DEF LettersInv

LEMMA Read1Letters == ASSUME LettersInv, Letters!Read1 PROVE LettersInv'
  <1>1. LetterTypes /\ Unbegun /\ Places /\ Alphabetical /\ Permissions /\ Printed
    BY DEF LettersInv
  <1>2. /\ l_proc1.pc = "read" /\ l_proc1' = [l_proc1 EXCEPT !.pc = "store"]
        /\ l_bytes[2][l_proc1.run] > 0
        /\ l_bytes' = [l_bytes EXCEPT ![2][l_proc1.run] = @ - 1]
        /\ UNCHANGED <<l_size, l_fifo, l_shm, l_memory, l_mapped, l_proc2, l_out, l_orderly>>
    BY DEF Letters!Read1, Letters!At1, Letters!Go1
  <1>3. l_proc1.run \in Letters!Runs /\ l_proc1.run > 0 /\ l_proc1.run \in Nat
    BY <1>1, <1>2, Running, LetterNumbers
  <1>4. /\ l_proc1' \in Proc1s /\ l_proc1'.pc = "store" /\ l_proc1'.run = l_proc1.run
        /\ l_proc1'.count = l_proc1.count /\ l_proc1'.letter = l_proc1.letter
        /\ l_proc1'.met = l_proc1.met
    BY <1>1, <1>2 DEF LetterTypes, Proc1s, Places1
  <1>5. /\ l_bytes' \in [Letters!Pipes -> [Letters!Runs -> Nat]]
        /\ \A r \in Letters!Runs : l_bytes'[1][r] = l_bytes[1][r]
        /\ \A r \in Letters!Runs :
               l_bytes'[2][r] = IF r = l_proc1.run THEN l_bytes[2][r] - 1 ELSE l_bytes[2][r]
    <2>1. /\ l_bytes \in [Letters!Pipes -> [Letters!Runs -> Nat]]
          /\ l_bytes[2] \in [Letters!Runs -> Nat] /\ l_bytes[2][l_proc1.run] - 1 \in Nat
      BY <1>1, <1>2, <1>3, ObjectFacts DEF LetterTypes
    <2> DEFINE left == [l_bytes[2] EXCEPT ![l_proc1.run] = l_bytes[2][l_proc1.run] - 1]
    <2>2. /\ left \in [Letters!Runs -> Nat]
          /\ \A r \in Letters!Runs :
                 left[r] = IF r = l_proc1.run THEN l_bytes[2][r] - 1 ELSE l_bytes[2][r]
      BY <1>3, <2>1
    <2>3. l_bytes' = [l_bytes EXCEPT ![2] = left]
      BY <1>2
    <2> HIDE DEF left
    <2>4. l_bytes' \in [Letters!Pipes -> [Letters!Runs -> Nat]] /\ l_bytes'[1] = l_bytes[1] /\ l_bytes'[2] = left
      BY <2>1, <2>2, <2>3, ObjectFacts
    <2> QED
      BY <2>2, <2>4
  <1>6. LetterTypes'
    BY <1>1, <1>2, <1>4, <1>5 DEF LetterTypes
  <1>7. Unbegun'
    <2>1. \A r \in Letters!Runs : r > l_proc1.run =>
              l_bytes'[1][r] = l_bytes[1][r] /\ l_bytes'[2][r] = l_bytes[2][r]
      BY <1>3, <1>5
    <2> QED
      BY <1>1, <1>2, <1>3, <1>4, <2>1 DEF Unbegun, Letters!Pipes
  <1>8. Places'
    BY <1>1, <1>2, <1>4 DEF Places, Early, Unmapped, Storing
  <1>9. Alphabetical' /\ Printed'
    BY <1>1, <1>2, <1>4, AlphabeticalKept, PrintedKept
  <1>10. Permissions'
    <2>1. \A r \in Letters!Runs : Permitted1(r)' <= Permitted1(r)
      BY <1>1, <1>2, <1>5, LetterNumbers DEF Permitted1, Consumed
    <2> QED
      BY <1>1, <1>2, <1>4, <1>6, <2>1, PermissionsKept
  <1>11. InOrder'
    <2>1. Meeting => Meeting'
      <3> SUFFICES ASSUME Meeting PROVE Meeting'
        OBVIOUS
      <3>1. l_bytes[2][l_proc1.run] + l_proc1.count + 0 <= 1
        BY <1>2 DEF Meeting, Early
      <3>2. l_bytes[2][l_proc1.run] \in Nat /\ l_proc1.count \in Nat
        BY <1>1, <1>3, LetterNumbers, ObjectFacts
      <3>3. l_bytes'[2][l_proc1.run] = l_bytes[2][l_proc1.run] - 1
        BY <1>3, <1>5
      <3>4. l_bytes'[2][l_proc1.run] + l_proc1.count + 1 <= 1
        BY <3>1, <3>2, <3>3
      <3> QED
        BY <1>2, <1>4, <3>4 DEF Meeting, Unmapped, Early, Storing
    <2> QED
      BY <1>2, <1>4, <2>1, OrderStep1 DEF Early
  <1> QED
    BY <1>6, <1>7, <1>8, <1>9, <1>10, <1>11 DEF LettersInv

LEMMA StoreLetters == ASSUME LettersInv, Letters!Store PROVE LettersInv'
  <1> DEFINE o == l_mapped[l_proc1.run]
             n == l_proc1.count + 1
             letter == IF l_proc1.letter > LETTERS THEN 1 ELSE l_proc1.letter
  <1>1. LetterTypes /\ Unbegun /\ Places /\ Alphabetical /\ Permissions /\ Printed
    BY DEF LettersInv
  <1>2. /\ l_proc1.pc = "store"
        /\ l_proc1' = [l_proc1 EXCEPT !.pc = "write", !.letter = letter + 1, !.count = l_proc1.count + 1]
        /\ l_memory' = [l_memory EXCEPT ![o][n] = letter]
        /\ UNCHANGED <<l_size, l_fifo, l_bytes, l_shm, l_mapped, l_proc2, l_out, l_orderly>>
    BY DEF Letters!Store, Letters!At1
  <1>3. /\ l_proc1.run \in Letters!Runs /\ l_proc1.run > 0 /\ l_proc1.run \in Nat
        /\ l_proc1.count \in Nat /\ n \in Nat \ {0} /\ n = l_proc1.count + 1
    BY <1>1, <1>2, Running, LetterNumbers
  <1>4. /\ letter = Letters!Alphabet(n) /\ letter \in Nat /\ letter \in 1 .. LETTERS
        /\ Letters!Alphabet(n + 1) = IF letter + 1 > LETTERS THEN 1 ELSE letter + 1
    <2>1. letter = Letters!Alphabet(n)
      BY <1>1 DEF Alphabetical
    <2> QED
      BY <1>3, <2>1, NextLetter, MCFilesAssumption
  <1>5. o \in Letters!Objects /\ o # Letters!None
    BY <1>1, <1>2, <1>3 DEF LetterTypes, Places, Storing
  <1>6. l_memory[o] \in Seq(Nat) /\ Len(l_memory[o]) = l_size /\ n \in 1 .. Len(l_memory[o])
    <2>1. l_memory[o] # <<>> /\ l_proc1.count < l_size
      BY <1>1, <1>2 DEF Places, Storing
    <2>2. l_memory[o] \in Seq(Nat) /\ Len(l_memory[o]) \in {0, l_size} /\ l_size \in Nat
      BY <1>1, <1>5, LetterNumbers DEF Alphabetical, RightLetters
    <2>3. Len(l_memory[o]) # 0
      BY <2>1, <2>2
    <2> QED
      BY <1>3, <2>1, <2>2, <2>3
  <1> HIDE DEF o, n, letter
  <1>7. /\ l_proc1' \in Proc1s /\ l_proc1'.pc = "write" /\ l_proc1'.run = l_proc1.run
        /\ l_proc1'.count = n /\ l_proc1'.letter = letter + 1
        /\ l_proc1'.met = l_proc1.met
    <2>1. letter + 1 \in Nat /\ l_proc1.count + 1 \in Nat /\ "write" \in Places1
      BY <1>3, <1>4 DEF Places1
    <2> QED
      BY <1>1, <1>2, <1>3, <2>1 DEF LetterTypes, Proc1s
  <1>8. /\ l_memory' \in [Letters!Objects -> Seq(Nat)]
        /\ l_memory'[o] = [l_memory[o] EXCEPT ![n] = letter]
        /\ \A x \in Letters!Objects : x # o => l_memory'[x] = l_memory[x]
    <2>1. [l_memory[o] EXCEPT ![n] = letter] \in Seq(Nat)
      BY <1>4, <1>6
    <2> QED
      BY <1>1, <1>2, <1>5, <2>1 DEF LetterTypes
  <1>9. /\ Len(l_memory'[o]) = Len(l_memory[o])
        /\ \A j \in 1 .. Len(l_memory[o]) :
               l_memory'[o][j] = IF j = n THEN letter ELSE l_memory[o][j]
    BY <1>4, <1>6, <1>8
  <1>10. LetterTypes'
    BY <1>1, <1>2, <1>7, <1>8 DEF LetterTypes
  <1>11. Unbegun'
    BY <1>1, <1>2, <1>3, <1>7 DEF Unbegun
  <1>12. Places'
    <2>1. l_memory'[o] # <<>>
      BY <1>6, <1>8, <1>9
    <2> QED
      BY <1>1, <1>2, <1>5, <1>7, <2>1 DEF Places, Early, Unmapped, Storing, o
  <1>13. Alphabetical'
    <2>1. ASSUME NEW x \in Letters!Objects PROVE RightLetters(x)'
      <3>1. RightLetters(x)
        BY <1>1 DEF Alphabetical
      <3>2. CASE x # o
        BY <1>2, <1>8, <3>1, <3>2 DEF RightLetters
      <3>3. CASE x = o
        BY <1>2, <1>4, <1>9, <3>1, <3>3 DEF RightLetters
      <3> QED
        BY <3>2, <3>3
    <2>2. (IF l_proc1'.letter > LETTERS THEN 1 ELSE l_proc1'.letter)
              = Letters!Alphabet(l_proc1'.count + 1)
      BY <1>4, <1>7
    <2> QED
      BY <2>1, <2>2 DEF Alphabetical
  <1>14. Permissions'
    <2>1. ASSUME NEW r \in Letters!Runs, NEW letters \in Nat, Stored(r, letters)
          PROVE  Stored(r, letters)'
      <3>1. CASE l_mapped[r] = o
        <4>1. \A j \in 1 .. letters : j \in 1 .. Len(l_memory[o]) /\ l_memory[o][j] = Letters!Alphabet(j)
          BY <1>6, <2>1, <3>1 DEF Stored
        <4>2. \A j \in 1 .. letters : l_memory'[o][j] = Letters!Alphabet(j)
          BY <1>4, <1>9, <4>1
        <4> QED
          BY <1>2, <1>9, <2>1, <3>1, <4>2 DEF Stored
      <3>2. CASE l_mapped[r] # o
        BY <1>1, <1>2, <1>8, <2>1, <3>2 DEF Stored, LetterTypes
      <3> QED
        BY <3>1, <3>2
    <2>2. \A r : Permitted1(r)' = Permitted1(r)
      BY <1>2 DEF Permitted1, Consumed
    <2>3. ASSUME NEW r \in Letters!Runs, NEW letters \in 1 .. Permitted1(r)' PROVE Stored(r, letters)'
      <3>1. Stored(r, letters) /\ letters \in Nat
        BY <1>1, <2>2, LetterNumbers DEF Permissions
      <3> QED
        BY <2>1, <3>1
    <2>4. Permitted1(l_proc1.run) + 1 <= n
      <3>1. Permitted1(l_proc1.run) + 0 <= l_proc1.count
        BY <1>1, <1>2, <1>3 DEF Permissions
      <3> QED
        BY <1>1, <1>3, <3>1, LetterNumbers
    <2>5. Stored(l_proc1.run, l_proc1.count)'
      <3>1. \A j \in 1 .. n : j \in 1 .. Len(l_memory[o]) /\ (j = n \/ j \in 1 .. l_proc1.count)
        BY <1>3, <1>6
      <3>2. \A j \in 1 .. l_proc1.count : l_memory[o][j] = Letters!Alphabet(j)
        BY <1>1, <1>3 DEF Permissions, Stored, o
      <3>3. \A j \in 1 .. n : l_memory'[o][j] = Letters!Alphabet(j)
        BY <1>4, <1>9, <3>1, <3>2
      <3>4. l_mapped'[l_proc1'.run] = o /\ n <= Len(l_memory'[o])
        BY <1>2, <1>6, <1>7, <1>9 DEF o
      <3> QED
        BY <1>5, <1>7, <3>3, <3>4 DEF Stored
    <2> QED
      BY <1>7, <2>2, <2>3, <2>4, <2>5 DEF Permissions
  <1>15. Printed'
    BY <1>1, <1>2, PrintedKept
  <1>16. InOrder'
    <2>1. Meeting => Meeting'
      <3> SUFFICES ASSUME Meeting PROVE Meeting'
        OBVIOUS
      <3>1. l_bytes[2][l_proc1.run] + l_proc1.count + 1 <= 1
        BY <1>2 DEF Meeting, Early
      <3>2. l_bytes[2][l_proc1.run] \in Nat
        BY <1>1, <1>3, LetterNumbers, ObjectFacts
      <3>3. l_bytes[2][l_proc1.run] + n + 0 <= 1
        BY <1>3, <3>1, <3>2
      <3> QED
        BY <1>2, <1>7, <3>3 DEF Meeting, Unmapped, Early, Storing
    <2> QED
      BY <1>2, <1>7, <2>1, OrderStep1 DEF Early
  <1> QED
    BY <1>10, <1>11, <1>12, <1>13, <1>14, <1>15, <1>16 DEF LettersInv

\* The permission that is written is that of the letter that was stored before it.
LEMMA Write1Letters == ASSUME LettersInv, Letters!Write1 PROVE LettersInv'
  <1>1. LetterTypes /\ Unbegun /\ Places /\ Alphabetical /\ Permissions /\ Printed
    BY DEF LettersInv
  <1>2. /\ l_proc1.pc = "write"
        /\ l_proc1' = [l_proc1 EXCEPT !.pc = IF l_proc1.count < l_size THEN "read" ELSE "shm_unlink"]
        /\ l_bytes' = [l_bytes EXCEPT ![1][l_proc1.run] = @ + 1]
        /\ UNCHANGED <<l_size, l_fifo, l_shm, l_memory, l_mapped, l_proc2, l_out, l_orderly>>
    BY DEF Letters!Write1, Letters!At1, Letters!Go1
  <1>3. l_proc1.run \in Letters!Runs /\ l_proc1.run > 0 /\ l_proc1.run \in Nat
    BY <1>1, <1>2, Running, LetterNumbers
  <1>4. /\ l_proc1' \in Proc1s /\ l_proc1'.run = l_proc1.run
        /\ l_proc1'.pc = IF l_proc1.count < l_size THEN "read" ELSE "shm_unlink"
        /\ l_proc1'.count = l_proc1.count /\ l_proc1'.letter = l_proc1.letter
        /\ l_proc1'.met = l_proc1.met
    BY <1>1, <1>2 DEF LetterTypes, Proc1s, Places1
  <1>5. /\ l_bytes' \in [Letters!Pipes -> [Letters!Runs -> Nat]]
        /\ \A r \in Letters!Runs : l_bytes'[2][r] = l_bytes[2][r]
        /\ \A r \in Letters!Runs :
               l_bytes'[1][r] = IF r = l_proc1.run THEN l_bytes[1][r] + 1 ELSE l_bytes[1][r]
    <2>1. l_bytes \in [Letters!Pipes -> [Letters!Runs -> Nat]]
      BY <1>1 DEF LetterTypes
    <2>2. l_bytes' = [l_bytes EXCEPT ![1][l_proc1.run] = @ + 1] /\ 1 \in Letters!Pipes
             /\ 2 \in Letters!Pipes
      BY <1>2, ObjectFacts
    <2> QED
      BY <1>3, <2>1, <2>2
  <1>6. LetterTypes'
    BY <1>1, <1>2, <1>4, <1>5 DEF LetterTypes
  <1>7. Unbegun'
    <2>1. \A r \in Letters!Runs : r > l_proc1.run =>
              l_bytes'[1][r] = l_bytes[1][r] /\ l_bytes'[2][r] = l_bytes[2][r]
      BY <1>3, <1>5
    <2> QED
      BY <1>1, <1>2, <1>3, <1>4, <2>1 DEF Unbegun, Letters!Pipes
  <1>8. Places'
    BY <1>1, <1>2, <1>4 DEF Places, Early, Unmapped, Storing
  <1>9. Alphabetical' /\ Printed'
    BY <1>1, <1>2, <1>4, AlphabeticalKept, PrintedKept
  <1>10. Permissions'
    <2>1. \A r \in Letters!Runs : Permitted1(r)' =
              IF r = l_proc1.run THEN Permitted1(r) + 1 ELSE Permitted1(r)
      <3>1. \A r \in Letters!Runs :
                Consumed(r)' = Consumed(r) /\ Consumed(r) \in Nat /\ l_bytes[1][r] \in Nat
        BY <1>1, <1>2, LetterNumbers, ObjectFacts DEF Consumed
      <3> QED
        BY <1>5, <3>1 DEF Permitted1
    <2>2. Permitted1(l_proc1.run) + 1 <= l_proc1.count /\ Permitted1(l_proc1.run) \in Nat
          /\ l_proc1.count \in Nat
      BY <1>1, <1>2, <1>3, LetterNumbers DEF Permissions
    <2>3. Stored(l_proc1.run, l_proc1.count)
      BY <1>1, <2>2 DEF Permissions
    <2>4. \A r, letters : Stored(r, letters) => Stored(r, letters)'
      BY <1>2 DEF Stored
    <2>5. ASSUME NEW r \in Letters!Runs, NEW letters \in 1 .. Permitted1(r)' PROVE Stored(r, letters)'
      <3>1. CASE r = l_proc1.run
        <4>1. letters \in 1 .. Permitted1(l_proc1.run) + 1
          BY <2>1, <3>1
        <4>2. letters \in 1 .. l_proc1.count
          BY <2>2, <4>1
        <4>3. l_mapped[l_proc1.run] \in Letters!Objects
          BY <1>1, <1>3, <2>3 DEF Stored, LetterTypes
        <4>4. Len(l_memory[l_mapped[l_proc1.run]]) \in Nat
          BY <1>1, <4>3 DEF LetterTypes
        <4>5. Stored(l_proc1.run, letters)
          BY <2>2, <2>3, <4>2, <4>4 DEF Stored
        <4> QED
          BY <2>4, <3>1, <4>5
      <3>2. CASE r # l_proc1.run
        BY <1>1, <2>1, <2>4, <3>2 DEF Permissions
      <3> QED
        BY <3>1, <3>2
    <2>6. l_proc1'.pc # "write"
      BY <1>4
    <2>7. Stored(l_proc1.run, l_proc1.count)'
      BY <1>2, <1>4, <2>3 DEF Stored
    <2>8. (Permitted1(l_proc1.run) + 0)' <= l_proc1.count
      BY <1>3, <1>4, <2>1, <2>2
    <2> QED
      BY <1>4, <2>5, <2>6, <2>7, <2>8 DEF Permissions
  <1>11. InOrder'
    <2>1. l_size > 1 /\ Meeting => Meeting'
      <3> SUFFICES ASSUME l_size > 1, Meeting PROVE Meeting'
        OBVIOUS
      <3>1. l_bytes[2][l_proc1.run] + l_proc1.count + 0 <= 1
        BY <1>2 DEF Meeting, Early
      <3>2. l_bytes[2][l_proc1.run] \in Nat /\ l_proc1.count \in Nat /\ l_size \in Nat
        BY <1>1, <1>3, LetterNumbers, ObjectFacts
      <3>3. l_proc1.count < l_size
        BY <3>1, <3>2
      <3>4. l_bytes'[2][l_proc1.run] + l_proc1.count + 0 <= 1
        BY <1>3, <1>5, <3>1
      <3> QED
        BY <1>2, <1>4, <3>3, <3>4 DEF Meeting, Unmapped, Early, Storing
    <2> QED
      BY <1>2, <1>4, <2>1, OrderStep1 DEF Early
  <1> QED
    BY <1>6, <1>7, <1>8, <1>9, <1>10, <1>11 DEF LettersInv

\* What is lost with a pipe permits nothing.
LEMMA Closing ==
    ASSUME LetterTypes, NEW closed \in {Letters!Closed1, Letters!Closed2}
    PROVE  /\ closed \in [Letters!Pipes -> [Letters!Runs -> Nat]]
           /\ \A k \in Letters!Pipes, r \in Letters!Runs : closed[k][r] <= l_bytes[k][r]
  <1>1. \A k \in Letters!Pipes, r \in Letters!Runs : l_bytes[k][r] \in Nat
    BY LetterNumbers
  <1>2. CASE closed = Letters!Closed1
    BY <1>1, <1>2 DEF Letters!Closed1
  <1>3. CASE closed = Letters!Closed2
    BY <1>1, <1>3 DEF Letters!Closed2
  <1> QED
    BY <1>2, <1>3

LEMMA Cleanup1Letters == ASSUME LettersInv, Letters!Cleanup1 PROVE LettersInv'
  <1>1. LetterTypes /\ Unbegun /\ Places /\ Alphabetical /\ Permissions /\ Printed
    BY DEF LettersInv
  <1>2. /\ l_proc1.pc = "shm_unlink" /\ l_proc1' = [l_proc1 EXCEPT !.pc = "last_unlink1"]
        /\ l_bytes' = Letters!Closed1 /\ l_shm' = Letters!None
        /\ UNCHANGED <<l_size, l_fifo, l_memory, l_mapped, l_proc2, l_out, l_orderly>>
    BY DEF Letters!Cleanup1, Letters!At1, Letters!Go1
  <1>3. l_proc1.run \in Letters!Runs /\ l_proc1.run > 0 /\ l_proc1.run \in Nat
    BY <1>1, <1>2, Running, LetterNumbers
  <1>4. /\ l_proc1' \in Proc1s /\ l_proc1'.pc = "last_unlink1" /\ l_proc1'.run = l_proc1.run
        /\ l_proc1'.count = l_proc1.count /\ l_proc1'.letter = l_proc1.letter
        /\ l_proc1'.met = l_proc1.met
    BY <1>1, <1>2 DEF LetterTypes, Proc1s, Places1
  <1>5. /\ l_bytes' \in [Letters!Pipes -> [Letters!Runs -> Nat]]
        /\ \A k \in Letters!Pipes, r \in Letters!Runs :
               l_bytes'[k][r] <= l_bytes[k][r] /\ l_bytes'[k][r] \in Nat /\ l_bytes[k][r] \in Nat
    BY <1>1, <1>2, Closing, LetterNumbers
  <1>6. LetterTypes'
    BY <1>1, <1>2, <1>4, <1>5 DEF LetterTypes
  <1>7. Unbegun'
    <2>1. \A k \in Letters!Pipes, r \in Letters!Runs : l_bytes[k][r] = 0 => l_bytes'[k][r] = 0
      BY <1>5
    <2> QED
      BY <1>1, <1>2, <1>3, <1>4, <2>1 DEF Unbegun
  <1>8. Places'
    BY <1>1, <1>2, <1>4 DEF Places, Early, Unmapped, Storing
  <1>9. Alphabetical' /\ Printed'
    BY <1>1, <1>2, <1>4, AlphabeticalKept, PrintedKept
  <1>10. Permissions'
    <2>1. \A r \in Letters!Runs : Permitted1(r)' <= Permitted1(r)
      <3>1. \A r \in Letters!Runs : Consumed(r)' = Consumed(r) /\ Consumed(r) \in Nat
        BY <1>1, <1>2, LetterNumbers DEF Consumed
      <3> QED
        BY <1>5, <3>1, ObjectFacts DEF Permitted1
    <2> QED
      BY <1>1, <1>2, <1>4, <1>6, <2>1, PermissionsKept
  <1>11. InOrder'
    <2>1. ~Meeting
      BY <1>2 DEF Meeting, Unmapped, Storing
    <2> QED
      BY <1>2, <1>3, <1>4, <2>1, OrderStep1 DEF Early
  <1> QED
    BY <1>6, <1>7, <1>8, <1>9, <1>10, <1>11 DEF LettersInv

LEMMA Step1Letters == ASSUME LettersInv, Letters!Step1 PROVE LettersInv'
  <1>1. 1 \in Letters!Pipes /\ 2 \in Letters!Pipes
    BY ObjectFacts
  <1>2. CASE Letters!UnlinkOld
    BY <1>1, <1>2, PipeNames DEF Letters!UnlinkOld, Letters!Unlink, Letters!At1
  <1>3. CASE Letters!MkFifos
    BY <1>1, <1>3, PipeNames DEF Letters!MkFifos, Letters!MkFifo, Letters!At1
  <1>4. CASE Letters!UnlinkOwn
    BY <1>1, <1>4, PipeNames DEF Letters!UnlinkOwn, Letters!Unlink, Letters!At1
  <1> QED
    BY <1>2, <1>3, <1>4, OpenPipesLetters, ShmOpen1Letters, FtruncateLetters, Read1Letters,
       StoreLetters, Write1Letters, Cleanup1Letters
    DEF Letters!Step1
------------------------------------------------------------------------------
\* What proc2 does does not touch what is stored.
LEMMA Step2Keeps ==
    ASSUME LettersInv, UNCHANGED <<l_size, l_memory, l_mapped>>,
           l_proc1'.run = l_proc1.run, l_proc1'.count = l_proc1.count,
           l_proc1'.pc = l_proc1.pc, l_proc1'.letter = l_proc1.letter,
           LetterTypes', \A r \in Letters!Runs : Permitted1(r)' <= Permitted1(r)
    PROVE  Alphabetical' /\ Permissions'
  BY AlphabeticalKept, PermissionsKept DEF LettersInv

\* What a proc2 with its memory has to show of two programs that were started in order.
LEMMA OrderStep2 ==
    ASSUME LettersInv, UNCHANGED <<l_size, l_proc1, l_orderly, l_mapped>>,
           l_proc2.pc \in {"read", "print", "write", "shm_unlink"},
           l_proc2'.pc \notin {"open1", "open2", "shm_open"},
           l_proc2'.fd = l_proc2.fd, l_proc2'.obj = l_proc2.obj,
           l_proc2.pc = "read" /\ l_proc2.fd[1] = l_proc1.run => l_proc1.pc \notin Unmapped
    PROVE  InOrder'
  <1> SUFFICES ASSUME l_orderly, l_size > 1
               PROVE  l_proc1.run > 0 /\ (~l_proc1.met => Alone') /\ (l_proc1.met => Together')
    BY DEF InOrder
  <1>1. l_proc1.run > 0 /\ (~l_proc1.met => Alone) /\ (l_proc1.met => Together)
    BY DEF LettersInv, InOrder
  <1>2. ~Alone
    BY DEF Alone, Letters!Down
  <1>3. ASSUME Together PROVE Together'
    <2>1. l_mapped[l_proc1.run] = l_proc2.obj
      BY <1>3, ObjectFacts DEF Together, Unmapped
    <2> QED
      BY <1>3, <2>1 DEF Together
  <1> QED
    BY <1>1, <1>2, <1>3

LEMMA Open1Letters == ASSUME LettersInv, Letters!Open1 PROVE LettersInv'
  <1>1. LetterTypes /\ Unbegun /\ Places /\ Alphabetical /\ Permissions /\ Printed
    BY DEF LettersInv
  <1>2. /\ l_proc2.pc = "open1" /\ l_proc2' = [l_proc2 EXCEPT !.pc = "open2", !.fd[1] = l_fifo[1]]
        /\ UNCHANGED <<l_size, l_fifo, l_bytes, l_shm, l_memory, l_mapped, l_proc1, l_out, l_orderly>>
    BY DEF Letters!Open1, Letters!At2
  <1>3. /\ l_proc2.fd \in [Letters!Pipes -> 0 .. LETTER_RUNS] /\ l_fifo[1] \in 0 .. LETTER_RUNS
        /\ l_proc2 \in Proc2s
    BY <1>1, ObjectFacts DEF LetterTypes, Proc2s
  <1>4. /\ [l_proc2.fd EXCEPT ![1] = l_fifo[1]] \in [Letters!Pipes -> 0 .. LETTER_RUNS]
        /\ [l_proc2.fd EXCEPT ![1] = l_fifo[1]][1] = l_fifo[1]
        /\ [l_proc2.fd EXCEPT ![1] = l_fifo[1]][2] = l_proc2.fd[2]
    BY <1>3, ObjectFacts
  <1>5. /\ l_proc2' \in Proc2s /\ l_proc2'.pc = "open2" /\ l_proc2'.run = l_proc2.run
        /\ l_proc2'.count = l_proc2.count /\ l_proc2'.obj = l_proc2.obj
        /\ l_proc2'.fd = [l_proc2.fd EXCEPT ![1] = l_fifo[1]]
    BY <1>2, <1>3, <1>4 DEF Proc2s, Places2
  <1>6. LetterTypes'
    BY <1>1, <1>2, <1>5 DEF LetterTypes
  <1>7. Unbegun'
    <2>1. l_proc2'.fd[1] = l_fifo[1] /\ l_proc2'.fd[2] = l_proc2.fd[2]
      BY <1>4, <1>5
    <2> QED
      BY <1>1, <1>2, <2>1 DEF Unbegun, Letters!Pipes
  <1>8. l_proc2.count = 0 /\ l_proc2.obj = Letters!None
    BY <1>1, <1>2 DEF Places
  <1>9. Places'
    BY <1>1, <1>2, <1>4, <1>5, <1>8 DEF Places
  <1>10. Alphabetical' /\ Permissions'
    <2>1. \A r \in Letters!Runs : Consumed(r)' = 0 /\ Consumed(r) = 0 /\ l_bytes[1][r] \in Nat
      BY <1>1, <1>2, <1>5, <1>8, LetterNumbers, ObjectFacts DEF Consumed
    <2>2. \A r \in Letters!Runs : Permitted1(r)' <= Permitted1(r)
      BY <1>2, <2>1 DEF Permitted1
    <2> QED
      BY <1>2, <1>6, <2>2, Step2Keeps
  <1>11. Printed'
    <2>1. 1 .. Len(l_out) = {}
      BY <1>1, <1>8 DEF LetterTypes
    <2> QED
      BY <1>2, <1>5, <2>1 DEF Printed
  <1>12. InOrder'
    <2> SUFFICES ASSUME l_orderly, l_size > 1
                 PROVE  l_proc1.run > 0 /\ (~l_proc1.met => Alone') /\ (l_proc1.met => Together')
      BY <1>2 DEF InOrder
    <2>1. l_proc1.run > 0 /\ (~l_proc1.met => Alone) /\ (l_proc1.met => Together)
      BY DEF LettersInv, InOrder
    <2>2. ~Together
      BY <1>2 DEF Together
    <2>3. Meeting => Meeting'
      BY <1>2 DEF Meeting
    <2>4. ASSUME Alone PROVE Alone'
      BY <1>2, <1>4, <1>5, <2>3, <2>4, ObjectFacts DEF Alone, Letters!Down
    <2> QED
      BY <2>1, <2>2, <2>4
  <1> QED
    BY <1>6, <1>7, <1>9, <1>10, <1>11, <1>12 DEF LettersInv

\* Two programs that were started in order have met when both pipes are those of this run
\* of proc1, which has made them both.
LEMMA Open2Letters == ASSUME LettersInv, Letters!Open2 PROVE LettersInv'
  <1> DEFINE fd == [l_proc2.fd EXCEPT ![2] = l_fifo[2]]
  <1>1. LetterTypes /\ Unbegun /\ Places /\ Alphabetical /\ Permissions /\ Printed
    BY DEF LettersInv
  <1>2. /\ l_proc2.pc = "open2"
        /\ UNCHANGED <<l_size, l_fifo, l_shm, l_memory, l_mapped, l_out, l_orderly>>
        /\ IF \E k \in Letters!Pipes : fd[k] = 0
           THEN /\ l_proc2' = [l_proc2 EXCEPT !.pc = "idle", !.fd = fd]
                /\ l_bytes' = Letters!Closed2 /\ UNCHANGED l_proc1
           ELSE /\ l_proc2' = [l_proc2 EXCEPT !.pc = "shm_open", !.fd = fd]
                /\ l_proc1' = [l_proc1 EXCEPT !.met = TRUE] /\ UNCHANGED l_bytes
    BY DEF Letters!Open2, Letters!At2
  <1>3. /\ l_proc2.fd \in [Letters!Pipes -> 0 .. LETTER_RUNS] /\ l_fifo[2] \in 0 .. LETTER_RUNS
        /\ l_proc2 \in Proc2s /\ l_proc1 \in Proc1s
    BY <1>1, ObjectFacts DEF LetterTypes, Proc2s
  <1>4. /\ fd \in [Letters!Pipes -> 0 .. LETTER_RUNS]
        /\ fd[2] = l_fifo[2] /\ fd[1] = l_proc2.fd[1]
    BY <1>3, ObjectFacts
  <1> HIDE DEF fd
  <1>5. /\ l_proc2' \in Proc2s /\ l_proc2'.pc \in {"idle", "shm_open"} /\ l_proc2'.run = l_proc2.run
        /\ l_proc2'.count = l_proc2.count /\ l_proc2'.obj = l_proc2.obj /\ l_proc2'.fd = fd
    BY <1>2, <1>3, <1>4 DEF Proc2s, Places2
  <1>6. /\ l_proc1' \in Proc1s /\ l_proc1'.pc = l_proc1.pc /\ l_proc1'.run = l_proc1.run
        /\ l_proc1'.count = l_proc1.count /\ l_proc1'.letter = l_proc1.letter
    BY <1>2, <1>3 DEF Proc1s
  <1>15. \/ l_proc2'.pc = "idle" /\ UNCHANGED l_proc1
         \/ l_proc2'.pc = "shm_open" /\ l_proc1'.met /\ \A k \in Letters!Pipes : fd[k] # 0
    <2>1. CASE \E k \in Letters!Pipes : fd[k] = 0
      BY <1>2, <1>3, <2>1 DEF Proc2s
    <2>2. CASE ~\E k \in Letters!Pipes : fd[k] = 0
      <3>1. /\ l_proc2' = [l_proc2 EXCEPT !.pc = "shm_open", !.fd = fd]
            /\ l_proc1' = [l_proc1 EXCEPT !.met = TRUE]
        BY <1>2, <2>2
      <3>2. l_proc2'.pc = "shm_open"
        BY <1>3, <3>1 DEF Proc2s
      <3>3. l_proc1'.met = TRUE
        BY <1>3, <3>1 DEF Proc1s
      <3> QED
        BY <2>2, <3>2, <3>3
    <2> QED
      BY <2>1, <2>2
  <1>7. /\ l_bytes' \in [Letters!Pipes -> [Letters!Runs -> Nat]]
        /\ \A k \in Letters!Pipes, r \in Letters!Runs :
               l_bytes'[k][r] <= l_bytes[k][r] /\ l_bytes'[k][r] \in Nat /\ l_bytes[k][r] \in Nat
    <2>1. CASE l_bytes' = Letters!Closed2
      BY <1>1, <2>1, Closing, LetterNumbers
    <2>2. CASE l_bytes' = l_bytes
      BY <1>1, <2>2, LetterNumbers DEF LetterTypes
    <2> QED
      BY <1>2, <2>1, <2>2
  <1>8. LetterTypes'
    BY <1>1, <1>2, <1>5, <1>6, <1>7 DEF LetterTypes
  <1>9. Unbegun'
    <2>1. \A k \in Letters!Pipes, r \in Letters!Runs : l_bytes[k][r] = 0 => l_bytes'[k][r] = 0
      BY <1>7
    <2>2. \A k \in Letters!Pipes : fd[k] <= l_proc1.run
      BY <1>1, <1>4 DEF Unbegun, Letters!Pipes
    <2> QED
      BY <1>1, <1>2, <1>5, <1>6, <2>1, <2>2 DEF Unbegun
  <1>10. l_proc2.count = 0 /\ l_proc2.obj = Letters!None
    BY <1>1, <1>2 DEF Places
  <1>11. Places'
    <2>1. l_proc2'.pc = "shm_open" => \A k \in Letters!Pipes : fd[k] > 0
      <3>1. \A k \in Letters!Pipes : fd[k] \in 0 .. LETTER_RUNS
        BY <1>4
      <3> QED
        BY <1>15, <3>1, ObjectFacts
    <2>2. l_proc1.pc \in Early => fd[2] # l_proc1.run
      BY <1>1, <1>4 DEF Places
    <2> QED
      BY <1>1, <1>2, <1>5, <1>6, <1>10, <2>1, <2>2 DEF Places
  <1>12. Alphabetical' /\ Permissions'
    <2>1. \A r \in Letters!Runs : Consumed(r)' = 0 /\ Consumed(r) = 0
      BY <1>2, <1>5, <1>10 DEF Consumed
    <2>2. \A r \in Letters!Runs : Permitted1(r)' <= Permitted1(r)
      BY <1>7, <2>1, ObjectFacts DEF Permitted1
    <2> QED
      BY <1>2, <1>6, <1>8, <2>2, Step2Keeps
  <1>13. Printed'
    <2>1. 1 .. Len(l_out) = {}
      BY <1>1, <1>10 DEF LetterTypes
    <2> QED
      BY <1>2, <1>5, <2>1 DEF Printed
  <1>14. InOrder'
    <2> SUFFICES ASSUME l_orderly, l_size > 1
                 PROVE  /\ l_proc1.run > 0
                        /\ (~l_proc1'.met => Alone') /\ (l_proc1'.met => Together')
      BY <1>2, <1>6 DEF InOrder
    <2>1. l_proc1.run > 0 /\ (~l_proc1.met => Alone) /\ (l_proc1.met => Together)
      BY DEF LettersInv, InOrder
    <2>2. ~Together
      BY <1>2 DEF Together
    <2>3. ~l_proc1.met /\ Alone
      BY <2>1, <2>2
    <2>4. l_proc1.run \in Letters!Runs
      BY <1>1, <2>1, LetterNumbers, ObjectFacts
    <2>5. Meeting'
      <3>1. Meeting
        BY <2>3 DEF Alone
      <3>2. /\ l_bytes'[2][l_proc1.run] \in Nat /\ l_bytes[2][l_proc1.run] \in Nat
            /\ l_bytes'[2][l_proc1.run] <= l_bytes[2][l_proc1.run] /\ l_proc1.count \in Nat
        BY <1>1, <1>7, <2>4, LetterNumbers, ObjectFacts
      <3>3. l_bytes'[2][l_proc1.run] + l_proc1.count + (IF l_proc1.pc = "store" THEN 1 ELSE 0)
                <= IF l_proc1.pc \in Early \cup {"open"} THEN 0 ELSE 1
        BY <3>1, <3>2 DEF Meeting
      <3> QED
        BY <1>2, <1>6, <3>1, <3>3 DEF Meeting
    <2>6. CASE l_proc2'.pc = "idle"
      <3>1. UNCHANGED l_proc1
        BY <1>15, <2>6
      <3> QED
        BY <2>1, <2>3, <2>5, <2>6, <3>1 DEF Alone, Letters!Down
    <2>7. CASE l_proc2'.pc = "shm_open"
      <3>1. \A k \in Letters!Pipes : fd[k] # 0
        BY <1>15, <2>7
      <3>2. l_fifo[2] = l_proc1.run /\ l_proc2.fd[1] = l_proc1.run
        BY <1>2, <1>4, <2>3, <3>1, ObjectFacts DEF Alone, Letters!Down
      <3>3. l_proc1.pc \notin Early
        BY <1>1, <3>2 DEF Places
      <3>4. l_proc1'.met
        BY <1>15, <2>7
      <3>5. \A k \in Letters!Pipes : fd[k] = l_proc1.run
        BY <1>4, <3>2 DEF Letters!Pipes
      <3>6. Together'
        BY <1>5, <1>6, <2>5, <2>7, <3>3, <3>5 DEF Together
      <3> QED
        BY <2>1, <3>4, <3>6
    <2> QED
      BY <1>5, <2>6, <2>7
  <1> QED
    BY <1>8, <1>9, <1>11, <1>12, <1>13, <1>14 DEF LettersInv

\* Both have opened the pipes: the object that proc2 gets is that of this run of proc1, or
\* the one that this run will get.
LEMMA ShmOpen2Letters == ASSUME LettersInv, Letters!ShmOpen2 PROVE LettersInv'
  <1> DEFINE o == Letters!Opened(<<"proc2", l_proc2.run>>)
  <1>1. LetterTypes /\ Unbegun /\ Places /\ Alphabetical /\ Permissions /\ Printed
    BY DEF LettersInv
  <1>2. /\ l_proc2.pc = "shm_open" /\ l_proc2' = [l_proc2 EXCEPT !.pc = "read", !.obj = o]
        /\ l_shm' = o
        /\ UNCHANGED <<l_size, l_fifo, l_bytes, l_memory, l_mapped, l_proc1, l_out, l_orderly>>
    BY DEF Letters!ShmOpen2, Letters!At2
  <1>3. o \in Letters!Objects /\ o # Letters!None /\ (l_shm # Letters!None => o = l_shm)
    <2>1. CASE l_shm # Letters!None
      BY <1>1, <2>1, ObjectFacts DEF LetterTypes, Letters!Opened
    <2>2. CASE l_shm = Letters!None
      <3>1. l_proc2.run # 0
        BY <1>1, <1>2 DEF Unbegun
      <3>2. l_proc2.run \in Letters!Runs
        BY <1>1, <3>1, LetterNumbers, ObjectFacts
      <3> QED
        BY <2>2, <3>2, ObjectFacts DEF Letters!Opened
    <2> QED
      BY <2>1, <2>2
  <1> HIDE DEF o
  <1>4. /\ l_proc2' \in Proc2s /\ l_proc2'.pc = "read" /\ l_proc2'.run = l_proc2.run
        /\ l_proc2'.count = l_proc2.count /\ l_proc2'.obj = o /\ l_proc2'.fd = l_proc2.fd
    BY <1>1, <1>2, <1>3 DEF LetterTypes, Proc2s, Places2
  <1>5. LetterTypes'
    BY <1>1, <1>2, <1>3, <1>4 DEF LetterTypes
  <1>6. Unbegun'
    BY <1>1, <1>2, <1>4 DEF Unbegun
  <1>7. l_proc2.count = 0 /\ 0 < l_size /\ \A k \in Letters!Pipes : l_proc2.fd[k] > 0
    BY <1>1, <1>2, LetterNumbers DEF Places
  <1>8. Places'
    BY <1>1, <1>2, <1>3, <1>4, <1>7 DEF Places
  <1>9. Alphabetical' /\ Permissions'
    <2>1. \A r \in Letters!Runs : Permitted1(r)' <= Permitted1(r)
      BY <1>1, <1>2, <1>4, LetterNumbers DEF Permitted1, Consumed
    <2> QED
      BY <1>2, <1>5, <2>1, Step2Keeps
  <1>10. Printed'
    <2>1. 1 .. Len(l_out) = {}
      BY <1>1, <1>7 DEF LetterTypes
    <2> QED
      BY <1>2, <1>4, <2>1 DEF Printed
  <1>11. InOrder'
    <2> SUFFICES ASSUME l_orderly, l_size > 1
                 PROVE  l_proc1.run > 0 /\ (~l_proc1.met => Alone') /\ (l_proc1.met => Together')
      BY <1>2 DEF InOrder
    <2>1. l_proc1.run > 0 /\ (~l_proc1.met => Alone) /\ (l_proc1.met => Together)
      BY DEF LettersInv, InOrder
    <2>2. ~Alone
      BY <1>2 DEF Alone, Letters!Down
    <2>3. ASSUME Together PROVE Together'
      <3>1. Meeting /\ l_proc1.pc \notin Early
        BY <1>2, <2>3 DEF Together
      <3>2. CASE l_proc1.pc \in Unmapped
        <4>1. l_proc1.pc \in {"open", "shm_open"}
          BY <3>1, <3>2 DEF Early, Unmapped
        <4> QED
          BY <1>2, <1>3, <1>4, <2>3, <4>1 DEF Together
      <3>3. CASE l_proc1.pc \notin Unmapped
        <4>1. l_shm = l_mapped[l_proc1.run] /\ l_proc1.pc \in Storing \cup {"ftruncate"}
          BY <3>1, <3>3 DEF Meeting
        <4>2. l_mapped[l_proc1.run] # Letters!None
          BY <1>1, <4>1 DEF Places
        <4>3. l_mapped[l_proc1.run] = o
          BY <1>3, <4>1, <4>2
        <4> QED
          BY <1>2, <1>3, <1>4, <2>3, <4>3 DEF Together
      <3> QED
        BY <3>2, <3>3
    <2> QED
      BY <2>1, <2>2, <2>3
  <1> QED
    BY <1>5, <1>6, <1>8, <1>9, <1>10, <1>11 DEF LettersInv

LEMMA Read2Letters == ASSUME LettersInv, Letters!Read2 PROVE LettersInv'
  <1> DEFINE s == l_proc2.fd[1]
  <1>1. LetterTypes /\ Unbegun /\ Places /\ Alphabetical /\ Permissions /\ Printed
    BY DEF LettersInv
  <1>2. /\ l_proc2.pc = "read" /\ l_proc2' = [l_proc2 EXCEPT !.pc = "print"]
        /\ l_bytes[1][s] > 0 /\ l_bytes' = [l_bytes EXCEPT ![1][s] = @ - 1]
        /\ UNCHANGED <<l_size, l_fifo, l_shm, l_memory, l_mapped, l_proc1, l_out, l_orderly>>
    BY DEF Letters!Read2, Letters!At2, Letters!Go2
  <1>3. s \in Letters!Runs
    BY <1>1, <1>2, LetterNumbers, ObjectFacts DEF Places
  <1>4. /\ l_proc2' \in Proc2s /\ l_proc2'.pc = "print" /\ l_proc2'.run = l_proc2.run
        /\ l_proc2'.count = l_proc2.count /\ l_proc2'.obj = l_proc2.obj /\ l_proc2'.fd = l_proc2.fd
    BY <1>1, <1>2 DEF LetterTypes, Proc2s, Places2
  <1> HIDE DEF s
  <1>5. /\ l_bytes' \in [Letters!Pipes -> [Letters!Runs -> Nat]]
        /\ \A r \in Letters!Runs : l_bytes'[2][r] = l_bytes[2][r]
        /\ \A r \in Letters!Runs : l_bytes'[1][r] = IF r = s THEN l_bytes[1][r] - 1 ELSE l_bytes[1][r]
    <2>1. l_bytes[1] \in [Letters!Runs -> Nat] /\ l_bytes[1][s] - 1 \in Nat
      BY <1>1, <1>2, <1>3, ObjectFacts DEF LetterTypes
    <2> QED
      BY <1>1, <1>2, <1>3, <2>1, ObjectFacts, SMTT(30) DEF LetterTypes
  <1>6. LetterTypes'
    BY <1>1, <1>2, <1>4, <1>5 DEF LetterTypes
  <1>7. s <= l_proc1.run
    BY <1>1, ObjectFacts DEF Unbegun, s
  <1>8. Unbegun'
    <2>1. \A r \in Letters!Runs : r > l_proc1.run => r # s
      BY <1>1, <1>3, <1>7, LetterNumbers, ObjectFacts
    <2>2. \A r \in Letters!Runs : r > l_proc1.run =>
              l_bytes'[1][r] = l_bytes[1][r] /\ l_bytes'[2][r] = l_bytes[2][r]
      BY <1>5, <2>1
    <2> QED
      BY <1>1, <1>2, <1>4, <2>2 DEF Unbegun, Letters!Pipes
  <1>9. Places'
    BY <1>1, <1>2, <1>4 DEF Places
  <1>10. \A r \in Letters!Runs : Permitted1(r)' <= Permitted1(r)
    <2>1. /\ l_proc2.count \in Nat
          /\ \A r \in Letters!Runs : l_bytes[1][r] \in Nat /\ Consumed(r) \in Nat
      BY <1>1, LetterNumbers, ObjectFacts
    <2>2. \A r \in Letters!Runs : Consumed(r)' = IF r = s THEN Consumed(r) + 1 ELSE Consumed(r)
      BY <1>2, <1>4, <2>1 DEF Consumed, s
    <2> QED
      BY <1>5, <2>1, <2>2 DEF Permitted1
  <1>11. Alphabetical' /\ Permissions'
    BY <1>2, <1>6, <1>10, Step2Keeps
  <1>12. Printed'
    BY <1>1, <1>2, <1>4, PrintedKept
  <1>13. InOrder'
    <2>1. ASSUME s = l_proc1.run PROVE l_proc1.pc \notin Unmapped
      <3>1. l_bytes[1][s] \in Nat /\ Consumed(s) \in Nat /\ l_proc1.count \in Nat /\ s > 0
        BY <1>1, <1>3, LetterNumbers, ObjectFacts
      <3>2. Permitted1(s) + (IF l_proc1.pc = "write" THEN 1 ELSE 0) <= l_proc1.count
        BY <1>1, <2>1, <3>1 DEF Permissions
      <3>3. l_proc1.count > 0
        BY <1>2, <3>1, <3>2 DEF Permitted1
      <3> QED
        BY <1>1, <3>3 DEF Places
    <2> QED
      BY <1>2, <1>4, <2>1, OrderStep2 DEF s
  <1> QED
    BY <1>6, <1>8, <1>9, <1>11, <1>12, <1>13 DEF LettersInv

\* The permission that proc2 has read is worth the letter that it prints, if the memory is
\* that of the run whose pipe it is.
LEMMA WorthALetter ==
    ASSUME LettersInv, l_proc2.pc = "print", l_proc2.obj = l_mapped[l_proc2.fd[1]]
    PROVE  Stored(l_proc2.fd[1], l_proc2.count + 1)
  <1>1. l_proc2.fd[1] \in Letters!Runs
    BY LetterNumbers, ObjectFacts DEF LettersInv, Places
  <1>2. /\ l_proc2.count \in Nat /\ l_bytes[1][l_proc2.fd[1]] \in Nat
        /\ Permitted1(l_proc2.fd[1]) = l_bytes[1][l_proc2.fd[1]] + (l_proc2.count + 1)
    BY <1>1, LetterNumbers, ObjectFacts DEF LettersInv, Permitted1, Consumed
  <1>3. l_proc2.count + 1 \in 1 .. Permitted1(l_proc2.fd[1])
    BY <1>2
  <1> QED
    BY <1>1, <1>3 DEF LettersInv, Permissions

LEMMA PrintLetterLetters == ASSUME LettersInv, Letters!PrintLetter PROVE LettersInv'
  <1> DEFINE n == l_proc2.count + 1
             letter == l_memory[l_proc2.obj][n]
  <1>1. LetterTypes /\ Unbegun /\ Places /\ Alphabetical /\ Permissions /\ Printed
    BY DEF LettersInv
  <1>2. /\ l_proc2.pc = "print" /\ l_proc2' = [l_proc2 EXCEPT !.pc = "write", !.count = l_proc2.count + 1]
        /\ l_memory[l_proc2.obj] # <<>> /\ l_out' = Append(l_out, letter)
        /\ UNCHANGED <<l_size, l_fifo, l_bytes, l_shm, l_memory, l_mapped, l_proc1, l_orderly>>
    BY DEF Letters!PrintLetter, Letters!At2
  <1>3. l_proc2.count \in Nat /\ n \in Nat /\ n = l_proc2.count + 1 /\ l_proc2.count < l_size
    BY <1>1, <1>2, LetterNumbers DEF Places
  <1>4. letter \in Nat
    <2>1. l_proc2.obj \in Letters!Objects
      BY <1>1, <1>2, LetterNumbers DEF Places
    <2>2. l_memory[l_proc2.obj] \in Seq(Nat) /\ Len(l_memory[l_proc2.obj]) = l_size
      BY <1>1, <1>2, <2>1, LetterNumbers DEF Alphabetical, RightLetters
    <2>3. n \in 1 .. l_size
      BY <1>1, <1>3, LetterNumbers
    <2> QED
      BY <2>2, <2>3
  <1>5. /\ l_proc2' \in Proc2s /\ l_proc2'.pc = "write" /\ l_proc2'.run = l_proc2.run
        /\ l_proc2'.count = n /\ l_proc2'.obj = l_proc2.obj /\ l_proc2'.fd = l_proc2.fd
    BY <1>1, <1>2, <1>3 DEF LetterTypes, Proc2s, Places2
  <1> HIDE DEF letter
  <1>6. /\ l_out \in Seq(Nat) /\ Len(l_out) = l_proc2.count
        /\ l_out' \in Seq(Nat) /\ Len(l_out') = n
        /\ \A j \in 1 .. n : l_out'[j] = IF j = n THEN letter ELSE l_out[j]
    BY <1>1, <1>2, <1>3, <1>4 DEF LetterTypes
  <1>7. LetterTypes'
    BY <1>1, <1>2, <1>5, <1>6 DEF LetterTypes
  <1>8. Unbegun'
    BY <1>1, <1>2, <1>5 DEF Unbegun
  <1>9. Places'
    BY <1>1, <1>2, <1>5 DEF Places
  <1>10. \A r \in Letters!Runs : Permitted1(r)' <= Permitted1(r)
    <2>1. \A r \in Letters!Runs : l_bytes[1][r] \in Nat /\ Consumed(r) \in Nat
      BY <1>1, LetterNumbers, ObjectFacts
    <2>2. \A r \in Letters!Runs : Consumed(r)' = Consumed(r)
      BY <1>2, <1>3, <1>5 DEF Consumed
    <2> QED
      BY <1>2, <2>1, <2>2 DEF Permitted1
  <1>11. Alphabetical' /\ Permissions'
    BY <1>2, <1>7, <1>10, Step2Keeps
  <1>12. Printed'
    <2> SUFFICES ASSUME l_proc2.fd[1] > 0, l_proc2.obj = l_mapped[l_proc2.fd[1]]
                 PROVE  \A j \in 1 .. n : l_out'[j] = Letters!Alphabet(j)
      BY <1>2, <1>5, <1>6 DEF Printed
    <2>1. letter = Letters!Alphabet(n)
      <3>1. Stored(l_proc2.fd[1], n)
        BY <1>2, WorthALetter
      <3>2. n \in 1 .. n
        BY <1>3
      <3> QED
        BY <3>1, <3>2 DEF Stored, letter
    <2>2. \A j \in 1 .. l_proc2.count : l_out[j] = Letters!Alphabet(j)
      BY <1>1, <1>6 DEF Printed
    <2>3. \A j \in 1 .. n : j = n \/ j \in 1 .. l_proc2.count
      BY <1>3
    <2> QED
      BY <1>6, <2>1, <2>2, <2>3
  <1>13. InOrder'
    BY <1>2, <1>5, OrderStep2
  <1> QED
    BY <1>7, <1>8, <1>9, <1>11, <1>12, <1>13 DEF LettersInv

LEMMA BusErrorLetters == ASSUME LettersInv, Letters!BusError PROVE LettersInv'
  <1>1. LetterTypes /\ Unbegun /\ Places /\ Alphabetical /\ Permissions /\ Printed
    BY DEF LettersInv
  <1>2. /\ l_proc2.pc = "print" /\ l_proc2' = [l_proc2 EXCEPT !.pc = "bus"]
        /\ l_memory[l_proc2.obj] = <<>> /\ l_bytes' = Letters!Closed2
        /\ UNCHANGED <<l_size, l_fifo, l_shm, l_memory, l_mapped, l_proc1, l_out, l_orderly>>
    BY DEF Letters!BusError, Letters!At2, Letters!Go2
  <1>3. /\ l_proc2' \in Proc2s /\ l_proc2'.pc = "bus" /\ l_proc2'.run = l_proc2.run
        /\ l_proc2'.count = l_proc2.count /\ l_proc2'.obj = l_proc2.obj /\ l_proc2'.fd = l_proc2.fd
    BY <1>1, <1>2 DEF LetterTypes, Proc2s, Places2
  <1>4. /\ l_bytes' \in [Letters!Pipes -> [Letters!Runs -> Nat]]
        /\ \A k \in Letters!Pipes, r \in Letters!Runs :
               l_bytes'[k][r] <= l_bytes[k][r] /\ l_bytes'[k][r] \in Nat /\ l_bytes[k][r] \in Nat
    BY <1>1, <1>2, Closing, LetterNumbers
  <1>5. LetterTypes'
    BY <1>1, <1>2, <1>3, <1>4 DEF LetterTypes
  <1>6. Unbegun'
    <2>1. \A k \in Letters!Pipes, r \in Letters!Runs : l_bytes[k][r] = 0 => l_bytes'[k][r] = 0
      BY <1>4
    <2> QED
      BY <1>1, <1>2, <1>3, <2>1 DEF Unbegun
  <1>7. Places'
    BY <1>1, <1>2, <1>3 DEF Places
  <1>8. \A r \in Letters!Runs : Permitted1(r)' <= Permitted1(r)
    <2>1. \A r \in Letters!Runs : Consumed(r)' = Consumed(r) /\ Consumed(r) \in Nat
      BY <1>1, <1>2, <1>3, LetterNumbers DEF Consumed
    <2> QED
      BY <1>4, <2>1, ObjectFacts DEF Permitted1
  <1>9. Alphabetical' /\ Permissions'
    BY <1>2, <1>5, <1>8, Step2Keeps
  <1>10. Printed'
    <2> SUFFICES ASSUME l_proc2.fd[1] > 0, l_proc2.obj = l_mapped[l_proc2.fd[1]] PROVE FALSE
      BY <1>2, <1>3 DEF Printed
    <2>1. l_proc2.count + 1 <= Len(<<>>)
      BY <1>2, WorthALetter DEF Stored
    <2> QED
      BY <1>1, <2>1, LetterNumbers
  <1>11. InOrder'
    BY <1>2, <1>3, OrderStep2
  <1> QED
    BY <1>5, <1>6, <1>7, <1>9, <1>10, <1>11 DEF LettersInv

LEMMA Write2Letters == ASSUME LettersInv, Letters!Write2 PROVE LettersInv'
  <1> DEFINE s == l_proc2.fd[2]
  <1>1. LetterTypes /\ Unbegun /\ Places /\ Alphabetical /\ Permissions /\ Printed
    BY DEF LettersInv
  <1>2. /\ l_proc2.pc = "write"
        /\ l_proc2' = [l_proc2 EXCEPT !.pc = IF l_proc2.count < l_size THEN "read" ELSE "shm_unlink"]
        /\ l_bytes' = [l_bytes EXCEPT ![2][s] = @ + 1]
        /\ UNCHANGED <<l_size, l_fifo, l_shm, l_memory, l_mapped, l_proc1, l_out, l_orderly>>
    BY DEF Letters!Write2, Letters!At2, Letters!Go2
  <1>3. s \in Letters!Runs
    BY <1>1, <1>2, LetterNumbers, ObjectFacts DEF Places
  <1>4. /\ l_proc2' \in Proc2s /\ l_proc2'.run = l_proc2.run
        /\ l_proc2'.pc = IF l_proc2.count < l_size THEN "read" ELSE "shm_unlink"
        /\ l_proc2'.count = l_proc2.count /\ l_proc2'.obj = l_proc2.obj /\ l_proc2'.fd = l_proc2.fd
    BY <1>1, <1>2 DEF LetterTypes, Proc2s, Places2
  <1> HIDE DEF s
  <1>5. /\ l_bytes' \in [Letters!Pipes -> [Letters!Runs -> Nat]]
        /\ \A r \in Letters!Runs : l_bytes'[1][r] = l_bytes[1][r]
        /\ \A r \in Letters!Runs : l_bytes'[2][r] = IF r = s THEN l_bytes[2][r] + 1 ELSE l_bytes[2][r]
    BY <1>1, <1>2, <1>3, ObjectFacts DEF LetterTypes
  <1>6. LetterTypes'
    BY <1>1, <1>2, <1>4, <1>5 DEF LetterTypes
  <1>7. s <= l_proc1.run
    BY <1>1, ObjectFacts DEF Unbegun, s
  <1>8. Unbegun'
    <2>1. \A r \in Letters!Runs : r > l_proc1.run => r # s
      BY <1>1, <1>3, <1>7, LetterNumbers, ObjectFacts
    <2>2. \A r \in Letters!Runs : r > l_proc1.run =>
              l_bytes'[1][r] = l_bytes[1][r] /\ l_bytes'[2][r] = l_bytes[2][r]
      BY <1>5, <2>1
    <2> QED
      BY <1>1, <1>2, <1>4, <2>2 DEF Unbegun, Letters!Pipes
  <1>9. Places'
    BY <1>1, <1>2, <1>4 DEF Places
  <1>10. \A r \in Letters!Runs : Permitted1(r)' <= Permitted1(r)
    <2>1. \A r \in Letters!Runs : Consumed(r)' = Consumed(r) /\ Consumed(r) \in Nat
      BY <1>1, <1>2, <1>4, LetterNumbers DEF Consumed
    <2> QED
      BY <1>1, <1>5, <2>1, LetterNumbers, ObjectFacts DEF Permitted1
  <1>11. Alphabetical' /\ Permissions'
    BY <1>2, <1>6, <1>10, Step2Keeps
  <1>12. Printed'
    BY <1>1, <1>2, <1>4, PrintedKept
  <1>13. InOrder'
    BY <1>2, <1>4, OrderStep2
  <1> QED
    BY <1>6, <1>8, <1>9, <1>11, <1>12, <1>13 DEF LettersInv

LEMMA Cleanup2Letters == ASSUME LettersInv, Letters!Cleanup2 PROVE LettersInv'
  <1>1. LetterTypes /\ Unbegun /\ Places /\ Alphabetical /\ Permissions /\ Printed
    BY DEF LettersInv
  <1>2. /\ l_proc2.pc = "shm_unlink" /\ l_proc2' = [l_proc2 EXCEPT !.pc = "idle"]
        /\ l_shm' = Letters!None /\ l_bytes' = Letters!Closed2
        /\ UNCHANGED <<l_size, l_fifo, l_memory, l_mapped, l_proc1, l_out, l_orderly>>
    BY DEF Letters!Cleanup2, Letters!At2, Letters!Go2
  <1>3. /\ l_proc2' \in Proc2s /\ l_proc2'.pc = "idle" /\ l_proc2'.run = l_proc2.run
        /\ l_proc2'.count = l_proc2.count /\ l_proc2'.obj = l_proc2.obj /\ l_proc2'.fd = l_proc2.fd
    BY <1>1, <1>2 DEF LetterTypes, Proc2s, Places2
  <1>4. /\ l_bytes' \in [Letters!Pipes -> [Letters!Runs -> Nat]]
        /\ \A k \in Letters!Pipes, r \in Letters!Runs :
               l_bytes'[k][r] <= l_bytes[k][r] /\ l_bytes'[k][r] \in Nat /\ l_bytes[k][r] \in Nat
    BY <1>1, <1>2, Closing, LetterNumbers
  <1>5. LetterTypes'
    BY <1>1, <1>2, <1>3, <1>4 DEF LetterTypes
  <1>6. Unbegun'
    <2>1. \A k \in Letters!Pipes, r \in Letters!Runs : l_bytes[k][r] = 0 => l_bytes'[k][r] = 0
      BY <1>4
    <2> QED
      BY <1>1, <1>2, <1>3, <2>1 DEF Unbegun
  <1>7. Places'
    BY <1>1, <1>2, <1>3 DEF Places
  <1>8. \A r \in Letters!Runs : Permitted1(r)' <= Permitted1(r)
    <2>1. \A r \in Letters!Runs : Consumed(r)' = Consumed(r) /\ Consumed(r) \in Nat
      BY <1>1, <1>2, <1>3, LetterNumbers DEF Consumed
    <2> QED
      BY <1>4, <2>1, ObjectFacts DEF Permitted1
  <1>9. Alphabetical' /\ Permissions'
    BY <1>2, <1>5, <1>8, Step2Keeps
  <1>10. Printed'
    BY <1>1, <1>2, <1>3, PrintedKept
  <1>11. InOrder'
    BY <1>2, <1>3, OrderStep2
  <1> QED
    BY <1>5, <1>6, <1>7, <1>9, <1>10, <1>11 DEF LettersInv

LEMMA Step2Letters == ASSUME LettersInv, Letters!Step2 PROVE LettersInv'
  BY Open1Letters, Open2Letters, ShmOpen2Letters, Read2Letters, PrintLetterLetters,
     BusErrorLetters, Write2Letters, Cleanup2Letters
  DEF Letters!Step2
------------------------------------------------------------------------------
\* A new run of proc1 finds nothing of its own: no pipe, no permission and no memory.
LEMMA Start1Letters == ASSUME LettersInv, Letters!Start1 PROVE LettersInv'
  <1>0. PICK n : n = l_proc1.run + 1
    OBVIOUS
  <1>1. LetterTypes /\ Unbegun /\ Places /\ Alphabetical /\ Permissions /\ Printed
    BY DEF LettersInv
  <1>2. /\ l_proc1.run < LETTER_RUNS
        /\ l_proc1' = [pc |-> "unlink1", run |-> n, count |-> 0, letter |-> 1, met |-> FALSE]
        /\ l_orderly' = (l_proc2.pc \in Letters!Down)
        /\ UNCHANGED <<l_size, l_fifo, l_bytes, l_shm, l_memory, l_mapped, l_proc2, l_out>>
    BY <1>0 DEF Letters!Start1
  <1>3. /\ n \in Letters!Runs /\ n \in 0 .. LETTER_RUNS /\ n \in Nat /\ n > l_proc1.run /\ n > 0
        /\ l_proc1.run \in Nat
    <2>1. l_proc1.run \in Nat /\ LETTER_RUNS \in Nat
      BY <1>1, LetterNumbers, ObjectFacts
    <2> QED
      BY <1>0, <1>2, <2>1 DEF Letters!Runs
  <1>4. /\ l_proc1' \in Proc1s /\ l_proc1'.pc = "unlink1" /\ l_proc1'.run = n
        /\ l_proc1'.count = 0 /\ l_proc1'.letter = 1 /\ l_proc1'.met = FALSE
    BY <1>2, <1>3 DEF Proc1s, Places1
  <1>5. LetterTypes'
    BY <1>1, <1>2, <1>4 DEF LetterTypes
  <1>6. /\ l_mapped[n] = Letters!None
        /\ \A k \in Letters!Pipes : l_bytes[k][n] = 0 /\ l_fifo[k] # n /\ l_proc2.fd[k] # n
    <2>1. \A k \in Letters!Pipes : l_fifo[k] \in Nat /\ l_proc2.fd[k] \in Nat
      BY <1>1, LetterNumbers, ObjectFacts
    <2>2. \A k \in Letters!Pipes : l_fifo[k] <= l_proc1.run /\ l_proc2.fd[k] <= l_proc1.run
      BY <1>1 DEF Unbegun
    <2>3. \A k \in Letters!Pipes : l_fifo[k] # n /\ l_proc2.fd[k] # n
      BY <1>3, <2>1, <2>2
    <2>4. l_mapped[n] = Letters!None /\ \A k \in Letters!Pipes : l_bytes[k][n] = 0
      BY <1>1, <1>3 DEF Unbegun
    <2> QED
      BY <2>3, <2>4
  <1>7. Unbegun'
    <2>1. \A k \in Letters!Pipes : l_fifo[k] <= n /\ l_proc2.fd[k] <= n
      <3>1. \A k \in Letters!Pipes : l_fifo[k] \in Nat /\ l_proc2.fd[k] \in Nat
        BY <1>1, LetterNumbers, ObjectFacts
      <3>2. \A k \in Letters!Pipes : l_fifo[k] <= l_proc1.run /\ l_proc2.fd[k] <= l_proc1.run
        BY <1>1 DEF Unbegun
      <3> QED
        BY <1>3, <3>1, <3>2
    <2>2. \A r \in Letters!Runs : r > n => r > l_proc1.run
      BY <1>3, ObjectFacts
    <2>3. n # 0
      BY <1>3
    <2> QED
      BY <1>1, <1>2, <1>4, <2>1, <2>2, <2>3 DEF Unbegun
  <1>8. Places'
    <2>1. 2 \in Letters!Pipes
      BY ObjectFacts
    <2> QED
      BY <1>1, <1>2, <1>4, <1>6, <2>1 DEF Places, Storing
  <1>9. Alphabetical'
    <2>1. ~(1 > LETTERS) /\ 0 + 1 = 1
      BY MCFilesAssumption
    <2>2. \A o \in Letters!Objects : RightLetters(o)'
      BY <1>1, <1>2 DEF Alphabetical, RightLetters
    <2> QED
      BY <1>4, <2>1, <2>2, FirstLetter DEF Alphabetical
  <1>10. Permissions'
    <2>1. \A r \in Letters!Runs : Permitted1(r)' = Permitted1(r) /\ Permitted1(r) \in Nat
      BY <1>1, <1>2, LetterNumbers DEF Permitted1, Consumed
    <2>2. Permitted1(n) = 0
      BY <1>6, ObjectFacts DEF Permitted1, Consumed
    <2>3. \A r, letters : Stored(r, letters) => Stored(r, letters)'
      BY <1>2 DEF Stored
    <2>4. Permitted1(n)' = 0
      BY <1>3, <2>1, <2>2
    <2>5. Permitted1(l_proc1.run)' = 0
      BY <1>2, <1>4, <2>4 DEF Permitted1, Consumed
    <2>6. ASSUME NEW r \in Letters!Runs, NEW letters \in 1 .. Permitted1(r)'
          PROVE  Stored(r, letters)'
      BY <1>1, <2>1, <2>3 DEF Permissions
    <2> QED
      BY <1>4, <2>5, <2>6 DEF Permissions
  <1>11. Printed'
    BY <1>1, <1>2, PrintedKept
  <1>12. InOrder'
    <2> SUFFICES ASSUME l_orderly', l_size > 1 PROVE Alone'
      BY <1>2, <1>3, <1>4 DEF InOrder
    <2>1. Meeting'
      BY <1>2, <1>4, <1>6, ObjectFacts DEF Meeting, Early, Unmapped
    <2> QED
      BY <1>2, <2>1 DEF Alone, Letters!Down
  <1> QED
    BY <1>5, <1>7, <1>8, <1>9, <1>10, <1>11, <1>12 DEF LettersInv

LEMMA Start2Letters == ASSUME LettersInv, Letters!Start2 PROVE LettersInv'
  <1>1. LetterTypes /\ Unbegun /\ Places /\ Alphabetical /\ Permissions /\ Printed
    BY DEF LettersInv
  <1>2. /\ l_proc2.run < LETTER_RUNS
        /\ l_proc2' = [pc |-> "open1", run |-> l_proc2.run + 1, count |-> 0,
                       fd |-> [k \in Letters!Pipes |-> 0], obj |-> Letters!None]
        /\ l_out' = <<>> /\ l_orderly' = (l_orderly /\ ~Letters!TooEarly)
        /\ UNCHANGED <<l_size, l_fifo, l_bytes, l_shm, l_memory, l_mapped, l_proc1>>
    BY DEF Letters!Start2
  <1>3. l_proc2.run + 1 \in 0 .. LETTER_RUNS /\ l_proc2.run + 1 # 0
    BY <1>1, <1>2, LetterNumbers, ObjectFacts
  <1>4. /\ l_proc2' \in Proc2s /\ l_proc2'.pc = "open1" /\ l_proc2'.run # 0
        /\ l_proc2'.count = 0 /\ l_proc2'.obj = Letters!None
        /\ \A k \in Letters!Pipes : l_proc2'.fd[k] = 0
    <2>1. [k \in Letters!Pipes |-> 0] \in [Letters!Pipes -> 0 .. LETTER_RUNS]
      BY ObjectFacts
    <2>2. l_proc2' \in Proc2s
      BY <1>2, <1>3, <2>1 DEF Proc2s, Places2
    <2> QED
      BY <1>2, <1>3, <2>2
  <1>5. LetterTypes'
    BY <1>1, <1>2, <1>4 DEF LetterTypes
  <1>6. Unbegun'
    <2>1. 0 <= l_proc1.run
      BY <1>1, LetterNumbers
    <2> QED
      BY <1>1, <1>2, <1>4, <2>1 DEF Unbegun
  <1>7. Places'
    <2>1. l_proc1.pc \in Early => l_proc1.run # 0
      BY <1>1 DEF Unbegun, Early
    <2> QED
      BY <1>1, <1>2, <1>4, <2>1, ObjectFacts DEF Places
  <1>8. Alphabetical' /\ Permissions'
    <2>1. \A r \in Letters!Runs : Consumed(r)' = 0 /\ Consumed(r) \in Nat /\ l_bytes[1][r] \in Nat
      BY <1>1, <1>4, LetterNumbers, ObjectFacts DEF Consumed
    <2>2. \A r \in Letters!Runs : Permitted1(r)' <= Permitted1(r)
      BY <1>2, <2>1 DEF Permitted1
    <2> QED
      BY <1>2, <1>5, <2>2, Step2Keeps
  <1>9. Printed'
    BY <1>4, ObjectFacts DEF Printed
  <1>10. InOrder'
    <2> SUFFICES ASSUME l_orderly', l_size > 1
                 PROVE  l_proc1.run > 0 /\ ~l_proc1.met /\ Alone'
      BY <1>2 DEF InOrder
    <2>1. ~l_proc1.met /\ l_orderly /\ \A k \in Letters!Pipes : l_fifo[k] \in {0, l_proc1.run}
      BY <1>2 DEF Letters!TooEarly
    <2>2. l_proc1.run > 0 /\ Meeting
      BY <2>1 DEF LettersInv, InOrder, Alone
    <2>3. Meeting'
      BY <1>2, <2>2 DEF Meeting
    <2> QED
      BY <1>2, <1>4, <2>1, <2>2, <2>3 DEF Alone
  <1> QED
    BY <1>5, <1>6, <1>7, <1>8, <1>9, <1>10 DEF LettersInv

\* What is killed loses its pipes, and leaves the rest as it is.
LEMMA KillLetters == ASSUME LettersInv, Letters!Kill PROVE LettersInv'
  <1>1. LetterTypes /\ Unbegun /\ Places /\ Alphabetical /\ Permissions /\ Printed
    BY DEF LettersInv
  <1>2. /\ l_orderly' = FALSE /\ l_bytes' \in {Letters!Closed1, Letters!Closed2}
        /\ UNCHANGED <<l_size, l_fifo, l_shm, l_memory, l_mapped, l_out>>
        /\ \/ l_proc1.pc \notin Letters!Down /\ l_proc1' = [l_proc1 EXCEPT !.pc = "killed"]
              /\ UNCHANGED l_proc2
           \/ l_proc2.pc \notin Letters!Down /\ l_proc2' = [l_proc2 EXCEPT !.pc = "killed"]
              /\ UNCHANGED l_proc1
    BY DEF Letters!Kill, Letters!Go1, Letters!Go2
  <1>3. /\ l_proc1' \in Proc1s /\ l_proc1'.run = l_proc1.run
        /\ l_proc1'.count = l_proc1.count /\ l_proc1'.letter = l_proc1.letter
        /\ l_proc1'.pc = l_proc1.pc \/ (l_proc1'.pc = "killed" /\ l_proc1.pc # "idle")
    BY <1>1, <1>2 DEF LetterTypes, Proc1s, Places1, Letters!Down
  <1>4. /\ l_proc2' \in Proc2s /\ l_proc2'.run = l_proc2.run
        /\ l_proc2'.count = l_proc2.count /\ l_proc2'.obj = l_proc2.obj /\ l_proc2'.fd = l_proc2.fd
        /\ l_proc2'.pc = l_proc2.pc \/ (l_proc2'.pc = "killed" /\ l_proc2.pc # "idle")
    BY <1>1, <1>2 DEF LetterTypes, Proc2s, Places2, Letters!Down
  <1>5. /\ l_bytes' \in [Letters!Pipes -> [Letters!Runs -> Nat]]
        /\ \A k \in Letters!Pipes, r \in Letters!Runs :
               l_bytes'[k][r] <= l_bytes[k][r] /\ l_bytes'[k][r] \in Nat /\ l_bytes[k][r] \in Nat
    <2>1. CASE l_bytes' = Letters!Closed1
      BY <1>1, <2>1, Closing, LetterNumbers
    <2>2. CASE l_bytes' = Letters!Closed2
      BY <1>1, <2>2, Closing, LetterNumbers
    <2> QED
      BY <1>2, <2>1, <2>2
  <1>6. LetterTypes'
    BY <1>1, <1>2, <1>3, <1>4, <1>5 DEF LetterTypes
  <1>7. Unbegun'
    <2>1. \A k \in Letters!Pipes, r \in Letters!Runs : l_bytes[k][r] = 0 => l_bytes'[k][r] = 0
      BY <1>5
    <2> QED
      BY <1>1, <1>2, <1>3, <1>4, <2>1 DEF Unbegun
  <1>8. Places'
    BY <1>1, <1>2, <1>3, <1>4 DEF Places, Early, Unmapped, Storing
  <1>9. Alphabetical' /\ Printed'
    BY <1>1, <1>2, <1>3, <1>4, AlphabeticalKept, PrintedKept
  <1>10. Permissions'
    <2>1. \A r \in Letters!Runs : /\ Consumed(r)' \in Nat /\ Consumed(r) \in Nat
                                  /\ Consumed(r)' <= Consumed(r)
      <3>1. l_proc2.count \in Nat
        BY <1>1, LetterNumbers
      <3> QED
        BY <1>4, <3>1 DEF Consumed
    <2>2. \A r \in Letters!Runs : Permitted1(r)' <= Permitted1(r)
      BY <1>5, <2>1, ObjectFacts DEF Permitted1
    <2>3. l_proc1'.pc = "write" => l_proc1.pc = "write"
      BY <1>3
    <2> QED
      BY <1>1, <1>2, <1>3, <1>6, <2>2, <2>3, PermissionsKept
  <1>11. InOrder'
    BY <1>2 DEF InOrder
  <1> QED
    BY <1>6, <1>7, <1>8, <1>9, <1>10, <1>11 DEF LettersInv

LEMMA UserLetters == ASSUME LettersInv, Letters!User PROVE LettersInv'
  BY Start1Letters, Start2Letters, KillLetters DEF Letters!User
------------------------------------------------------------------------------
\* proc2 has the pipes and the memory of one run of proc1 when both were started in order,
\* and then prints what this run has stored.
LEMMA LettersFresh == LettersInv => Letters!PrintsLetters
  <1> SUFFICES ASSUME LettersInv PROVE Letters!PrintsLetters
    OBVIOUS
  <1>1. LetterTypes /\ Printed /\ InOrder
    BY DEF LettersInv
  <1>2. ASSUME Letters!Paired
        PROVE  (\A j \in 1 .. Len(l_out) : l_out[j] = Letters!Alphabet(j)) /\ l_proc2.pc # "bus"
    <2>1. PICK r \in Letters!Runs :
              l_proc2.fd = [k \in Letters!Pipes |-> r] /\ l_proc2.obj = l_mapped[r]
      BY <1>2 DEF Letters!Paired
    <2>2. l_proc2.fd[1] = r /\ r > 0
      BY <2>1, ObjectFacts
    <2> QED
      BY <1>1, <2>1, <2>2 DEF Printed
  <1>3. ASSUME l_orderly, l_size > 1, l_proc1.met, l_proc2.pc \notin {"shm_open", "read"}
        PROVE  Letters!Paired
    <2>1. l_proc1.run > 0 /\ Together
      BY <1>1, <1>3 DEF InOrder
    <2>2. l_mapped[l_proc1.run] = l_proc2.obj
      BY <1>3, <2>1 DEF Together
    <2>3. l_proc2.fd \in [Letters!Pipes -> 0 .. LETTER_RUNS]
      BY <1>1 DEF LetterTypes, Proc2s
    <2>4. l_proc2.fd = [k \in Letters!Pipes |-> l_proc1.run]
      BY <2>1, <2>3 DEF Together
    <2>5. l_proc1.run \in Letters!Runs
      BY <1>1, <2>1, LetterNumbers, ObjectFacts
    <2> QED
      BY <2>2, <2>4, <2>5 DEF Letters!Paired
  <1> QED
    BY <1>2, <1>3 DEF Letters!PrintsLetters
------------------------------------------------------------------------------
\* The two pairs of programs, of which one runs at a time.
FreshInv == FileInv /\ LettersInv

LEMMA FileStutter == ASSUME FileInv, UNCHANGED mappedVars PROVE FileInv'
  <1>1. UNCHANGED <<f_size, f_name, f_semaphore, f_semaphore1, f_added, f_read, f_writer,
                    f_reader, f_orderly>>
    BY DEF mappedVars
  <1>2. FilePlaces' /\ (FileTypes => FileTypes') /\ (BytesRead => BytesRead')
    BY <1>1 DEF FileInv, FilePlaces, InPlace, FileTypes, BytesRead, File!Used
  <1>3. ASSUME NEW k PROVE FileRound(k) => FileRound(k)'
    BY <1>1 DEF FileRound, InRound, Balanced, AddedInRound, WriterIn, ReaderIn, Permitted,
                Waited, Changed, Posted, Met, Returned, File!Used
  <1> QED
    BY <1>1, <1>2, <1>3 DEF FileInv

LEMMA LettersStutter == ASSUME LettersInv, UNCHANGED letterVars PROVE LettersInv'
  <1>1. UNCHANGED <<l_size, l_fifo, l_bytes, l_shm, l_memory, l_mapped, l_proc1, l_proc2,
                    l_out, l_orderly>>
    BY DEF letterVars
  <1>2. LetterTypes' /\ Unbegun' /\ Places' /\ Alphabetical' /\ Printed'
    BY <1>1 DEF LettersInv, LetterTypes, Unbegun, Places, Alphabetical, RightLetters, Printed
  <1>3. Permissions'
    BY <1>1 DEF LettersInv, Permissions, Permitted1, Consumed, Stored
  <1>4. InOrder'
    BY <1>1 DEF LettersInv, InOrder, Alone, Together, Meeting
  <1> QED
    BY <1>2, <1>3, <1>4 DEF LettersInv

LEMMA NextFresh == FreshInv /\ [MCNext]_allVars => FreshInv'
  <1> SUFFICES ASSUME FreshInv, [MCNext]_allVars PROVE FreshInv'
    OBVIOUS
  <1>1. FileInv /\ LettersInv
    BY DEF FreshInv
  <1>2. ASSUME UNCHANGED <<letterVars, mappedVars>> PROVE FreshInv'
    BY <1>1, <1>2, FileStutter, LettersStutter DEF FreshInv
  <1>3. ASSUME UNCHANGED mappedVars, Letters!Step1 \/ Letters!Step2 \/ Letters!User
        PROVE  FreshInv'
    BY <1>1, <1>3, FileStutter, Step1Letters, Step2Letters, UserLetters DEF FreshInv
  <1>4. ASSUME UNCHANGED letterVars, File!Next PROVE FreshInv'
    BY <1>1, <1>4, FileStep, LettersStutter DEF FreshInv
  <1>5. CASE MCFirst
    BY <1>3, <1>4, <1>5 DEF MCFirst, OnLetters, OnFile, File!Next
  <1>6. CASE MCSecond
    BY <1>3, <1>4, <1>6 DEF MCSecond, OnLetters, OnFile, File!Next
  <1>7. CASE MCUser
    BY <1>2, <1>3, <1>4, <1>7 DEF MCUser, OnLetters, OnFile, OnVector, File!Next
  <1>8. CASE Copies(Next) \/ Counts(Counting!Next)
    BY <1>2, <1>8 DEF Copies, Counts
  <1>9. CASE UNCHANGED allVars
    BY <1>2, <1>9 DEF allVars
  <1> QED
    BY <1>5, <1>6, <1>7, <1>8, <1>9 DEF MCNext

\* Whatever the sizes, the letters of the alphabet and the starts and kills of a user:
\* proc2 of lab12_ex1.c has the pipes and the memory of one run of proc1 when both were
\* started in order, and then prints the letters that this run has stored, each after it
\* was stored; and in rounds that were started in order the reader of the mapped file
\* prints each byte after the writer has changed it in this round.
THEOREM FreshReads == MCSpec => []ReadsAreFresh
  <1>1. MCInit => FreshInv
    BY FileInit, LetterInit DEF MCInit, FreshInv
  <1>2. FreshInv => ReadsAreFresh
    BY FileFresh, LettersFresh DEF FreshInv, ReadsAreFresh
  <1> QED
    BY <1>1, <1>2, NextFresh, PTL DEF MCSpec
------------------------------------------------------------------------------
LEMMA UpTo == \A n \in Nat : IsFiniteSet(1 .. n) /\ Cardinality(1 .. n) = n
  <1> TAKE n \in Nat
  <1>1. IsFiniteSet(1 .. n) /\ Cardinality(1 .. n) = IF 1 > n THEN 0 ELSE n - 1 + 1
    BY FS_Interval
  <1> QED
    BY <1>1

\* How many permissions there are in the mapped file program.

\* The values of the semaphores that had the first name, one by one, and what the two
\* have waited for and not posted: who waits for one permission gives one.
Values(f) == {v \in (1 .. FILE_RUNS + 1) \X (Nat \ {0}) : v[2] <= f[v[1]]}
Held == (IF f_writer.pc \in {"add", "post"} THEN 1 ELSE 0)
        + (IF f_reader.pc \in {"print", "post"} THEN 1 ELSE 0)
FirstPosts == f_writer.run - (IF f_writer.pc \in {"open", "first_post"} THEN 1 ELSE 0)

\* In whatever order the rounds are started: there are as many permissions as the writer
\* has given first, one in each run.
FilePermissions ==
    /\ IsFiniteSet(Values(f_semaphore))
    /\ Cardinality(Values(f_semaphore)) + f_semaphore1 + Held = FirstPosts
    /\ f_size < 2 => f_semaphore1 = 0

\* Each run of the writer changes each byte once, each run of the reader uses up a name.
BytesChanged == f_writer.i + (IF f_writer.pc = "post" THEN 1 ELSE 0)
FileChanged ==
    \A j \in File!Used :
        f_added[j] = IF j < BytesChanged \/ f_writer.run = 0
                     THEN f_writer.run ELSE f_writer.run - 1
FileNames ==
    /\ f_name \in Nat \ {0} /\ f_name <= f_reader.run + (IF f_reader.pc = "done" THEN 1 ELSE 0)
    /\ \A p \in {f_writer, f_reader} :
           p.sem <= FILE_RUNS + 1 /\ (p.pc \notin {"open", "done"} => p.sem > 0)
FileCounts == FileNames /\ FileChanged /\ \A j \in File!Used : f_read[j] <= FILE_RUNS

FileBounds == FilePlaces /\ FileTypes /\ f_orderly \in BOOLEAN /\ FilePermissions /\ FileCounts
------------------------------------------------------------------------------
LEMMA RaisedValue ==
    ASSUME NEW f \in [1 .. FILE_RUNS + 1 -> Nat], NEW s \in 1 .. FILE_RUNS + 1,
           IsFiniteSet(Values(f))
    PROVE  LET g == [f EXCEPT ![s] = @ + 1]
           IN  /\ g \in [1 .. FILE_RUNS + 1 -> Nat] /\ IsFiniteSet(Values(g))
               /\ Cardinality(Values(g)) = Cardinality(Values(f)) + 1
  <1> DEFINE g == [f EXCEPT ![s] = @ + 1]
  <1>1. g \in [1 .. FILE_RUNS + 1 -> Nat]
    OBVIOUS
  <1>2. Values(g) = Values(f) \cup {<<s, f[s] + 1>>} /\ <<s, f[s] + 1>> \notin Values(f)
    BY DEF Values
  <1> HIDE DEF g
  <1>3. IsFiniteSet(Values(g)) /\ Cardinality(Values(g)) = Cardinality(Values(f)) + 1
    BY <1>2, FS_AddElement
  <1> QED
    BY <1>1, <1>3 DEF g

LEMMA LoweredValue ==
    ASSUME NEW f \in [1 .. FILE_RUNS + 1 -> Nat], NEW s \in 1 .. FILE_RUNS + 1, f[s] > 0,
           IsFiniteSet(Values(f))
    PROVE  LET g == [f EXCEPT ![s] = @ - 1]
           IN  /\ g \in [1 .. FILE_RUNS + 1 -> Nat] /\ IsFiniteSet(Values(g))
               /\ Cardinality(Values(g)) = Cardinality(Values(f)) - 1
  <1> DEFINE g == [f EXCEPT ![s] = @ - 1]
  <1>1. g \in [1 .. FILE_RUNS + 1 -> Nat]
    OBVIOUS
  <1>2. Values(g) = Values(f) \ {<<s, f[s]>>} /\ <<s, f[s]>> \in Values(f)
    BY DEF Values
  <1> QED
    BY <1>1, <1>2, FS_RemoveElement

LEMMA ValueBound ==
    ASSUME NEW f \in [1 .. FILE_RUNS + 1 -> Nat], NEW s \in 1 .. FILE_RUNS + 1,
           IsFiniteSet(Values(f))
    PROVE  f[s] <= Cardinality(Values(f)) /\ Cardinality(Values(f)) \in Nat
  <1> DEFINE g == [j \in 1 .. f[s] |-> <<s, j>>]
  <1>1. g \in Injection(1 .. f[s], Values(f))
    BY DEF Injection, IsInjective, Values
  <1>2. Cardinality(1 .. f[s]) = f[s]
    BY UpTo
  <1> HIDE DEF g
  <1>3. Cardinality(1 .. f[s]) <= Cardinality(Values(f))
    BY <1>1, FS_Injection
  <1> QED
    BY <1>2, <1>3, FS_CardinalityType

LEMMA FileBoundsInit == File!Init => FileBounds
  <1> SUFFICES ASSUME File!Init PROVE FileBounds
    OBVIOUS
  <1>1. f_size \in Nat /\ FILE_RUNS \in Nat
    BY MCFilesAssumption DEF File!Init
  <1>2. /\ f_writer = [pc |-> "done", run |-> 0, i |-> 0, sem |-> 0]
        /\ f_reader = [pc |-> "done", run |-> 0, i |-> 0, sem |-> 0]
        /\ f_name = 1 /\ f_semaphore1 = 0 /\ f_orderly = TRUE
        /\ f_semaphore = [s \in 1 .. FILE_RUNS + 1 |-> 0]
        /\ f_added = [j \in File!Used |-> 0] /\ f_read = [j \in File!Used |-> 0]
    BY DEF File!Init
  <1>3. FilePlaces
    BY <1>1, <1>2 DEF FilePlaces, InPlace, Processes, WriterPlaces, ReaderPlaces
  <1>4. FileTypes
    BY <1>1, <1>2 DEF FileTypes
  <1>5. FilePermissions
    <2>1. Values(f_semaphore) = {}
      BY <1>1, <1>2 DEF Values
    <2>2. IsFiniteSet(Values(f_semaphore)) /\ Cardinality(Values(f_semaphore)) = 0
      BY <2>1, FS_EmptySet
    <2> QED
      BY <1>2, <2>2 DEF FilePermissions, Held, FirstPosts
  <1>6. FileCounts
    BY <1>1, <1>2 DEF FileCounts, FileNames, FileChanged, BytesChanged
  <1> QED
    BY <1>2, <1>3, <1>4, <1>5, <1>6 DEF FileBounds

\* What all steps of the writer and the reader need.
LEMMA FileBoundsFacts ==
    ASSUME FileBounds
    PROVE  /\ f_size \in Nat /\ FILE_RUNS \in Nat
           /\ f_writer \in Processes(WriterPlaces) /\ f_reader \in Processes(ReaderPlaces)
           /\ f_writer.run \in Nat /\ f_writer.i \in Nat /\ f_writer.sem \in Nat
           /\ f_reader.run \in Nat /\ f_reader.i \in Nat /\ f_reader.sem \in Nat
           /\ f_writer.run <= FILE_RUNS /\ f_reader.run <= FILE_RUNS
           /\ f_name \in Nat \ {0} /\ f_semaphore1 \in Nat
           /\ f_semaphore \in [1 .. FILE_RUNS + 1 -> Nat]
           /\ f_added \in [File!Used -> Nat] /\ f_read \in [File!Used -> Nat]
           /\ IsFiniteSet(Values(f_semaphore)) /\ Cardinality(Values(f_semaphore)) \in Nat
           /\ Held \in 0 .. 2
  <1>1. /\ f_size \in Nat /\ FILE_RUNS \in Nat
        /\ f_writer \in Processes(WriterPlaces) /\ f_reader \in Processes(ReaderPlaces)
        /\ f_writer.run <= FILE_RUNS /\ f_reader.run <= FILE_RUNS
    BY MCFilesAssumption DEF FileBounds, FilePlaces, InPlace
  <1>2. /\ f_writer.run \in Nat /\ f_writer.i \in Nat /\ f_writer.sem \in Nat
        /\ f_reader.run \in Nat /\ f_reader.i \in Nat /\ f_reader.sem \in Nat
    BY <1>1 DEF Processes
  <1>3. IsFiniteSet(Values(f_semaphore)) /\ Cardinality(Values(f_semaphore)) \in Nat
    BY FS_CardinalityType DEF FileBounds, FilePermissions
  <1> QED
    BY <1>1, <1>2, <1>3, SMTT(30) DEF FileBounds, FileTypes, FileCounts, FileNames, Held

LEMMA StartBounds ==
    ASSUME FileBounds, File!StartWriter \/ File!StartReader PROVE FileBounds'
  <1>0. FilePlaces
    BY DEF FileBounds
  <1>1. FilePlaces' /\ f_size' = f_size
    BY FilePlacesStep DEF FileBounds, File!Next
  <1>2. File!Used' = File!Used
    BY <1>1 DEF File!Used
  <1>3. FileTypes /\ FilePermissions /\ FileCounts /\ f_orderly \in BOOLEAN
    BY DEF FileBounds
  <1>4. CASE File!StartWriter
    <2>1. /\ f_writer.pc = "done" /\ f_writer.run < FILE_RUNS
          /\ f_writer' = [pc |-> "open", run |-> f_writer.run + 1, i |-> 0, sem |-> 0]
          /\ UNCHANGED <<f_size, f_name, f_semaphore, f_semaphore1, f_added, f_read, f_reader>>
      BY <1>4 DEF File!StartWriter
    <2>2. f_orderly' \in BOOLEAN
      BY <1>4 DEF File!StartWriter
    <2>3. FileTypes'
      BY <1>2, <1>3, <2>1 DEF FileTypes
    <2>4. FilePermissions'
      <3>1. Held' = Held /\ FirstPosts' = FirstPosts
        BY <2>1, FileBoundsFacts DEF Held, FirstPosts
      <3> QED
        BY <1>3, <2>1, <3>1 DEF FilePermissions
    <2>5. FileChanged'
      <3>1. BytesChanged' = 0 /\ f_writer'.run = f_writer.run + 1
        BY <2>1 DEF BytesChanged
      <3>2. ASSUME NEW j \in File!Used PROVE f_added[j] = f_writer.run
        <4>1. j \in Nat /\ j < f_size - 1 /\ BytesChanged = f_writer.i
          BY <2>1, FileBoundsFacts, SMTT(30) DEF File!Used, BytesChanged
        <4>2. f_writer.run # 0 => j < f_writer.i
          BY <1>0, <2>1, <4>1, FileBoundsFacts, SMTT(30) DEF FilePlaces, InPlace
        <4> QED
          BY <1>3, <4>1, <4>2 DEF FileCounts, FileChanged
      <3>3. \A j \in File!Used : ~(j < 0)
        BY FileBoundsFacts DEF File!Used
      <3>4. f_writer'.run - 1 = f_writer.run /\ f_writer'.run # 0
        <4>1. \A n \in Nat : \A m : m = n + 1 => m - 1 = n /\ m # 0
          OBVIOUS
        <4>2. f_writer.run \in Nat
          BY FileBoundsFacts
        <4> QED
          BY <3>1, <4>1, <4>2, Zenon
      <3>5. f_added' = f_added
        BY <2>1
      <3> QED
        BY <1>2, <3>1, <3>2, <3>3, <3>4, <3>5 DEF FileChanged
    <2>6. FileNames'
      BY <1>3, <2>1, FileBoundsFacts DEF FileCounts, FileNames
    <2>7. FileCounts'
      BY <1>2, <1>3, <2>1, <2>5, <2>6, FileBoundsFacts DEF FileCounts
    <2> QED
      BY <1>1, <2>2, <2>3, <2>4, <2>7 DEF FileBounds
  <1>5. CASE File!StartReader
    <2>1. /\ f_reader.pc = "done" /\ f_reader.run < FILE_RUNS
          /\ f_reader' = [pc |-> "open", run |-> f_reader.run + 1, i |-> 0, sem |-> 0]
          /\ f_read' = [j \in File!Used |-> 0]
          /\ UNCHANGED <<f_size, f_name, f_semaphore, f_semaphore1, f_added, f_writer>>
      BY <1>5 DEF File!StartReader
    <2>2. f_orderly' \in BOOLEAN
      BY <1>5 DEF File!StartReader
    <2>3. FileTypes'
      BY <1>2, <1>3, <2>1 DEF FileTypes
    <2>4. FilePermissions'
      <3>1. Held' = Held /\ FirstPosts' = FirstPosts
        BY <2>1 DEF Held, FirstPosts
      <3> QED
        BY <1>3, <2>1, <3>1 DEF FilePermissions
    <2>5. FileCounts'
      BY <1>2, <1>3, <2>1, FileBoundsFacts DEF FileCounts, FileNames, FileChanged, BytesChanged
    <2> QED
      BY <1>1, <2>2, <2>3, <2>4, <2>5 DEF FileBounds
  <1> QED
    BY <1>4, <1>5

LEMMA WriterBounds == ASSUME FileBounds, File!WriterStep PROVE FileBounds'
  <1>1. FilePlaces' /\ f_size' = f_size /\ FilePlaces
    BY FilePlacesStep DEF FileBounds, File!Next
  <1>2. File!Used' = File!Used
    BY <1>1 DEF File!Used
  <1>3. FileTypes /\ FilePermissions /\ FileCounts /\ f_orderly \in BOOLEAN
    BY DEF FileBounds
  <1>4. /\ UNCHANGED <<f_name, f_read, f_reader, f_orderly>>
        /\ f_writer'.run = f_writer.run
    BY <1>1, FileBoundsFacts DEF File!WriterStep, File!OpenWriter, File!FirstPost, File!WriterWait,
       File!Add, File!WriterPost, File!EndWriter, File!Loop, Processes
  <1>5. ASSUME f_writer.pc \notin {"open", "done"} PROVE f_writer.sem \in 1 .. FILE_RUNS + 1
    BY <1>3, <1>5, FileBoundsFacts DEF FileCounts, FileNames, FileChanged, BytesChanged
  <1>6. f_writer.i >= 0 /\ f_writer.run \in Nat /\ f_size \in Nat
    BY FileBoundsFacts
  <1>7. CASE File!OpenWriter
    <2>1. /\ f_writer.pc = "open" /\ f_writer' = [f_writer EXCEPT !.pc = "first_post", !.sem = f_name]
          /\ UNCHANGED <<f_semaphore, f_semaphore1, f_added>>
      BY <1>7 DEF File!OpenWriter
    <2>2. f_writer'.pc = "first_post" /\ f_writer'.sem = f_name /\ f_writer'.i = f_writer.i
      BY <2>1, FileBoundsFacts DEF Processes
    <2>3. FileTypes'
      BY <1>2, <1>3, <1>4, <2>1 DEF FileTypes
    <2>4. FilePermissions'
      <3>1. Held' = Held /\ FirstPosts' = FirstPosts
        BY <1>4, <2>1, <2>2 DEF Held, FirstPosts
      <3> QED
        BY <1>1, <1>3, <2>1, <3>1 DEF FilePermissions
    <2>5. FileCounts'
      <3>1. f_name <= FILE_RUNS + 1
        BY <1>3, FileBoundsFacts DEF FileCounts, FileNames, FileChanged, BytesChanged
      <3> QED
        BY <1>2, <1>3, <1>4, <2>1, <2>2, <3>1, FileBoundsFacts DEF FileCounts, FileNames, FileChanged, BytesChanged
    <2> QED
      BY <1>1, <1>3, <1>4, <2>3, <2>4, <2>5 DEF FileBounds
  <1>8. CASE File!FirstPost
    <2>1. /\ f_writer.pc = "first_post"
          /\ f_semaphore' = [f_semaphore EXCEPT ![f_writer.sem] = @ + 1]
          /\ f_writer' = File!Loop(f_writer, "wait", 0)
          /\ UNCHANGED <<f_semaphore1, f_added>>
      BY <1>8 DEF File!FirstPost
    <2>2. f_writer'.pc \in {"wait", "end"} /\ f_writer'.sem = f_writer.sem /\ f_writer'.i = 0
          /\ f_writer.i = 0
      BY <1>1, <2>1, FileBoundsFacts DEF Processes, File!Loop, FilePlaces, InPlace
    <2>3. /\ f_semaphore' \in [1 .. FILE_RUNS + 1 -> Nat] /\ IsFiniteSet(Values(f_semaphore'))
          /\ Cardinality(Values(f_semaphore')) = Cardinality(Values(f_semaphore)) + 1
      BY <1>5, <2>1, FileBoundsFacts, RaisedValue
    <2>4. FileTypes'
      BY <1>2, <1>3, <1>4, <2>1, <2>3 DEF FileTypes
    <2>5. FilePermissions'
      <3>1. Held' = Held /\ FirstPosts' = FirstPosts + 1
        BY <1>4, <1>6, <2>1, <2>2 DEF Held, FirstPosts
      <3>2. Cardinality(Values(f_semaphore))' = Cardinality(Values(f_semaphore)) + 1
            /\ IsFiniteSet(Values(f_semaphore))'
        BY <2>3 DEF Values
      <3> QED
        BY <1>1, <1>3, <2>1, <3>1, <3>2, FileBoundsFacts, SMTT(30) DEF FilePermissions
    <2>6. FileCounts'
      BY <1>2, <1>3, <1>4, <1>5, <2>1, <2>2, FileBoundsFacts DEF FileCounts, FileNames, FileChanged, BytesChanged
    <2> QED
      BY <1>1, <1>3, <1>4, <2>4, <2>5, <2>6 DEF FileBounds
  <1>9. CASE File!WriterWait
    <2>1. /\ f_writer.pc = "wait" /\ f_semaphore[f_writer.sem] > 0
          /\ f_semaphore' = [f_semaphore EXCEPT ![f_writer.sem] = @ - 1]
          /\ f_writer' = [f_writer EXCEPT !.pc = "add"]
          /\ UNCHANGED <<f_semaphore1, f_added>>
      BY <1>9 DEF File!WriterWait
    <2>2. f_writer'.pc = "add" /\ f_writer'.sem = f_writer.sem /\ f_writer'.i = f_writer.i
      BY <2>1, FileBoundsFacts DEF Processes
    <2>3. /\ f_semaphore' \in [1 .. FILE_RUNS + 1 -> Nat] /\ IsFiniteSet(Values(f_semaphore'))
          /\ Cardinality(Values(f_semaphore')) = Cardinality(Values(f_semaphore)) - 1
      BY <1>5, <2>1, FileBoundsFacts, LoweredValue
    <2>4. FileTypes'
      BY <1>2, <1>3, <1>4, <2>1, <2>3 DEF FileTypes
    <2>5. FilePermissions'
      <3>1. Held' = Held + 1 /\ FirstPosts' = FirstPosts
        BY <1>4, <1>6, <2>1, <2>2 DEF Held, FirstPosts
      <3>2. Cardinality(Values(f_semaphore))' = Cardinality(Values(f_semaphore)) - 1
            /\ IsFiniteSet(Values(f_semaphore))'
        BY <2>3 DEF Values
      <3> QED
        BY <1>1, <1>3, <2>1, <3>1, <3>2, FileBoundsFacts, SMTT(30) DEF FilePermissions
    <2>6. FileCounts'
      BY <1>2, <1>3, <1>4, <1>5, <2>1, <2>2, FileBoundsFacts DEF FileCounts, FileNames, FileChanged, BytesChanged
    <2> QED
      BY <1>1, <1>3, <1>4, <2>4, <2>5, <2>6 DEF FileBounds
  <1>10. CASE File!Add
    <2>1. /\ f_writer.pc = "add" /\ f_added' = [f_added EXCEPT ![f_writer.i] = @ + 1]
          /\ f_writer' = [f_writer EXCEPT !.pc = "post"]
          /\ UNCHANGED <<f_semaphore, f_semaphore1>>
      BY <1>10 DEF File!Add
    <2>2. f_writer'.pc = "post" /\ f_writer'.sem = f_writer.sem /\ f_writer'.i = f_writer.i
      BY <2>1, FileBoundsFacts DEF Processes
    <2>3. f_writer.i \in File!Used /\ f_writer.run > 0
      BY <1>1, <2>1, FileBoundsFacts DEF FilePlaces, InPlace, File!Used
    <2>4. FileTypes'
      BY <1>2, <1>3, <1>4, <2>1, <2>3 DEF FileTypes
    <2>5. FilePermissions'
      <3>1. Held' = Held /\ FirstPosts' = FirstPosts
        BY <1>4, <2>1, <2>2 DEF Held, FirstPosts
      <3> QED
        BY <1>1, <1>3, <2>1, <3>1 DEF FilePermissions
    <2>6. FileCounts'
      <3>1. ASSUME NEW j \in File!Used
            PROVE  f_added'[j] = IF j < f_writer.i + 1 THEN f_writer.run ELSE f_writer.run - 1
        <4>1. j \in Nat /\ f_writer.i \in Nat
          BY FileBoundsFacts DEF File!Used
        <4>2. f_added[j] = IF j < f_writer.i THEN f_writer.run ELSE f_writer.run - 1
          BY <1>3, <2>1, <2>3, <4>1 DEF FileCounts, FileNames, FileChanged, BytesChanged
        <4>3. f_added'[j] = IF j = f_writer.i THEN f_added[j] + 1 ELSE f_added[j]
          BY <2>1, FileBoundsFacts
        <4> QED
          BY <4>1, <4>2, <4>3, <1>6
      <3>2. BytesChanged' = f_writer.i + 1
        BY <2>2 DEF BytesChanged
      <3>3. FileChanged'
        BY <1>2, <1>4, <2>3, <3>1, <3>2 DEF FileChanged
      <3>4. FileNames'
        BY <1>3, <1>4, <1>5, <2>1, <2>2, FileBoundsFacts DEF FileCounts, FileNames
      <3> QED
        BY <1>2, <1>3, <1>4, <3>3, <3>4, FileBoundsFacts DEF FileCounts
    <2> QED
      BY <1>1, <1>3, <1>4, <2>4, <2>5, <2>6 DEF FileBounds
  <1>11. CASE File!WriterPost
    <2>1. /\ f_writer.pc = "post" /\ f_semaphore1' = f_semaphore1 + 1
          /\ f_writer' = File!Loop(f_writer, "wait", f_writer.i + 1)
          /\ UNCHANGED <<f_semaphore, f_added>>
      BY <1>11 DEF File!WriterPost
    <2>2. f_writer'.pc \in {"wait", "end"} /\ f_writer'.sem = f_writer.sem
          /\ f_writer'.i = f_writer.i + 1
      BY <2>1, FileBoundsFacts DEF Processes, File!Loop
    <2>6. f_size > 1
      BY <1>1, <2>1, FileBoundsFacts DEF FilePlaces, InPlace
    <2>3. FileTypes'
      BY <1>2, <1>3, <1>4, <2>1 DEF FileTypes
    <2>4. FilePermissions'
      <3>1. Held' = Held - 1 /\ FirstPosts' = FirstPosts
        BY <1>4, <2>1, <2>2 DEF Held, FirstPosts
      <3>2. Values(f_semaphore)' = Values(f_semaphore)
        BY <2>1 DEF Values
      <3>3. f_semaphore1' + Held' = f_semaphore1 + Held
        BY <2>1, <3>1, FileBoundsFacts, SMTT(30)
      <3>4. ~(f_size' < 2)
        BY <1>1, <2>6, FileBoundsFacts
      <3>5. \A m \in Nat : m + f_semaphore1 + Held = m + (f_semaphore1 + Held)
        BY FileBoundsFacts
      <3>6. \A m \in Nat : m + f_semaphore1' + Held' = m + (f_semaphore1' + Held')
        BY <2>1, <3>1, FileBoundsFacts
      <3> QED
        BY <1>3, <3>1, <3>2, <3>3, <3>4, <3>5, <3>6, FileBoundsFacts DEF FilePermissions
    <2>5. FileCounts'
      <3>1. BytesChanged' = BytesChanged
        BY <2>1, <2>2, FileBoundsFacts, SMTT(30) DEF BytesChanged
      <3>2. FileChanged'
        BY <1>2, <1>3, <1>4, <2>1, <3>1 DEF FileCounts, FileChanged
      <3>3. FileNames'
        BY <1>3, <1>4, <1>5, <2>1, <2>2, FileBoundsFacts DEF FileCounts, FileNames
      <3> QED
        BY <1>2, <1>3, <1>4, <3>2, <3>3, FileBoundsFacts DEF FileCounts
    <2> QED
      BY <1>1, <1>3, <1>4, <2>3, <2>4, <2>5 DEF FileBounds
  <1>12. CASE File!EndWriter
    <2>1. /\ f_writer.pc = "end" /\ f_writer' = [f_writer EXCEPT !.pc = "done"]
          /\ UNCHANGED <<f_semaphore, f_semaphore1, f_added>>
      BY <1>12 DEF File!EndWriter
    <2>2. f_writer'.pc = "done" /\ f_writer'.sem = f_writer.sem /\ f_writer'.i = f_writer.i
      BY <2>1, FileBoundsFacts DEF Processes
    <2>3. FileTypes'
      BY <1>2, <1>3, <1>4, <2>1 DEF FileTypes
    <2>4. FilePermissions'
      <3>1. Held' = Held /\ FirstPosts' = FirstPosts
        BY <1>4, <2>1, <2>2 DEF Held, FirstPosts
      <3> QED
        BY <1>1, <1>3, <2>1, <3>1 DEF FilePermissions
    <2>5. FileCounts'
      BY <1>2, <1>3, <1>4, <1>5, <2>1, <2>2, FileBoundsFacts DEF FileCounts, FileNames, FileChanged, BytesChanged
    <2> QED
      BY <1>1, <1>3, <1>4, <2>3, <2>4, <2>5 DEF FileBounds
  <1> QED
    BY <1>7, <1>8, <1>9, <1>10, <1>11, <1>12 DEF File!WriterStep

LEMMA ReaderBounds == ASSUME FileBounds, File!ReaderStep PROVE FileBounds'
  <1>1. FilePlaces' /\ f_size' = f_size /\ FilePlaces
    BY FilePlacesStep DEF FileBounds, File!Next
  <1>2. File!Used' = File!Used
    BY <1>1 DEF File!Used
  <1>3. FileTypes /\ FilePermissions /\ FileCounts /\ f_orderly \in BOOLEAN
    BY DEF FileBounds
  <1>4. /\ UNCHANGED <<f_added, f_writer, f_orderly>> /\ FirstPosts' = FirstPosts
        /\ f_reader'.run = f_reader.run
    BY <1>1, FileBoundsFacts DEF File!ReaderStep, File!OpenReader, File!ReaderWait, File!PrintByte,
       File!ReaderPost, File!Unlink, File!Loop, Processes, FirstPosts
  <1>5. ASSUME f_reader.pc \notin {"open", "done"} PROVE f_reader.sem \in 1 .. FILE_RUNS + 1
    BY <1>3, <1>5, FileBoundsFacts DEF FileCounts, FileNames, FileChanged, BytesChanged
  <1>6. CASE File!OpenReader
    <2>1. /\ f_reader.pc = "open"
          /\ f_reader' = File!Loop([f_reader EXCEPT !.sem = f_name], "wait", 0)
          /\ UNCHANGED <<f_name, f_semaphore, f_semaphore1, f_read>>
      BY <1>6 DEF File!OpenReader
    <2>2. f_reader'.pc \in {"wait", "end"} /\ f_reader'.sem = f_name
      BY <2>1, FileBoundsFacts DEF Processes, File!Loop
    <2>3. FileTypes'
      BY <1>2, <1>3, <1>4, <2>1 DEF FileTypes
    <2>4. FilePermissions'
      <3>1. Held' = Held
        BY <1>4, <2>1, <2>2 DEF Held
      <3> QED
        BY <1>1, <1>3, <1>4, <2>1, <3>1 DEF FilePermissions
    <2>5. FileCounts'
      <3>1. f_name <= FILE_RUNS + 1
        BY <1>3, FileBoundsFacts DEF FileCounts, FileNames, FileChanged, BytesChanged
      <3> QED
        BY <1>2, <1>3, <1>4, <2>1, <2>2, <3>1, FileBoundsFacts, SMTT(30) DEF FileCounts, FileNames, FileChanged, BytesChanged
    <2> QED
      BY <1>1, <1>3, <1>4, <2>3, <2>4, <2>5 DEF FileBounds
  <1>7. CASE File!ReaderWait
    <2>1. /\ f_reader.pc = "wait" /\ f_semaphore1 > 0 /\ f_semaphore1' = f_semaphore1 - 1
          /\ f_reader' = [f_reader EXCEPT !.pc = "print"]
          /\ UNCHANGED <<f_name, f_semaphore, f_read>>
      BY <1>7 DEF File!ReaderWait
    <2>2. f_reader'.pc = "print" /\ f_reader'.sem = f_reader.sem
      BY <2>1, FileBoundsFacts DEF Processes
    <2>3. FileTypes'
      BY <1>2, <1>3, <1>4, <2>1 DEF FileTypes
    <2>4. FilePermissions'
      <3>1. Held' = Held + 1
        BY <1>4, <2>1, <2>2 DEF Held
      <3> QED
        BY <1>1, <1>3, <1>4, <2>1, <3>1, FileBoundsFacts, SMTT(30) DEF FilePermissions
    <2>5. FileCounts'
      BY <1>2, <1>3, <1>4, <1>5, <2>1, <2>2, FileBoundsFacts DEF FileCounts, FileNames, FileChanged, BytesChanged
    <2> QED
      BY <1>1, <1>3, <1>4, <2>3, <2>4, <2>5 DEF FileBounds
  <1>8. CASE File!PrintByte
    <2>1. /\ f_reader.pc = "print" /\ f_read' = [f_read EXCEPT ![f_reader.i] = f_added[f_reader.i]]
          /\ f_reader' = [f_reader EXCEPT !.pc = "post"]
          /\ UNCHANGED <<f_name, f_semaphore, f_semaphore1>>
      BY <1>8 DEF File!PrintByte
    <2>2. f_reader'.pc = "post" /\ f_reader'.sem = f_reader.sem
      BY <2>1, FileBoundsFacts DEF Processes
    <2>3. f_reader.i \in File!Used
      BY <1>1, <2>1, FileBoundsFacts DEF FilePlaces, InPlace, File!Used
    <2>4. f_added[f_reader.i] \in 0 .. FILE_RUNS
      <3>1. f_added[f_reader.i] \in Nat
        BY <2>3, FileBoundsFacts
      <3>2. f_added[f_reader.i] = f_writer.run \/ f_added[f_reader.i] = f_writer.run - 1
        BY <1>3, <2>3 DEF FileCounts, FileChanged
      <3> QED
        BY <3>1, <3>2, FileBoundsFacts, SMTT(30)
    <2>5. FileTypes'
      BY <1>2, <1>3, <1>4, <2>1, <2>4 DEF FileTypes
    <2>6. FilePermissions'
      <3>1. Held' = Held
        BY <1>4, <2>1, <2>2 DEF Held
      <3> QED
        BY <1>1, <1>3, <1>4, <2>1, <3>1 DEF FilePermissions
    <2>7. FileCounts'
      <3>1. \A j \in File!Used : f_read'[j] <= FILE_RUNS
        BY <1>3, <2>1, <2>4, FileBoundsFacts DEF FileCounts, FileNames, FileChanged, BytesChanged
      <3> QED
        BY <1>2, <1>3, <1>4, <1>5, <2>1, <2>2, <3>1, FileBoundsFacts DEF FileCounts, FileNames, FileChanged, BytesChanged
    <2> QED
      BY <1>1, <1>3, <1>4, <2>5, <2>6, <2>7 DEF FileBounds
  <1>9. CASE File!ReaderPost
    <2>1. /\ f_reader.pc = "post"
          /\ f_semaphore' = [f_semaphore EXCEPT ![f_reader.sem] = @ + 1]
          /\ f_reader' = File!Loop(f_reader, "wait", f_reader.i + 1)
          /\ UNCHANGED <<f_name, f_semaphore1, f_read>>
      BY <1>9 DEF File!ReaderPost
    <2>2. f_reader'.pc \in {"wait", "end"} /\ f_reader'.sem = f_reader.sem
      BY <2>1, FileBoundsFacts DEF Processes, File!Loop
    <2>3. /\ f_semaphore' \in [1 .. FILE_RUNS + 1 -> Nat] /\ IsFiniteSet(Values(f_semaphore'))
          /\ Cardinality(Values(f_semaphore')) = Cardinality(Values(f_semaphore)) + 1
      BY <1>5, <2>1, FileBoundsFacts, RaisedValue
    <2>4. FileTypes'
      BY <1>2, <1>3, <1>4, <2>1, <2>3 DEF FileTypes
    <2>5. FilePermissions'
      <3>1. Held' + 1 = Held
        BY <1>4, <2>1, <2>2 DEF Held
      <3>2. Cardinality(Values(f_semaphore))' = Cardinality(Values(f_semaphore)) + 1
            /\ IsFiniteSet(Values(f_semaphore))'
        BY <2>3 DEF Values
      <3>3. Held' \in Int
        BY <3>1 DEF Held
      <3> QED
        BY <1>1, <1>3, <1>4, <2>1, <3>1, <3>2, <3>3, FileBoundsFacts DEF FilePermissions
    <2>6. FileCounts'
      BY <1>2, <1>3, <1>4, <1>5, <2>1, <2>2, FileBoundsFacts DEF FileCounts, FileNames, FileChanged, BytesChanged
    <2> QED
      BY <1>1, <1>3, <1>4, <2>4, <2>5, <2>6 DEF FileBounds
  <1>10. CASE File!Unlink
    <2>1. /\ f_reader.pc = "end" /\ f_name' = f_name + 1
          /\ f_reader' = [f_reader EXCEPT !.pc = "done"]
          /\ UNCHANGED <<f_semaphore, f_semaphore1, f_read>>
      BY <1>10 DEF File!Unlink
    <2>2. f_reader'.pc = "done" /\ f_reader'.sem = f_reader.sem
      BY <2>1, FileBoundsFacts DEF Processes
    <2>3. FileTypes'
      BY <1>2, <1>3, <1>4, <2>1 DEF FileTypes
    <2>4. FilePermissions'
      <3>1. Held' = Held
        BY <1>4, <2>1, <2>2 DEF Held
      <3> QED
        BY <1>1, <1>3, <1>4, <2>1, <3>1 DEF FilePermissions
    <2>5. FileCounts'
      <3>1. f_name' \in Nat \ {0} /\ f_name' <= f_reader'.run + 1
        BY <1>3, <1>4, <2>1, FileBoundsFacts, SMTT(30) DEF FileCounts, FileNames, FileChanged, BytesChanged
      <3> QED
        BY <1>2, <1>3, <1>4, <1>5, <2>1, <2>2, <3>1, FileBoundsFacts DEF FileCounts, FileNames, FileChanged, BytesChanged
    <2> QED
      BY <1>1, <1>3, <1>4, <2>3, <2>4, <2>5 DEF FileBounds
  <1> QED
    BY <1>6, <1>7, <1>8, <1>9, <1>10 DEF File!ReaderStep

LEMMA FileBoundsStutter == ASSUME FileBounds, UNCHANGED mappedVars PROVE FileBounds'
  <1>1. UNCHANGED <<f_size, f_name, f_semaphore, f_semaphore1, f_added, f_read, f_writer,
                    f_reader, f_orderly>>
    BY DEF mappedVars
  <1>2. FilePlaces' /\ FileTypes'
    BY <1>1 DEF FileBounds, FilePlaces, InPlace, FileTypes, File!Used
  <1>3. FilePermissions' /\ FileCounts'
    BY <1>1 DEF FileBounds, FilePermissions, FileCounts, FileNames, FileChanged,
    BytesChanged, Held, FirstPosts, File!Used
  <1> QED
    BY <1>1, <1>2, <1>3 DEF FileBounds

LEMMA FileBoundsStep == ASSUME FileBounds, File!Next PROVE FileBounds'
  BY StartBounds, WriterBounds, ReaderBounds DEF File!Next

LEMMA FileTypeOK == FileBounds => File!TypeOK
  <1> SUFFICES ASSUME FileBounds PROVE File!TypeOK
    OBVIOUS
  <1>1. FilePlaces /\ FilePermissions /\ FileCounts /\ f_orderly \in BOOLEAN
    BY DEF FileBounds
  <1>2. f_name \in 1 .. FILE_RUNS + 1
    BY <1>1, FileBoundsFacts DEF FileCounts, FileNames, FileChanged, BytesChanged
  <1>3. /\ Cardinality(Values(f_semaphore)) <= FILE_RUNS /\ f_semaphore1 \in 0 .. FILE_RUNS
    <2>1. FirstPosts <= FILE_RUNS /\ FirstPosts \in Int
      BY FileBoundsFacts DEF FirstPosts
    <2> QED
      BY <1>1, <2>1, FileBoundsFacts, SMTT(30) DEF FilePermissions
  <1>4. f_semaphore \in [1 .. FILE_RUNS + 1 -> 0 .. FILE_RUNS]
    <2>1. \A s \in 1 .. FILE_RUNS + 1 : f_semaphore[s] \in 0 .. FILE_RUNS
      <3> TAKE s \in 1 .. FILE_RUNS + 1
      <3>1. f_semaphore[s] <= Cardinality(Values(f_semaphore)) /\ f_semaphore[s] \in Nat
        BY ValueBound, FileBoundsFacts
      <3> QED
        BY <1>3, <3>1, FileBoundsFacts
    <2> QED
      BY <2>1, FileBoundsFacts
  <1>5. f_added \in [File!Used -> 0 .. FILE_RUNS] /\ f_read \in [File!Used -> 0 .. FILE_RUNS]
    <2>1. \A j \in File!Used : f_added[j] \in 0 .. FILE_RUNS /\ f_read[j] \in 0 .. FILE_RUNS
      BY <1>1, FileBoundsFacts, SMTT(30) DEF FileCounts, FileNames, FileChanged, BytesChanged
    <2> QED
      BY <2>1, FileBoundsFacts
  <1>6. f_writer.i \in 0 .. f_size /\ f_reader.i \in 0 .. f_size
    BY <1>1, FileBoundsFacts DEF FilePlaces, InPlace, Processes, WriterPlaces, ReaderPlaces
  <1>7. \A p \in {f_writer, f_reader} :
            p.run \in 0 .. FILE_RUNS /\ p.i \in 0 .. f_size /\ p.sem \in 0 .. FILE_RUNS + 1
    BY <1>1, <1>6, FileBoundsFacts DEF FileCounts, FileNames, FileChanged, BytesChanged
  <1> QED
    BY <1>1, <1>2, <1>3, <1>4, <1>5, <1>7 DEF File!TypeOK
------------------------------------------------------------------------------
\* The permissions of run r: the bytes in its pipes, and those that were read and not yet
\* answered; the first of them is written when its proc1 has opened them.
Answering1(r) == IF l_proc1.run = r /\ l_proc1.pc \in {"store", "write"} THEN 1 ELSE 0
Answering2(r) ==
    IF l_proc2.fd[1] = r /\ l_proc2.fd[2] = r /\ l_proc2.pc \in {"print", "write"} THEN 1 ELSE 0
Given(r) == l_bytes[1][r] + l_bytes[2][r] + Answering1(r) + Answering2(r)
First(r) == IF l_proc1.run = r /\ l_proc1.pc \in Early \cup {"open"} THEN 0 ELSE 1

\* The names are those of one run, whose pipes start empty.
OneRun ==
    /\ l_fifo[1] = 0 \/ l_fifo[2] = 0 \/ l_fifo[1] = l_fifo[2]
    /\ l_proc1.pc = "mkfifo1" => l_fifo[2] = 0
    /\ l_proc1.pc = "mkfifo2" => l_fifo[1] = l_proc1.run
    /\ l_proc1.pc \in Early => \A k \in Letters!Pipes : l_bytes[k][l_proc1.run] = 0

\* Permissions are passed on.  Only a proc2 that has the pipes of two runs adds some to
\* those of the later run, one for each letter it prints, and no such proc2 was before it.
Busy == {"shm_open", "read", "print", "write"}
Writing == IF l_proc2.pc = "write" THEN 1 ELSE 0
FewOf(r) ==
    /\ Given(r) <= First(r) + l_size
    /\ l_proc2.pc \in Busy /\ l_proc2.fd[2] = r /\ l_proc2.fd[1] # r =>
           Given(r) + Writing <= First(r) + l_proc2.count
    /\ l_proc2.pc = "open2" /\ l_fifo[2] = r /\ l_proc2.fd[1] \notin {0, r} =>
           Given(r) <= First(r)
FewPermissions == \A r \in Letters!Runs : FewOf(r)

LetterCounts ==
    /\ l_size \in LETTER_SIZES /\ l_orderly \in BOOLEAN
    /\ l_proc1.count <= l_size /\ l_proc1.letter \in 1 .. LETTERS + 1
    /\ l_proc2.count <= l_size

LetterBounds == LettersInv /\ OneRun /\ FewPermissions /\ LetterCounts
------------------------------------------------------------------------------
LEMMA GivenNumbers ==
    ASSUME LetterTypes
    PROVE  \A r \in Letters!Runs :
               /\ l_bytes[1][r] \in Nat /\ l_bytes[2][r] \in Nat
               /\ Answering1(r) \in {0, 1} /\ Answering2(r) \in {0, 1} /\ First(r) \in {0, 1}
               /\ Given(r) \in Nat
  <1>1. ASSUME NEW r \in Letters!Runs
        PROVE  /\ l_bytes[1][r] \in Nat /\ l_bytes[2][r] \in Nat
               /\ Answering1(r) \in {0, 1} /\ Answering2(r) \in {0, 1} /\ First(r) \in {0, 1}
    BY LetterNumbers, ObjectFacts DEF Answering1, Answering2, First
  <1> QED
    BY <1>1 DEF Given

LEMMA GivenNumbersNext ==
    ASSUME LetterTypes'
    PROVE  \A r \in Letters!Runs :
               /\ l_bytes'[1][r] \in Nat /\ l_bytes'[2][r] \in Nat
               /\ Answering1(r)' \in {0, 1} /\ Answering2(r)' \in {0, 1} /\ First(r)' \in {0, 1}
               /\ Given(r)' \in Nat
  <1>1. ASSUME NEW r \in Letters!Runs
        PROVE  /\ l_bytes'[1][r] \in Nat /\ l_bytes'[2][r] \in Nat
               /\ Answering1(r)' \in {0, 1} /\ Answering2(r)' \in {0, 1} /\ First(r)' \in {0, 1}
    BY ObjectFacts DEF LetterTypes, Answering1, Answering2, First
  <1> QED
    BY <1>1 DEF Given

\* The pipes of a proc2 that works.
LEMMA BusyPipes ==
    ASSUME LettersInv, l_proc2.pc \in Busy \cup {"shm_unlink"}
    PROVE  l_proc2.fd[1] \in Letters!Runs /\ l_proc2.fd[2] \in Letters!Runs
  BY LetterNumbers, ObjectFacts DEF LettersInv, Places, Busy

\* What a step has to show that adds no permission.
LEMMA FewKept ==
    ASSUME LetterBounds, LettersInv', UNCHANGED l_size, NEW r \in Letters!Runs,
           Given(r)' + First(r) <= Given(r) + First(r)',
           l_proc2'.pc \in Busy /\ l_proc2'.fd[2] = r /\ l_proc2'.fd[1] # r =>
               \/ /\ l_proc2.pc \in Busy /\ l_proc2'.fd = l_proc2.fd
                  /\ l_proc2.count + Writing' <= l_proc2'.count + Writing
               \/ Given(r)' + Writing' <= First(r)' + l_proc2'.count,
           l_proc2'.pc = "open2" /\ l_fifo'[2] = r /\ l_proc2'.fd[1] \notin {0, r} =>
               \/ l_proc2.pc = "open2" /\ l_fifo[2] = r /\ l_proc2'.fd = l_proc2.fd
               \/ Given(r)' <= First(r)'
    PROVE  FewOf(r)'
  <1>1. FewOf(r) /\ LetterTypes /\ LetterTypes' /\ l_size \in Nat
    BY LetterNumbers DEF LetterBounds, LettersInv, FewPermissions
  <1>2. /\ Given(r) \in Nat /\ Given(r)' \in Nat /\ First(r) \in {0, 1} /\ First(r)' \in {0, 1}
    BY <1>1, GivenNumbers, GivenNumbersNext
  <1>3. Given(r)' <= First(r)' + l_size'
    <2>1. Given(r) <= First(r) + l_size
      BY <1>1 DEF FewOf
    <2> QED
      BY <1>1, <1>2, <2>1
  <1>4. ASSUME l_proc2'.pc \in Busy, l_proc2'.fd[2] = r, l_proc2'.fd[1] # r
        PROVE  Given(r)' + Writing' <= First(r)' + l_proc2'.count
    <2>1. ASSUME l_proc2.pc \in Busy, l_proc2'.fd = l_proc2.fd,
                 l_proc2.count + Writing' <= l_proc2'.count + Writing
          PROVE  Given(r)' + Writing' <= First(r)' + l_proc2'.count
      <3>1. Given(r) + Writing <= First(r) + l_proc2.count
        BY <1>1, <1>4, <2>1 DEF FewOf
      <3>2. l_proc2.count \in Nat /\ l_proc2'.count \in Nat
        BY <1>1 DEF LetterTypes, Proc2s
      <3>3. Writing \in {0, 1} /\ Writing' \in {0, 1}
        BY DEF Writing
      <3> QED
        BY <1>2, <2>1, <3>1, <3>2, <3>3
    <2> QED
      BY <1>4, <2>1
  <1>5. ASSUME l_proc2'.pc = "open2", l_fifo'[2] = r, l_proc2'.fd[1] \notin {0, r}
        PROVE  Given(r)' <= First(r)'
    <2>1. CASE l_proc2.pc = "open2" /\ l_fifo[2] = r /\ l_proc2'.fd = l_proc2.fd
      <3>1. Given(r) <= First(r)
        BY <1>1, <1>5, <2>1 DEF FewOf
      <3> QED
        BY <1>2, <3>1
    <2> QED
      BY <1>5, <2>1
  <1> QED
    BY <1>3, <1>4, <1>5 DEF FewOf

LEMMA FewKept1 ==
    ASSUME LetterBounds, LettersInv', UNCHANGED <<l_size, l_proc2>>,
           \A r \in Letters!Runs : Given(r)' + First(r) <= Given(r) + First(r)',
           \A r \in Letters!Runs :
               l_fifo'[2] = r => l_fifo[2] = r \/ Given(r)' <= First(r)'
    PROVE  FewPermissions'
  <1>1. Writing' = Writing /\ Writing \in {0, 1} /\ l_proc2.count \in Nat
    BY LetterNumbers DEF Writing, LetterBounds, LettersInv
  <1>2. l_proc2.count + Writing' <= l_proc2'.count + Writing
    BY <1>1
  <1>3. ASSUME NEW r \in Letters!Runs PROVE FewOf(r)'
    BY <1>2, FewKept
  <1> QED
    BY <1>3 DEF FewPermissions

\* What a step has to show that names no pipe.
LEMMA OneRunKept ==
    ASSUME OneRun, UNCHANGED l_fifo,
           l_proc1'.pc \in Early =>
               /\ l_proc1'.pc = l_proc1.pc /\ l_proc1'.run = l_proc1.run
               /\ \A k \in Letters!Pipes : l_bytes[k][l_proc1.run] = 0 => l_bytes'[k][l_proc1.run] = 0
    PROVE  OneRun'
  BY DEF OneRun, Early

LEMMA LetterBoundsInit == Letters!Init => LetterBounds
  <1> SUFFICES ASSUME Letters!Init PROVE LetterBounds
    OBVIOUS
  <1>1. LettersInv
    BY LetterInit
  <1>2. /\ l_size \in LETTER_SIZES /\ l_fifo = [k \in Letters!Pipes |-> 0]
        /\ l_bytes = [k \in Letters!Pipes |-> [r \in Letters!Runs |-> 0]]
        /\ l_proc1 = [pc |-> "idle", run |-> 0, count |-> 0, letter |-> 1, met |-> FALSE]
        /\ l_proc2 = [pc |-> "idle", run |-> 0, count |-> 0, fd |-> [k \in Letters!Pipes |-> 0],
                      obj |-> Letters!None]
        /\ l_orderly = FALSE
    BY DEF Letters!Init
  <1>3. l_size \in Nat /\ LETTERS \in Nat
    BY <1>2, MCFilesAssumption
  <1>4. OneRun
    BY <1>2, ObjectFacts DEF OneRun, Early
  <1>5. FewPermissions
    <2>1. \A r \in Letters!Runs : Given(r) = 0 /\ First(r) = 1
      BY <1>2, ObjectFacts DEF Given, Answering1, Answering2, First, Early
    <2>2. l_proc2.pc = "idle"
      BY <1>2
    <2> QED
      BY <1>3, <2>1, <2>2 DEF FewPermissions, FewOf, Busy
  <1>6. LetterCounts
    <2>1. l_proc1.count = 0 /\ l_proc1.letter = 1 /\ l_proc2.count = 0
      BY <1>2
    <2>2. l_size \in LETTER_SIZES /\ l_orderly \in BOOLEAN
      BY <1>2
    <2> QED
      BY <1>3, <2>1, <2>2 DEF LetterCounts
  <1> QED
    BY <1>1, <1>4, <1>5, <1>6 DEF LetterBounds

LEMMA NameBounds ==
    ASSUME LetterBounds, LettersInv', NEW k, NEW v, NEW l,
           <<l_proc1.pc, l, k, v>> \in
               {<<"unlink1", "unlink2", 1, 0>>, <<"unlink2", "mkfifo1", 2, 0>>,
                <<"mkfifo1", "mkfifo2", 1, l_proc1.run>>, <<"mkfifo2", "open", 2, l_proc1.run>>,
                <<"last_unlink1", "last_unlink2", 1, 0>>, <<"last_unlink2", "idle", 2, 0>>},
           l_fifo' = [l_fifo EXCEPT ![k] = v], Letters!Go1(l),
           UNCHANGED <<l_size, l_bytes, l_shm, l_memory, l_mapped, l_proc2, l_out, l_orderly>>
    PROVE  OneRun' /\ FewPermissions' /\ LetterCounts'
  <1>1. LettersInv /\ OneRun /\ LetterCounts /\ LetterTypes /\ LetterTypes'
    BY DEF LetterBounds, LettersInv
  <1>2. l_proc1.run \in Letters!Runs /\ l_proc1.run > 0 /\ l_proc1.run \in Nat
    BY <1>1, Running, LetterNumbers
  <1>3. l \in Places1 /\ k \in Letters!Pipes
    BY ObjectFacts DEF Places1
  <1>4. /\ l_proc1'.pc = l /\ l_proc1'.run = l_proc1.run
        /\ l_proc1'.count = l_proc1.count /\ l_proc1'.letter = l_proc1.letter
    BY <1>1, <1>3 DEF Letters!Go1, Proc1s, LetterTypes
  <1>5. l_fifo'[1] = (IF k = 1 THEN v ELSE l_fifo[1]) /\ l_fifo'[2] = (IF k = 2 THEN v ELSE l_fifo[2])
    BY <1>1, ObjectFacts DEF LetterTypes
  <1>6. OneRun'
    BY <1>1, <1>4, <1>5 DEF OneRun, Early
  <1>7. LetterCounts'
    BY <1>1, <1>4 DEF LetterCounts
  <1>8. ASSUME NEW r \in Letters!Runs
        PROVE  /\ l_bytes'[1][r] = l_bytes[1][r] /\ l_bytes'[2][r] = l_bytes[2][r]
               /\ Answering1(r) = 0 /\ Answering1(r)' = 0 /\ Answering2(r)' = Answering2(r)
               /\ First(r) <= First(r)'
    BY <1>4 DEF Answering1, Answering2, First, Early
  <1>9. \A r \in Letters!Runs : Given(r)' = Given(r) /\ Given(r)' + First(r) <= Given(r) + First(r)'
    <2> TAKE r \in Letters!Runs
    <2>1. Given(r)' = Given(r)
      BY <1>8 DEF Given
    <2> QED
      BY <1>1, <1>8, <2>1, GivenNumbers, GivenNumbersNext
  <1>10. ASSUME NEW r \in Letters!Runs, l_fifo'[2] = r, l_fifo[2] # r
         PROVE  Given(r)' <= First(r)'
    <2>1. r # 0
      BY ObjectFacts
    <2>2. l_proc1.pc = "mkfifo2" /\ r = l_proc1.run
      BY <1>5, <1>10, <2>1
    <2>3. l_bytes[1][r] = 0 /\ l_bytes[2][r] = 0 /\ l_proc2.fd[2] # r
      BY <1>1, <2>2, ObjectFacts DEF OneRun, LettersInv, Places, Early
    <2>4. Answering1(r) = 0 /\ Answering2(r) = 0
      BY <1>8, <2>3 DEF Answering2
    <2>5. Given(r) = 0
      BY <2>3, <2>4 DEF Given
    <2> QED
      BY <1>1, <1>9, <2>5, GivenNumbersNext
  <1>11. FewPermissions'
    BY <1>9, <1>10, FewKept1
  <1> QED
    BY <1>6, <1>7, <1>11

\* What a step of a proc1 that is past its start has to show.
LEMMA Proc1Bounds ==
    ASSUME LetterBounds, LettersInv', UNCHANGED <<l_size, l_fifo, l_proc2, l_orderly>>,
           l_proc1'.pc \notin Early,
           l_proc1'.count <= l_size, l_proc1'.letter \in 1 .. LETTERS + 1,
           \A r \in Letters!Runs : Given(r)' + First(r) <= Given(r) + First(r)'
    PROVE  OneRun' /\ FewPermissions' /\ LetterCounts'
  <1>1. OneRun' /\ FewPermissions'
    BY FewKept1, OneRunKept DEF LetterBounds
  <1>2. LetterCounts'
    BY DEF LetterBounds, LetterCounts
  <1> QED
    BY <1>1, <1>2

LEMMA OpenPipesBounds ==
    ASSUME LetterBounds, LettersInv', Letters!OpenPipes
    PROVE  OneRun' /\ FewPermissions' /\ LetterCounts'
  <1>1. LettersInv /\ LetterCounts /\ LetterTypes /\ LetterTypes'
    BY DEF LetterBounds, LettersInv
  <1>2. /\ l_proc1.pc = "open" /\ l_proc1' = [l_proc1 EXCEPT !.pc = "shm_open"]
        /\ l_bytes' = [l_bytes EXCEPT ![2][l_proc1.run] = @ + 1]
        /\ UNCHANGED <<l_size, l_fifo, l_proc2, l_orderly>>
    BY DEF Letters!OpenPipes, Letters!At1, Letters!Go1
  <1>3. l_proc1.run \in Letters!Runs
    BY <1>1, <1>2, Running
  <1>4. /\ l_proc1'.pc = "shm_open" /\ l_proc1'.run = l_proc1.run
        /\ l_proc1'.count = l_proc1.count /\ l_proc1'.letter = l_proc1.letter
    BY <1>1, <1>2 DEF LetterTypes, Proc1s
  <1>5. ASSUME NEW r \in Letters!Runs
        PROVE  Given(r)' + First(r) <= Given(r) + First(r)'
    <2>1. /\ l_bytes'[1][r] = l_bytes[1][r]
          /\ l_bytes'[2][r] = IF r = l_proc1.run THEN l_bytes[2][r] + 1 ELSE l_bytes[2][r]
      BY <1>1, <1>2, <1>3, ObjectFacts, SMTT(30) DEF LetterTypes
    <2>2. /\ Answering1(r) = 0 /\ Answering1(r)' = 0 /\ Answering2(r)' = Answering2(r)
          /\ First(r) = (IF r = l_proc1.run THEN 0 ELSE 1) /\ First(r)' = 1
      BY <1>2, <1>4 DEF Answering1, Answering2, First, Early
    <2> QED
      BY <1>1, <2>1, <2>2, GivenNumbers DEF Given
  <1> QED
    BY <1>1, <1>2, <1>4, <1>5, Proc1Bounds DEF LetterCounts, Early

\* Two steps that have to do with the object only.
LEMMA ObjectBounds ==
    ASSUME LetterBounds, LettersInv', Letters!ShmOpen1 \/ Letters!Ftruncate
    PROVE  OneRun' /\ FewPermissions' /\ LetterCounts'
  <1>1. LettersInv /\ LetterCounts /\ LetterTypes /\ LetterTypes'
    BY DEF LetterBounds, LettersInv
  <1>2. /\ l_proc1.pc \in {"shm_open", "ftruncate"}
        /\ \/ l_proc1' = [l_proc1 EXCEPT !.pc = "ftruncate"]
           \/ l_proc1' = [l_proc1 EXCEPT !.pc = "read"]
        /\ UNCHANGED <<l_size, l_fifo, l_bytes, l_proc2, l_orderly>>
    BY DEF Letters!ShmOpen1, Letters!Ftruncate, Letters!At1, Letters!Go1
  <1>3. /\ l_proc1'.pc \in {"ftruncate", "read"} /\ l_proc1'.run = l_proc1.run
        /\ l_proc1'.count = l_proc1.count /\ l_proc1'.letter = l_proc1.letter
    BY <1>1, <1>2 DEF LetterTypes, Proc1s
  <1>4. ASSUME NEW r \in Letters!Runs
        PROVE  Given(r)' + First(r) <= Given(r) + First(r)'
    <2>1. /\ Answering1(r) = 0 /\ Answering1(r)' = 0 /\ Answering2(r)' = Answering2(r)
          /\ First(r) = 1 /\ First(r)' = 1
      BY <1>2, <1>3 DEF Answering1, Answering2, First, Early
    <2> QED
      BY <1>1, <1>2, <2>1, GivenNumbers DEF Given
  <1> QED
    BY <1>1, <1>2, <1>3, <1>4, Proc1Bounds DEF LetterCounts, Early

LEMMA Read1Bounds ==
    ASSUME LetterBounds, LettersInv', Letters!Read1
    PROVE  OneRun' /\ FewPermissions' /\ LetterCounts'
  <1>1. LettersInv /\ LetterCounts /\ LetterTypes /\ LetterTypes'
    BY DEF LetterBounds, LettersInv
  <1>2. /\ l_proc1.pc = "read" /\ l_proc1' = [l_proc1 EXCEPT !.pc = "store"]
        /\ l_bytes' = [l_bytes EXCEPT ![2][l_proc1.run] = @ - 1]
        /\ UNCHANGED <<l_size, l_fifo, l_proc2, l_orderly>>
    BY DEF Letters!Read1, Letters!At1, Letters!Go1
  <1>3. l_proc1.run \in Letters!Runs
    BY <1>1, <1>2, Running
  <1>4. /\ l_proc1'.pc = "store" /\ l_proc1'.run = l_proc1.run
        /\ l_proc1'.count = l_proc1.count /\ l_proc1'.letter = l_proc1.letter
    BY <1>1, <1>2 DEF LetterTypes, Proc1s
  <1>5. ASSUME NEW r \in Letters!Runs
        PROVE  Given(r)' + First(r) <= Given(r) + First(r)'
    <2>1. /\ l_bytes'[1][r] = l_bytes[1][r]
          /\ l_bytes'[2][r] = IF r = l_proc1.run THEN l_bytes[2][r] - 1 ELSE l_bytes[2][r]
      BY <1>1, <1>2, <1>3, ObjectFacts, SMTT(30) DEF LetterTypes
    <2>2. /\ Answering1(r) = 0 /\ Answering1(r)' = (IF r = l_proc1.run THEN 1 ELSE 0)
          /\ Answering2(r)' = Answering2(r) /\ First(r) = 1 /\ First(r)' = 1
      BY <1>2, <1>4 DEF Answering1, Answering2, First, Early
    <2> QED
      BY <1>1, <2>1, <2>2, GivenNumbers DEF Given
  <1> QED
    BY <1>1, <1>2, <1>4, <1>5, Proc1Bounds DEF LetterCounts, Early

LEMMA StoreBounds ==
    ASSUME LetterBounds, LettersInv', Letters!Store
    PROVE  OneRun' /\ FewPermissions' /\ LetterCounts'
  <1> DEFINE letter == IF l_proc1.letter > LETTERS THEN 1 ELSE l_proc1.letter
  <1>1. LettersInv /\ LetterCounts /\ LetterTypes /\ LetterTypes'
    BY DEF LetterBounds, LettersInv
  <1>2. /\ l_proc1.pc = "store"
        /\ l_proc1' = [l_proc1 EXCEPT !.pc = "write", !.letter = letter + 1, !.count = @ + 1]
        /\ UNCHANGED <<l_size, l_fifo, l_bytes, l_proc2, l_orderly>>
    BY DEF Letters!Store, Letters!At1
  <1>3. /\ l_proc1'.pc = "write" /\ l_proc1'.run = l_proc1.run
        /\ l_proc1'.count = l_proc1.count + 1 /\ l_proc1'.letter = letter + 1
    BY <1>1, <1>2 DEF LetterTypes, Proc1s
  <1>4. ASSUME NEW r \in Letters!Runs
        PROVE  Given(r)' + First(r) <= Given(r) + First(r)'
    <2>1. /\ Answering1(r)' = Answering1(r) /\ Answering2(r)' = Answering2(r)
          /\ First(r) = 1 /\ First(r)' = 1
      BY <1>2, <1>3 DEF Answering1, Answering2, First, Early
    <2> QED
      BY <1>1, <1>2, <2>1, GivenNumbers DEF Given
  <1>5. l_proc1'.count <= l_size
    <2>1. l_proc1.count < l_size /\ l_proc1.count \in Nat /\ l_size \in Nat
      BY <1>1, <1>2, LetterNumbers DEF LettersInv, Places
    <2> QED
      BY <1>3, <2>1
  <1>6. letter \in 1 .. LETTERS
    BY <1>1, MCFilesAssumption DEF LetterCounts
  <1>7. l_proc1'.letter \in 1 .. LETTERS + 1
    BY <1>3, <1>6, MCFilesAssumption
  <1> QED
    BY <1>2, <1>3, <1>4, <1>5, <1>7, Proc1Bounds DEF Early

LEMMA Write1Bounds ==
    ASSUME LetterBounds, LettersInv', Letters!Write1
    PROVE  OneRun' /\ FewPermissions' /\ LetterCounts'
  <1>1. LettersInv /\ LetterCounts /\ LetterTypes /\ LetterTypes'
    BY DEF LetterBounds, LettersInv
  <1>2. /\ l_proc1.pc = "write"
        /\ l_proc1' = [l_proc1 EXCEPT !.pc = IF l_proc1.count < l_size THEN "read" ELSE "shm_unlink"]
        /\ l_bytes' = [l_bytes EXCEPT ![1][l_proc1.run] = @ + 1]
        /\ UNCHANGED <<l_size, l_fifo, l_proc2, l_orderly>>
    BY DEF Letters!Write1, Letters!At1, Letters!Go1
  <1>3. l_proc1.run \in Letters!Runs
    BY <1>1, <1>2, Running
  <1>4. /\ l_proc1'.pc \in {"read", "shm_unlink"} /\ l_proc1'.run = l_proc1.run
        /\ l_proc1'.count = l_proc1.count /\ l_proc1'.letter = l_proc1.letter
    BY <1>1, <1>2 DEF LetterTypes, Proc1s
  <1>5. ASSUME NEW r \in Letters!Runs
        PROVE  Given(r)' + First(r) <= Given(r) + First(r)'
    <2>1. /\ l_bytes'[2][r] = l_bytes[2][r]
          /\ l_bytes'[1][r] = IF r = l_proc1.run THEN l_bytes[1][r] + 1 ELSE l_bytes[1][r]
      BY <1>1, <1>2, <1>3, ObjectFacts, SMTT(30) DEF LetterTypes
    <2>2. /\ Answering1(r)' = 0 /\ Answering1(r) = (IF r = l_proc1.run THEN 1 ELSE 0)
          /\ Answering2(r)' = Answering2(r) /\ First(r) = 1 /\ First(r)' = 1
      BY <1>2, <1>4 DEF Answering1, Answering2, First, Early
    <2> QED
      BY <1>1, <2>1, <2>2, GivenNumbers DEF Given
  <1> QED
    BY <1>1, <1>2, <1>4, <1>5, Proc1Bounds DEF LetterCounts, Early

\* The bytes of a pipe that nobody has open any more are lost.
LEMMA ClosedBounds ==
    ASSUME LetterTypes, LetterTypes', l_bytes' \in {Letters!Closed1, Letters!Closed2, l_bytes},
           \A r \in Letters!Runs :
               Answering1(r)' <= Answering1(r) /\ Answering2(r)' <= Answering2(r)
               /\ First(r) <= First(r)'
    PROVE  /\ \A k \in Letters!Pipes, r \in Letters!Runs : l_bytes[k][r] = 0 => l_bytes'[k][r] = 0
           /\ \A r \in Letters!Runs : Given(r)' + First(r) <= Given(r) + First(r)'
  <1>1. \A k \in Letters!Pipes, r \in Letters!Runs :
            l_bytes'[k][r] <= l_bytes[k][r] /\ l_bytes[k][r] \in Nat /\ l_bytes'[k][r] \in Nat
    <2>1. CASE l_bytes' = Letters!Closed1
      BY <2>1, Closing, LetterNumbers
    <2>2. CASE l_bytes' = Letters!Closed2
      BY <2>2, Closing, LetterNumbers
    <2>3. CASE l_bytes' = l_bytes
      BY <2>3, LetterNumbers
    <2> QED
      BY <2>1, <2>2, <2>3
  <1>2. ASSUME NEW r \in Letters!Runs PROVE Given(r)' + First(r) <= Given(r) + First(r)'
    <2>1. /\ l_bytes'[1][r] <= l_bytes[1][r] /\ l_bytes'[2][r] <= l_bytes[2][r]
          /\ Answering1(r)' <= Answering1(r) /\ Answering2(r)' <= Answering2(r) /\ First(r) <= First(r)'
      BY <1>1, ObjectFacts
    <2> QED
      BY <2>1, GivenNumbers, GivenNumbersNext DEF Given
  <1>3. ASSUME NEW k \in Letters!Pipes, NEW r \in Letters!Runs, l_bytes[k][r] = 0
        PROVE  l_bytes'[k][r] = 0
    BY <1>1, <1>3
  <1> QED
    BY <1>2, <1>3

LEMMA Cleanup1Bounds ==
    ASSUME LetterBounds, LettersInv', Letters!Cleanup1
    PROVE  OneRun' /\ FewPermissions' /\ LetterCounts'
  <1>1. LettersInv /\ LetterCounts /\ LetterTypes /\ LetterTypes'
    BY DEF LetterBounds, LettersInv
  <1>2. /\ l_proc1.pc = "shm_unlink" /\ l_proc1' = [l_proc1 EXCEPT !.pc = "last_unlink1"]
        /\ l_bytes' = Letters!Closed1
        /\ UNCHANGED <<l_size, l_fifo, l_proc2, l_orderly>>
    BY DEF Letters!Cleanup1, Letters!At1, Letters!Go1
  <1>3. /\ l_proc1'.pc = "last_unlink1" /\ l_proc1'.run = l_proc1.run
        /\ l_proc1'.count = l_proc1.count /\ l_proc1'.letter = l_proc1.letter
    BY <1>1, <1>2 DEF LetterTypes, Proc1s
  <1>4. \A r \in Letters!Runs :
            Answering1(r)' <= Answering1(r) /\ Answering2(r)' <= Answering2(r) /\ First(r) <= First(r)'
    BY <1>2, <1>3 DEF Answering1, Answering2, First, Early
  <1>5. \A r \in Letters!Runs : Given(r)' + First(r) <= Given(r) + First(r)'
    BY <1>1, <1>2, <1>4, ClosedBounds
  <1> QED
    BY <1>1, <1>2, <1>3, <1>5, Proc1Bounds DEF LetterCounts, Early

LEMMA Step1Bounds ==
    ASSUME LetterBounds, LettersInv', Letters!Step1
    PROVE  OneRun' /\ FewPermissions' /\ LetterCounts'
  <1>1. CASE Letters!UnlinkOld
    BY <1>1, NameBounds DEF Letters!UnlinkOld, Letters!Unlink, Letters!At1
  <1>2. CASE Letters!MkFifos
    BY <1>2, NameBounds DEF Letters!MkFifos, Letters!MkFifo, Letters!At1
  <1>3. CASE Letters!UnlinkOwn
    BY <1>3, NameBounds DEF Letters!UnlinkOwn, Letters!Unlink, Letters!At1
  <1> QED
    BY <1>1, <1>2, <1>3, OpenPipesBounds, ObjectBounds, Read1Bounds, StoreBounds, Write1Bounds,
       Cleanup1Bounds
    DEF Letters!Step1

------------------------------------------------------------------------------
LEMMA Start2Bounds ==
    ASSUME LetterBounds, LettersInv', Letters!Start2
    PROVE  OneRun' /\ FewPermissions' /\ LetterCounts'
  <1>1. LettersInv /\ OneRun /\ LetterCounts /\ LetterTypes /\ LetterTypes' /\ l_size \in Nat
    BY LetterNumbers DEF LetterBounds, LettersInv
  <1>2. /\ l_proc2'.pc = "open1" /\ l_proc2'.count = 0 /\ l_orderly' \in BOOLEAN
        /\ UNCHANGED <<l_size, l_fifo, l_bytes, l_proc1>>
    BY <1>1 DEF Letters!Start2, LetterCounts
  <1>3. OneRun' /\ LetterCounts'
    BY <1>1, <1>2, OneRunKept DEF LetterCounts
  <1>4. ASSUME NEW r \in Letters!Runs PROVE FewOf(r)'
    <2>1. /\ Answering1(r)' = Answering1(r) /\ Answering2(r)' = 0 /\ First(r)' = First(r)
          /\ l_bytes'[1][r] = l_bytes[1][r] /\ l_bytes'[2][r] = l_bytes[2][r]
      BY <1>2 DEF Answering1, Answering2, First
    <2>2. Given(r)' + First(r) <= Given(r) + First(r)'
      BY <1>1, <2>1, GivenNumbers DEF Given
    <2> QED
      BY <1>2, <2>2, FewKept DEF Busy
  <1> QED
    BY <1>3, <1>4 DEF FewPermissions

LEMMA Open1Bounds ==
    ASSUME LetterBounds, LettersInv', Letters!Open1
    PROVE  OneRun' /\ FewPermissions' /\ LetterCounts'
  <1>1. LettersInv /\ OneRun /\ LetterCounts /\ LetterTypes /\ LetterTypes'
    BY DEF LetterBounds, LettersInv
  <1>2. /\ l_proc2.pc = "open1" /\ l_proc2' = [l_proc2 EXCEPT !.pc = "open2", !.fd[1] = l_fifo[1]]
        /\ UNCHANGED <<l_size, l_fifo, l_bytes, l_proc1, l_orderly>>
    BY DEF Letters!Open1, Letters!At2
  <1>3. /\ l_proc2'.pc = "open2" /\ l_proc2'.fd[1] = l_fifo[1] /\ l_proc2'.count = l_proc2.count
    BY <1>1, <1>2, ObjectFacts DEF LetterTypes, Proc2s
  <1>4. OneRun' /\ LetterCounts'
    BY <1>1, <1>2, <1>3, OneRunKept DEF LetterCounts
  <1>5. ASSUME NEW r \in Letters!Runs PROVE FewOf(r)'
    <2>1. /\ Answering1(r)' = Answering1(r) /\ Answering2(r)' = 0 /\ First(r)' = First(r)
          /\ l_bytes'[1][r] = l_bytes[1][r] /\ l_bytes'[2][r] = l_bytes[2][r]
      BY <1>2, <1>3 DEF Answering1, Answering2, First
    <2>2. Given(r)' + First(r) <= Given(r) + First(r)'
      BY <1>1, <2>1, GivenNumbers DEF Given
    <2>3. l_fifo[2] = r => l_fifo[1] \in {0, r}
      BY <1>1, ObjectFacts DEF OneRun
    <2> QED
      BY <1>2, <1>3, <2>2, <2>3, FewKept DEF Busy
  <1> QED
    BY <1>4, <1>5 DEF FewPermissions

\* A proc2 that gets the pipes of two runs is the first that has those of the later one.
LEMMA Open2Bounds ==
    ASSUME LetterBounds, LettersInv', Letters!Open2
    PROVE  OneRun' /\ FewPermissions' /\ LetterCounts'
  <1> DEFINE fd == [l_proc2.fd EXCEPT ![2] = l_fifo[2]]
  <1>1. LettersInv /\ OneRun /\ LetterCounts /\ FewPermissions /\ LetterTypes /\ LetterTypes'
    BY DEF LetterBounds, LettersInv
  <1>2. /\ l_proc2.pc = "open2" /\ UNCHANGED <<l_size, l_fifo, l_orderly>>
        /\ \/ /\ l_proc2' = [l_proc2 EXCEPT !.pc = "idle", !.fd = fd]
              /\ l_bytes' = Letters!Closed2 /\ UNCHANGED l_proc1
           \/ /\ l_proc2' = [l_proc2 EXCEPT !.pc = "shm_open", !.fd = fd]
              /\ l_proc1' = [l_proc1 EXCEPT !.met = TRUE] /\ UNCHANGED l_bytes
              /\ \A k \in Letters!Pipes : fd[k] # 0
    BY DEF Letters!Open2, Letters!At2
  <1>3. /\ l_proc2 \in Proc2s /\ l_proc1 \in Proc1s
        /\ fd[1] = l_proc2.fd[1] /\ fd[2] = l_fifo[2]
    BY <1>1, ObjectFacts DEF LetterTypes, Proc2s
  <1> HIDE DEF fd
  <1>4. /\ l_proc1'.pc = l_proc1.pc /\ l_proc1'.run = l_proc1.run
        /\ l_proc1'.count = l_proc1.count /\ l_proc1'.letter = l_proc1.letter
    BY <1>2, <1>3 DEF Proc1s
  <1>5. /\ l_proc2'.pc \in {"idle", "shm_open"} /\ l_proc2'.fd = fd
        /\ l_proc2'.count = l_proc2.count
        /\ l_proc2'.pc = "shm_open" => \A k \in Letters!Pipes : fd[k] # 0
    BY <1>2, <1>3 DEF Proc2s
  <1>6. l_bytes' \in {Letters!Closed1, Letters!Closed2, l_bytes}
    BY <1>2
  <1>7. \A r \in Letters!Runs :
            Answering1(r)' <= Answering1(r) /\ Answering2(r)' <= Answering2(r) /\ First(r) <= First(r)'
    BY <1>2, <1>4, <1>5 DEF Answering1, Answering2, First
  <1>8. /\ \A k \in Letters!Pipes, r \in Letters!Runs : l_bytes[k][r] = 0 => l_bytes'[k][r] = 0
        /\ \A r \in Letters!Runs : Given(r)' + First(r) <= Given(r) + First(r)'
    BY <1>1, <1>6, <1>7, ClosedBounds
  <1>9. OneRun'
    <2>1. l_proc1.pc \in Early => l_proc1.run \in Letters!Runs
      BY <1>1, Running DEF Early
    <2> QED
      BY <1>1, <1>2, <1>4, <1>8, <2>1, OneRunKept
  <1>10. LetterCounts'
    BY <1>1, <1>2, <1>4, <1>5 DEF LetterCounts
  <1>11. ASSUME NEW r \in Letters!Runs PROVE FewOf(r)'
    <2>1. ASSUME l_proc2'.pc = "shm_open", l_fifo[2] = r, fd[1] # r
          PROVE  Given(r)' + Writing' <= First(r)' + l_proc2'.count
      <3>1. l_proc2.fd[1] \notin {0, r}
        BY <1>3, <1>5, <2>1, ObjectFacts
      <3>2. Given(r) <= First(r)
        BY <1>1, <1>2, <2>1, <3>1 DEF FewPermissions, FewOf
      <3>3. Given(r)' <= First(r)'
        BY <1>1, <1>8, <3>2, GivenNumbers, GivenNumbersNext
      <3>4. Writing' = 0 /\ l_proc2'.count \in Nat
        BY <1>1, <2>1 DEF Writing, LetterTypes, Proc2s
      <3> QED
        BY <1>1, <3>3, <3>4, GivenNumbersNext
    <2> QED
      BY <1>2, <1>3, <1>5, <1>8, <2>1, FewKept DEF Busy
  <1> QED
    BY <1>9, <1>10, <1>11 DEF FewPermissions

\* Steps of a proc2 that has its pipes.
LEMMA Proc2Bounds ==
    ASSUME LetterBounds, LettersInv', UNCHANGED <<l_size, l_fifo, l_proc1, l_orderly>>,
           l_proc2'.pc # "open2", l_proc2'.count <= l_size,
           \A k \in Letters!Pipes, r \in Letters!Runs : l_bytes[k][r] = 0 => l_bytes'[k][r] = 0,
           \A r \in Letters!Runs : Given(r)' + First(r) <= Given(r) + First(r)',
           l_proc2'.pc \in Busy => /\ l_proc2.pc \in Busy /\ l_proc2'.fd = l_proc2.fd
                                   /\ l_proc2.count + Writing' <= l_proc2'.count + Writing
    PROVE  OneRun' /\ FewPermissions' /\ LetterCounts'
  <1>1. l_proc1.pc \in Early => l_proc1.run \in Letters!Runs
    BY Running DEF Early, LetterBounds
  <1>2. OneRun'
    BY <1>1, OneRunKept DEF LetterBounds
  <1>3. LetterCounts'
    BY DEF LetterBounds, LetterCounts
  <1>4. ASSUME NEW r \in Letters!Runs PROVE FewOf(r)'
    BY FewKept
  <1> QED
    BY <1>2, <1>3, <1>4 DEF FewPermissions

LEMMA ShmOpen2Bounds ==
    ASSUME LetterBounds, LettersInv', Letters!ShmOpen2
    PROVE  OneRun' /\ FewPermissions' /\ LetterCounts'
  <1>1. LettersInv /\ LetterCounts /\ LetterTypes /\ LetterTypes'
    BY DEF LetterBounds, LettersInv
  <1>2. /\ l_proc2.pc = "shm_open"
        /\ l_proc2'.pc = "read" /\ l_proc2'.count = l_proc2.count /\ l_proc2'.fd = l_proc2.fd
        /\ UNCHANGED <<l_size, l_fifo, l_bytes, l_proc1, l_orderly>>
    BY <1>1 DEF Letters!ShmOpen2, Letters!At2, LetterTypes, Proc2s
  <1>3. Writing = 0 /\ Writing' = 0 /\ l_proc2.count \in Nat
    BY <1>1, <1>2, LetterNumbers DEF Writing
  <1>4. ASSUME NEW r \in Letters!Runs PROVE Given(r)' + First(r) <= Given(r) + First(r)'
    <2>1. /\ Answering1(r)' = Answering1(r) /\ Answering2(r)' = Answering2(r) /\ First(r)' = First(r)
          /\ l_bytes'[1][r] = l_bytes[1][r] /\ l_bytes'[2][r] = l_bytes[2][r]
      BY <1>2 DEF Answering1, Answering2, First
    <2> QED
      BY <1>1, <2>1, GivenNumbers DEF Given
  <1> QED
    BY <1>1, <1>2, <1>3, <1>4, Proc2Bounds DEF LetterCounts, Busy

LEMMA Read2Bounds ==
    ASSUME LetterBounds, LettersInv', Letters!Read2
    PROVE  OneRun' /\ FewPermissions' /\ LetterCounts'
  <1>1. LettersInv /\ LetterCounts /\ LetterTypes /\ LetterTypes'
    BY DEF LetterBounds, LettersInv
  <1>2. /\ l_proc2.pc = "read" /\ l_bytes[1][l_proc2.fd[1]] > 0
        /\ l_bytes' = [l_bytes EXCEPT ![1][l_proc2.fd[1]] = @ - 1]
        /\ l_proc2'.pc = "print" /\ l_proc2'.count = l_proc2.count /\ l_proc2'.fd = l_proc2.fd
        /\ UNCHANGED <<l_size, l_fifo, l_proc1, l_orderly>>
    BY <1>1 DEF Letters!Read2, Letters!At2, Letters!Go2, LetterTypes, Proc2s
  <1>3. Writing = 0 /\ Writing' = 0 /\ l_proc2.count \in Nat
    BY <1>1, <1>2, LetterNumbers DEF Writing
  <1>4. l_proc2.fd[1] \in Letters!Runs
    BY <1>1, <1>2, BusyPipes DEF Busy
  <1>5. \A r \in Letters!Runs :
            /\ l_bytes'[1][r] = IF r = l_proc2.fd[1] THEN l_bytes[1][r] - 1 ELSE l_bytes[1][r]
            /\ l_bytes'[2][r] = l_bytes[2][r]
    <2> DEFINE q == l_proc2.fd[1]
    <2>1. q \in Letters!Runs /\ l_bytes \in [Letters!Pipes -> [Letters!Runs -> Nat]]
      BY <1>1, <1>4 DEF LetterTypes
    <2>2. l_bytes' = [l_bytes EXCEPT ![1][q] = l_bytes[1][q] - 1]
      BY <1>2
    <2> HIDE DEF q
    <2>3. \A r \in Letters!Runs :
              /\ l_bytes'[1][r] = IF r = q THEN l_bytes[1][r] - 1 ELSE l_bytes[1][r]
              /\ l_bytes'[2][r] = l_bytes[2][r]
      BY <2>1, <2>2, ObjectFacts
    <2> QED
      BY <2>3 DEF q
  <1>6. ASSUME NEW r \in Letters!Runs PROVE Given(r)' + First(r) <= Given(r) + First(r)'
    <2>1. /\ Answering1(r)' = Answering1(r) /\ First(r)' = First(r) /\ Answering2(r) = 0
          /\ Answering2(r)' \in {0, 1} /\ (Answering2(r)' = 1 => r = l_proc2.fd[1])
      BY <1>2 DEF Answering1, Answering2, First
    <2> QED
      BY <1>1, <1>5, <2>1, GivenNumbers DEF Given
  <1>7. \A k \in Letters!Pipes, r \in Letters!Runs : l_bytes[k][r] = 0 => l_bytes'[k][r] = 0
    BY <1>2, <1>5 DEF Letters!Pipes
  <1> QED
    BY <1>1, <1>2, <1>3, <1>6, <1>7, Proc2Bounds DEF LetterCounts, Busy

LEMMA PrintLetterBounds ==
    ASSUME LetterBounds, LettersInv', Letters!PrintLetter
    PROVE  OneRun' /\ FewPermissions' /\ LetterCounts'
  <1>1. LettersInv /\ LetterCounts /\ LetterTypes /\ LetterTypes'
    BY DEF LetterBounds, LettersInv
  <1>2. /\ l_proc2.pc = "print"
        /\ l_proc2'.pc = "write" /\ l_proc2'.count = l_proc2.count + 1 /\ l_proc2'.fd = l_proc2.fd
        /\ UNCHANGED <<l_size, l_fifo, l_bytes, l_proc1, l_orderly>>
    BY <1>1 DEF Letters!PrintLetter, Letters!At2, LetterTypes, Proc2s
  <1>3. Writing = 0 /\ Writing' = 1 /\ l_proc2.count \in Nat /\ l_size \in Nat
        /\ l_proc2.count < l_size
    BY <1>1, <1>2, LetterNumbers DEF Writing, LettersInv, Places
  <1>4. ASSUME NEW r \in Letters!Runs PROVE Given(r)' + First(r) <= Given(r) + First(r)'
    <2>1. /\ Answering1(r)' = Answering1(r) /\ Answering2(r)' = Answering2(r) /\ First(r)' = First(r)
          /\ l_bytes'[1][r] = l_bytes[1][r] /\ l_bytes'[2][r] = l_bytes[2][r]
      BY <1>2 DEF Answering1, Answering2, First
    <2> QED
      BY <1>1, <2>1, GivenNumbers DEF Given
  <1> QED
    BY <1>2, <1>3, <1>4, Proc2Bounds DEF Busy

\* A proc2 that ends.
LEMMA End2Bounds ==
    ASSUME LetterBounds, LettersInv', Letters!BusError \/ Letters!Cleanup2
    PROVE  OneRun' /\ FewPermissions' /\ LetterCounts'
  <1>1. LettersInv /\ LetterCounts /\ LetterTypes /\ LetterTypes'
    BY DEF LetterBounds, LettersInv
  <1>2. /\ l_proc2'.pc \in {"bus", "idle"} /\ l_proc2'.count = l_proc2.count
        /\ l_bytes' = Letters!Closed2
        /\ UNCHANGED <<l_size, l_fifo, l_proc1, l_orderly>>
    BY <1>1 DEF Letters!BusError, Letters!Cleanup2, Letters!At2, Letters!Go2, LetterTypes, Proc2s
  <1>3. ASSUME NEW r \in Letters!Runs
        PROVE  Answering1(r)' = Answering1(r) /\ Answering2(r)' = 0 /\ First(r)' = First(r)
    BY <1>2 DEF Answering1, Answering2, First
  <1>4. \A r \in Letters!Runs :
            Answering1(r)' <= Answering1(r) /\ Answering2(r)' <= Answering2(r) /\ First(r) <= First(r)'
    BY <1>1, <1>3, GivenNumbers
  <1>5. /\ \A k \in Letters!Pipes, r \in Letters!Runs : l_bytes[k][r] = 0 => l_bytes'[k][r] = 0
        /\ \A r \in Letters!Runs : Given(r)' + First(r) <= Given(r) + First(r)'
    BY <1>1, <1>2, <1>4, ClosedBounds
  <1> QED
    BY <1>1, <1>2, <1>5, Proc2Bounds DEF LetterCounts, Busy

LEMMA Write2Bounds ==
    ASSUME LetterBounds, LettersInv', Letters!Write2
    PROVE  OneRun' /\ FewPermissions' /\ LetterCounts'
  <1>1. LettersInv /\ OneRun /\ FewPermissions /\ LetterCounts /\ LetterTypes /\ LetterTypes'
    BY DEF LetterBounds, LettersInv
  <1>2. /\ l_proc2.pc = "write" /\ l_bytes' = [l_bytes EXCEPT ![2][l_proc2.fd[2]] = @ + 1]
        /\ l_proc2'.pc \in {"read", "shm_unlink"}
        /\ l_proc2'.count = l_proc2.count /\ l_proc2'.fd = l_proc2.fd
        /\ UNCHANGED <<l_size, l_fifo, l_proc1, l_orderly>>
    BY <1>1 DEF Letters!Write2, Letters!At2, Letters!Go2, LetterTypes, Proc2s
  <1>3. Writing = 1 /\ Writing' = 0 /\ l_proc2.count \in Nat /\ l_size \in Nat
    BY <1>1, <1>2, LetterNumbers DEF Writing
  <1>4. l_proc2.fd[2] \in Letters!Runs
    BY <1>1, <1>2, BusyPipes DEF Busy
  <1>5. \A r \in Letters!Runs :
            /\ l_bytes'[1][r] = l_bytes[1][r]
            /\ l_bytes'[2][r] = IF r = l_proc2.fd[2] THEN l_bytes[2][r] + 1 ELSE l_bytes[2][r]
    <2> DEFINE q == l_proc2.fd[2]
    <2>1. q \in Letters!Runs /\ l_bytes \in [Letters!Pipes -> [Letters!Runs -> Nat]]
      BY <1>1, <1>4 DEF LetterTypes
    <2>2. l_bytes' = [l_bytes EXCEPT ![2][q] = l_bytes[2][q] + 1]
      BY <1>2
    <2> HIDE DEF q
    <2>3. \A r \in Letters!Runs :
              /\ l_bytes'[2][r] = IF r = q THEN l_bytes[2][r] + 1 ELSE l_bytes[2][r]
              /\ l_bytes'[1][r] = l_bytes[1][r]
      BY <2>1, <2>2, ObjectFacts
    <2> QED
      BY <2>3 DEF q
  <1>6. ASSUME NEW r \in Letters!Runs
        PROVE  /\ Answering1(r)' = Answering1(r) /\ First(r)' = First(r) /\ Answering2(r)' = 0
               /\ Answering2(r) = IF l_proc2.fd[1] = r /\ l_proc2.fd[2] = r THEN 1 ELSE 0
    BY <1>2 DEF Answering1, Answering2, First
  <1>7. OneRun'
    <2>1. l_proc1.pc \in Early => l_proc1.run \in Letters!Runs /\ l_proc2.fd[2] # l_proc1.run
      BY <1>1, Running DEF Early, LettersInv, Places
    <2>2. l_proc1.pc \in Early => \A k \in Letters!Pipes : l_bytes'[k][l_proc1.run] = l_bytes[k][l_proc1.run]
      BY <1>5, <2>1 DEF Letters!Pipes
    <2> QED
      BY <1>1, <1>2, <2>2, OneRunKept
  <1>8. LetterCounts'
    BY <1>1, <1>2 DEF LetterCounts
  <1>9. ASSUME NEW r \in Letters!Runs PROVE FewOf(r)'
    <2>1. CASE l_proc2.fd[2] = r /\ l_proc2.fd[1] # r
      <3>1. Given(r) + 1 <= First(r) + l_proc2.count
        BY <1>1, <1>2, <1>3, <2>1 DEF FewPermissions, FewOf, Busy
      <3>2. Given(r)' = Given(r) + 1
        BY <1>1, <1>5, <1>6, <2>1, GivenNumbers DEF Given
      <3>3. First(r) \in {0, 1} /\ Given(r) \in Nat /\ First(r)' = First(r) /\ l_proc2.count <= l_size
        BY <1>1, <1>6, GivenNumbers DEF LetterCounts
      <3>4. Given(r)' <= First(r)' + l_proc2'.count /\ Given(r)' <= First(r)' + l_size'
        BY <1>2, <1>3, <3>1, <3>2, <3>3
      <3>5. Given(r)' + Writing' <= First(r)' + l_proc2'.count
        BY <1>3, <3>2, <3>3, <3>4
      <3> QED
        BY <1>2, <3>4, <3>5 DEF FewOf
    <2>2. CASE ~(l_proc2.fd[2] = r /\ l_proc2.fd[1] # r)
      <3>1. Given(r)' + First(r) <= Given(r) + First(r)'
        BY <1>1, <1>5, <1>6, <2>2, GivenNumbers DEF Given
      <3> QED
        BY <1>2, <2>2, <3>1, FewKept
    <2> QED
      BY <2>1, <2>2
  <1> QED
    BY <1>7, <1>8, <1>9 DEF FewPermissions

LEMMA Step2Bounds ==
    ASSUME LetterBounds, LettersInv', Letters!Step2
    PROVE  OneRun' /\ FewPermissions' /\ LetterCounts'
  BY Open1Bounds, Open2Bounds, ShmOpen2Bounds, Read2Bounds, PrintLetterBounds, End2Bounds,
     Write2Bounds
  DEF Letters!Step2

LEMMA Start1Bounds ==
    ASSUME LetterBounds, LettersInv', Letters!Start1
    PROVE  OneRun' /\ FewPermissions' /\ LetterCounts'
  <1>1. LettersInv /\ OneRun /\ LetterCounts /\ LetterTypes /\ LetterTypes' /\ l_size \in Nat
    BY LetterNumbers DEF LetterBounds, LettersInv
  <1>2. /\ l_proc1.pc \in Letters!Down /\ l_proc1.run < LETTER_RUNS
        /\ l_proc1'.pc = "unlink1" /\ l_proc1'.run = l_proc1.run + 1
        /\ l_proc1'.count = 0 /\ l_proc1'.letter = 1 /\ l_orderly' \in BOOLEAN
        /\ UNCHANGED <<l_size, l_fifo, l_bytes, l_proc2>>
    BY DEF Letters!Start1
  <1>3. /\ l_proc1.run + 1 \in Letters!Runs /\ l_proc1.run + 1 > l_proc1.run /\ l_proc1.run \in Nat
    <2>1. l_proc1.run \in Nat /\ LETTER_RUNS \in Nat
      BY <1>1, LetterNumbers, ObjectFacts
    <2> QED
      BY <1>2, <2>1 DEF Letters!Runs
  <1>4. /\ \A k \in Letters!Pipes : l_bytes[k][l_proc1.run + 1] = 0
        /\ l_proc2.fd[1] # l_proc1.run + 1 /\ l_fifo[2] # l_proc1.run + 1
    BY <1>1, <1>3, LetterNumbers, ObjectFacts DEF LettersInv, Unbegun
  <1>5. OneRun'
    BY <1>1, <1>2, <1>4 DEF OneRun
  <1>6. LetterCounts'
    BY <1>1, <1>2, MCFilesAssumption DEF LetterCounts
  <1>7. ASSUME NEW r \in Letters!Runs, r # l_proc1.run + 1
        PROVE  Given(r)' + First(r) <= Given(r) + First(r)'
    <2>1. /\ Answering1(r) = 0 /\ Answering1(r)' = 0 /\ Answering2(r)' = Answering2(r)
          /\ First(r)' = 1 /\ First(r) = 1
          /\ l_bytes'[1][r] = l_bytes[1][r] /\ l_bytes'[2][r] = l_bytes[2][r]
      BY <1>2, <1>7 DEF Answering1, Answering2, First, Letters!Down, Early
    <2> QED
      BY <1>1, <2>1, GivenNumbers DEF Given
  <1>8. ASSUME NEW r \in Letters!Runs, r = l_proc1.run + 1
        PROVE  FewOf(r)'
    <2>1. /\ l_bytes'[1][r] = 0 /\ l_bytes'[2][r] = 0
      BY <1>2, <1>4, <1>8, ObjectFacts
    <2>2. Answering1(r)' = 0 /\ Answering2(r)' = 0
      BY <1>2, <1>4, <1>8 DEF Answering1, Answering2
    <2>3. Given(r)' = 0
      BY <2>1, <2>2 DEF Given
    <2>4. First(r)' \in {0, 1}
      BY <1>1, GivenNumbersNext
    <2>5. l_proc2.fd[2] # r
      BY <1>1, <1>3, <1>8, LetterNumbers, ObjectFacts DEF LettersInv, Unbegun
    <2> QED
      BY <1>1, <1>2, <2>3, <2>4, <2>5 DEF FewOf
  <1>9. ASSUME NEW r \in Letters!Runs, r # l_proc1.run + 1
        PROVE  FewOf(r)'
    <2>1. Writing' = Writing /\ Writing \in {0, 1} /\ l_proc2.count \in Nat
      BY <1>1, <1>2, LetterNumbers DEF Writing
    <2>2. l_proc2.count + Writing' <= l_proc2'.count + Writing
      BY <1>2, <2>1
    <2> QED
      BY <1>2, <1>7, <1>9, <2>2, FewKept
  <1> QED
    BY <1>5, <1>6, <1>8, <1>9 DEF FewPermissions

LEMMA KillBounds ==
    ASSUME LetterBounds, LettersInv', Letters!Kill
    PROVE  OneRun' /\ FewPermissions' /\ LetterCounts'
  <1>1. LettersInv /\ OneRun /\ LetterCounts /\ LetterTypes /\ LetterTypes' /\ l_proc2.count \in Nat
    BY LetterNumbers DEF LetterBounds, LettersInv
  <1>2. /\ l_orderly' = FALSE /\ l_bytes' \in {Letters!Closed1, Letters!Closed2, l_bytes}
        /\ UNCHANGED <<l_size, l_fifo>>
        /\ \/ l_proc1' = [l_proc1 EXCEPT !.pc = "killed"] /\ UNCHANGED l_proc2
           \/ l_proc2' = [l_proc2 EXCEPT !.pc = "killed"] /\ UNCHANGED l_proc1
    BY DEF Letters!Kill, Letters!Go1, Letters!Go2
  <1>3. /\ l_proc1'.run = l_proc1.run
        /\ l_proc1'.count = l_proc1.count /\ l_proc1'.letter = l_proc1.letter
        /\ l_proc1'.pc = l_proc1.pc \/ l_proc1'.pc = "killed"
    BY <1>1, <1>2 DEF LetterTypes, Proc1s
  <1>4. /\ l_proc2'.count = l_proc2.count /\ l_proc2'.fd = l_proc2.fd
        /\ l_proc2'.pc = l_proc2.pc \/ l_proc2'.pc = "killed"
    BY <1>1, <1>2 DEF LetterTypes, Proc2s
  <1>5. \A r \in Letters!Runs :
            Answering1(r)' <= Answering1(r) /\ Answering2(r)' <= Answering2(r) /\ First(r) <= First(r)'
    BY <1>3, <1>4 DEF Answering1, Answering2, First, Early
  <1>6. /\ \A k \in Letters!Pipes, r \in Letters!Runs : l_bytes[k][r] = 0 => l_bytes'[k][r] = 0
        /\ \A r \in Letters!Runs : Given(r)' + First(r) <= Given(r) + First(r)'
    BY <1>1, <1>2, <1>5, ClosedBounds
  <1>7. OneRun'
    <2>1. l_proc1.pc \in Early => l_proc1.run \in Letters!Runs
      BY <1>1, Running DEF Early
    <2>2. l_proc1'.pc \in Early => l_proc1'.pc = l_proc1.pc
      BY <1>3 DEF Early
    <2> QED
      BY <1>1, <1>2, <1>3, <1>6, <2>1, <2>2, OneRunKept
  <1>8. LetterCounts'
    BY <1>1, <1>2, <1>3, <1>4 DEF LetterCounts
  <1>9. ASSUME NEW r \in Letters!Runs PROVE FewOf(r)'
    <2>1. ASSUME l_proc2'.pc \in Busy
          PROVE  l_proc2.pc \in Busy /\ l_proc2.count + Writing' <= l_proc2'.count + Writing
      <3>1. l_proc2'.pc = l_proc2.pc
        BY <1>4, <2>1 DEF Busy
      <3>2. Writing' = Writing /\ Writing \in {0, 1}
        BY <3>1 DEF Writing
      <3> QED
        BY <1>1, <1>4, <2>1, <3>1, <3>2
    <2> QED
      BY <1>2, <1>4, <1>6, <2>1, FewKept
  <1> QED
    BY <1>7, <1>8, <1>9 DEF FewPermissions

LEMMA LetterBoundsStep == ASSUME LetterBounds, Letters!Next PROVE LetterBounds'
  <1>1. LettersInv'
    BY Step1Letters, Step2Letters, UserLetters DEF LetterBounds, Letters!Next
  <1>2. OneRun' /\ FewPermissions' /\ LetterCounts'
    BY <1>1, Step1Bounds, Step2Bounds, Start1Bounds, Start2Bounds, KillBounds
    DEF Letters!Next, Letters!User
  <1> QED
    BY <1>1, <1>2 DEF LetterBounds

LEMMA LetterBoundsStutter == ASSUME LetterBounds, UNCHANGED letterVars PROVE LetterBounds'
  <1>1. LettersInv'
    BY LettersStutter DEF LetterBounds
  <1>2. UNCHANGED <<l_size, l_fifo, l_bytes, l_proc1, l_proc2, l_orderly>>
    BY DEF letterVars
  <1>3. OneRun' /\ LetterCounts'
    BY <1>2 DEF LetterBounds, OneRun, LetterCounts
  <1>4. ASSUME NEW r \in Letters!Runs PROVE FewOf(r)'
    BY <1>2, <1>4 DEF LetterBounds, FewPermissions, FewOf, Given, First, Writing, Answering1, Answering2
  <1> QED
    BY <1>1, <1>3, <1>4 DEF LetterBounds, FewPermissions

LEMMA LetterTypeOK == LetterBounds => Letters!TypeOK
  <1> SUFFICES ASSUME LetterBounds PROVE Letters!TypeOK
    OBVIOUS
  <1>1. LettersInv /\ LetterCounts /\ FewPermissions /\ LetterTypes /\ l_size \in Nat
    BY LetterNumbers DEF LetterBounds, LettersInv
  <1>2. \A r \in Letters!Runs : l_bytes[1][r] \in 0 .. l_size + 1 /\ l_bytes[2][r] \in 0 .. l_size + 1
    <2> TAKE r \in Letters!Runs
    <2>1. Given(r) <= First(r) + l_size
      BY <1>1 DEF FewPermissions, FewOf
    <2> QED
      BY <1>1, <2>1, GivenNumbers DEF Given
  <1>3. l_bytes \in [Letters!Pipes -> [Letters!Runs -> 0 .. l_size + 1]]
    BY <1>1, <1>2 DEF LetterTypes, Letters!Pipes
  <1>4. ASSUME NEW o \in Letters!Objects
        PROVE  /\ Len(l_memory[o]) \in {0, l_size}
               /\ \A j \in 1 .. Len(l_memory[o]) : l_memory[o][j] \in 0 .. LETTERS
    <2>1. /\ Len(l_memory[o]) \in {0, l_size}
          /\ \A j \in 1 .. Len(l_memory[o]) : l_memory[o][j] \in {0, Letters!Alphabet(j)}
      BY <1>1 DEF LettersInv, Alphabetical, RightLetters
    <2>2. Len(l_memory[o]) \in Nat /\ LETTERS \in Nat \ {0}
      BY <1>1, <2>1, MCFilesAssumption
    <2>3. ASSUME NEW j \in 1 .. Len(l_memory[o]) PROVE Letters!Alphabet(j) \in 1 .. LETTERS
      <3>1. j - 1 \in Nat
        BY <2>2
      <3>2. (j - 1) % LETTERS \in 0 .. LETTERS - 1
        BY <2>2, <3>1
      <3> QED
        BY <2>2, <3>2 DEF Letters!Alphabet
    <2> QED
      BY <2>1, <2>2, <2>3
  <1>5. /\ l_proc1.run \in 0 .. LETTER_RUNS /\ l_proc1.count \in 0 .. l_size
        /\ l_proc1.letter \in 1 .. LETTERS + 1
        /\ l_proc2.run \in 0 .. LETTER_RUNS /\ l_proc2.count \in 0 .. l_size
        /\ l_proc2.obj \in Letters!Objects \cup {Letters!None}
        /\ l_proc2.fd \in [Letters!Pipes -> 0 .. LETTER_RUNS]
    BY <1>1, LetterNumbers DEF LetterCounts, LetterTypes, Proc2s
  <1> QED
    BY <1>1, <1>3, <1>4, <1>5 DEF Letters!TypeOK, LetterTypes, LetterCounts
------------------------------------------------------------------------------
\* Induction over the numbers: a set with 0 and with the successor of each of its members.
LEMMA NatSetInduction ==
    ASSUME NEW S, 0 \in S, \A n \in Nat : n \in S => n + 1 \in S
    PROVE  Nat \subseteq S
  <1> DEFINE T == Nat \ S
             R == {ss \in Nat \X Nat : ss[1] < ss[2]}
  <1>1. SUFFICES ASSUME T # {} PROVE FALSE
    OBVIOUS
  <1>2. IsWellFoundedOn(R, Nat)
    BY NatLessThanWellFounded DEF OpToRel
  <1>3. PICK x \in T : \A y \in T : ~ (<<y, x>> \in R)
    <2> HIDE DEF T, R
    <2>1. T \subseteq Nat
      BY DEF T
    <2> QED
    BY <1>1, <1>2, <2>1, WFMin
  <1>4. x # 0 /\ x - 1 \in Nat /\ x - 1 \in S
    <2>1. x # 0 /\ x \in Nat
      OBVIOUS
    <2>2. <<x - 1, x>> \in R
      BY <2>1
    <2>3. x - 1 \notin T
      BY <2>2, <1>3
    <2> QED
      BY <2>1, <2>3
  <1> QED
    BY <1>4

\* The powers of two, as the numbers of subsets.
LEMMA PowCard == \A n \in Nat : /\ IsFiniteSet(SUBSET (1 .. n))
                                /\ Cardinality(SUBSET (1 .. n)) = 2 ^ n
  <1> TAKE n \in Nat
  <1>1. IsFiniteSet(1 .. n) /\ Cardinality(1 .. n) = n
    BY FS_Interval
  <1> QED
    BY <1>1, FS_SUBSET

LEMMA PowStep == \A n \in Nat : 2 ^ n \in Nat /\ 2 ^ (n + 1) = 2 * 2 ^ n
  <1> TAKE n \in Nat
  <1> DEFINE A == SUBSET (1 .. n)
             B == (SUBSET (1 .. n + 1)) \ A
             f == [x \in A |-> x \cup {n + 1}]
  <1>1. f \in Bijection(A, B)
    <2>1. f \in [A -> B]
      OBVIOUS
    <2>2. ASSUME NEW x \in A, NEW y \in A, f[x] = f[y] PROVE x = y
      <3>1. x = f[x] \ {n + 1} /\ y = f[y] \ {n + 1}
        OBVIOUS
      <3> QED
        BY <2>2, <3>1
    <2>3. ASSUME NEW y \in B PROVE \E x \in A : f[x] = y
      <3>1. y \ {n + 1} \in A /\ n + 1 \in y
        OBVIOUS
      <3> QED
        BY <3>1
    <2> QED
      BY <2>1, <2>2, <2>3 DEF Bijection, Injection, IsInjective, Surjection
  <1>2. IsFiniteSet(A) /\ Cardinality(A) = 2 ^ n
    BY PowCard
  <1>3. IsFiniteSet(A \cup B) /\ Cardinality(A \cup B) = 2 ^ (n + 1)
    <2>1. A \cup B = SUBSET (1 .. n + 1)
      OBVIOUS
    <2>2. n + 1 \in Nat
      OBVIOUS
    <2> QED
      BY <2>1, <2>2, PowCard
  <1>4. IsFiniteSet(B) /\ Cardinality(B) = Cardinality(A)
    <2> HIDE DEF A, B, f
    <2> QED
      BY <1>1, <1>2, FS_Bijection DEF ExistsBijection
  <1>5. Cardinality(A \cup B) = Cardinality(A) + Cardinality(B) - Cardinality(A \cap B)
    <2> HIDE DEF A, B, f
    <2> QED
      BY <1>2, <1>4, FS_Union
  <1>6. A \cap B = {} /\ Cardinality(A \cap B) = 0
    BY FS_EmptySet
  <1>7. Cardinality(A) \in Nat
    <2> HIDE DEF A, B, f
    <2> QED
      BY <1>2, FS_CardinalityType
  <1> QED
    BY <1>2, <1>3, <1>4, <1>5, <1>6, <1>7

LEMMA PowZero == 2 ^ 0 = 1
  <1>1. SUBSET (1 .. 0) = {{}}
    OBVIOUS
  <1> QED
    BY <1>1, PowCard, FS_Singleton

LEMMA PowPos == \A n \in Nat : 2 ^ n >= 1
  <1> DEFINE S == {n \in Nat : 2 ^ n >= 1}
  <1>1. 0 \in S
    BY PowZero
  <1>2. \A n \in Nat : n \in S => n + 1 \in S
    BY PowStep
  <1> QED
    <2> HIDE DEF S
    <2>1. Nat \subseteq S
      BY <1>1, <1>2, NatSetInduction
    <2> QED
      BY <2>1 DEF S

LEMMA PowMono == \A m, n \in Nat : m <= n => 2 ^ m <= 2 ^ n
  <1> TAKE m \in Nat
  <1> DEFINE S == {k \in Nat : 2 ^ m <= 2 ^ (m + k)}
  <1>1. 0 \in S
    BY PowStep
  <1>2. \A k \in Nat : k \in S => k + 1 \in S
    <2> TAKE k \in Nat
    <2> HAVE k \in S
    <2>1. 2 ^ (m + k + 1) = 2 * 2 ^ (m + k) /\ 2 ^ (m + k) \in Nat /\ 2 ^ m \in Nat
      BY PowStep
    <2>2. m + (k + 1) = m + k + 1
      OBVIOUS
    <2> QED
      BY <2>1, <2>2
  <1>3. Nat \subseteq S
    <2> HIDE DEF S
    <2> QED
      BY <1>1, <1>2, NatSetInduction
  <1> TAKE n \in Nat
  <1> HAVE m <= n
  <1>4. n - m \in S /\ m + (n - m) = n
    BY <1>3
  <1> QED
    BY <1>4

\* Every positive number has a highest bit.
LEMMA HighestBit ==
    \A n \in Nat : \A q \in 1 .. 2 ^ n - 1 : \E b \in 1 .. n : q \in 2 ^ (b - 1) .. 2 ^ b - 1
  <1> DEFINE S == {n \in Nat : \A q \in 1 .. 2 ^ n - 1 : \E b \in 1 .. n : q \in 2 ^ (b - 1) .. 2 ^ b - 1}
  <1>1. 0 \in S
    BY PowZero
  <1>2. \A n \in Nat : n \in S => n + 1 \in S
    <2> TAKE n \in Nat
    <2> HAVE n \in S
    <2>1. SUFFICES ASSUME NEW q \in 1 .. 2 ^ (n + 1) - 1
                   PROVE  \E b \in 1 .. n + 1 : q \in 2 ^ (b - 1) .. 2 ^ b - 1
      OBVIOUS
    <2>2. 2 ^ n \in Nat /\ 2 ^ (n + 1) \in Nat /\ (n + 1) - 1 = n
      BY PowStep
    <2>3. CASE q < 2 ^ n
      BY <2>2, <2>3
    <2>4. CASE q >= 2 ^ n
      BY <2>2, <2>4
    <2> QED
      BY <2>2, <2>3, <2>4
  <1> QED
    <2> HIDE DEF S
    <2>1. Nat \subseteq S
      BY <1>1, <1>2, NatSetInduction
    <2> QED
      BY <2>1 DEF S
------------------------------------------------------------------------------
\* What the processes of a run of the forking program are.
CountTypes ==
    /\ n_steps \in Nat /\ n_skip \in Nat
    /\ n_pc \in [Counting!Processes ->
                     Counting!Over \cup {"fork", "write", "wait", "lseek", "read"}]
    /\ n_i \in [Counting!Processes -> 1 .. n_steps + 1]
    /\ n_length \in Nat /\ n_offset \in Nat /\ n_count \in Nat
    /\ n_late \in BOOLEAN /\ n_failed \in BOOLEAN

\* The steps that are left to a process in the loop; a process has no bit of a step that it
\* has not come to.
CountPlaces ==
    /\ n_pc[0] \notin {"none", "write"}
    /\ \A p \in Counting!Processes : p # 0 => n_pc[p] \notin {"wait", "lseek", "read"}
    /\ \A p \in Counting!Processes : n_pc[p] = "fork" => n_i[p] <= n_steps
    /\ \A p \in Counting!Processes : n_pc[p] # "none" => p < 2 ^ (n_i[p] - 1)

\* The child of step h has the bit of h in addition to those of its parent, so that no two
\* forks make the same process; and it exists if its parent was in the loop then.
CountFamily ==
    \A h \in 1 .. n_steps : \A p \in 0 .. 2 ^ (h - 1) - 1 :
        /\ n_pc[p + 2 ^ (h - 1)] # "none" => n_pc[p] # "none" /\ n_i[p] > h
        /\ ~n_failed /\ n_pc[p] # "none" /\ n_i[p] > h => n_pc[p + 2 ^ (h - 1)] # "none"

\* A process whose last bit is that of a skip-th step was never in the loop, all others
\* stay in it to its end.
LeftAt(p, b) == p \in 2 ^ (b - 1) .. 2 ^ b - 1 /\ n_skip # 0 /\ b % n_skip = 0
InLoop ==
    /\ \A b \in 1 .. n_steps : \A p \in Counting!Processes :
           LeftAt(p, b) /\ n_pc[p] # "none" => n_pc[p] # "fork" /\ n_i[p] = b + 1
    /\ \A p \in Counting!Processes : n_pc[p] \notin {"none", "fork"} =>
           \/ n_i[p] = n_steps + 1 \/ \E b \in 1 .. n_steps : LeftAt(p, b)
           \/ n_skip = 0 /\ p # 0
    /\ \A p \in Counting!Processes : p # 0 /\ n_skip = 0 => n_pc[p] \in {"none", "error"}
    /\ \A p \in Counting!Processes : ~n_failed /\ (n_skip # 0 \/ p = 0) => n_pc[p] # "error"

\* The bytes of the file are those of the processes that have written, and the offset is
\* behind them until the root sets it to 0; from then on the root may read each byte once,
\* and all of them if nobody was late.
InFile ==
    LET stars == Cardinality(Counting!Stars)
    IN  /\ n_pc[0] \in {"fork", "wait", "lseek", "error"} =>
               n_offset = n_length /\ n_length = stars /\ n_count = 0
        /\ n_pc[0] = "read" => n_count <= n_offset
        /\ n_pc[0] = "ended" => n_count <= stars + 1
        /\ n_offset <= n_length /\ n_length <= stars
        /\ n_pc[0] \in {"read", "ended"} /\ ~n_late =>
               /\ \A p \in Counting!Processes \ {0} : n_pc[p] \in Counting!Over
               /\ n_length = stars
               /\ n_pc[0] = "read" => n_count = n_offset
               /\ n_pc[0] = "ended" => n_count = stars + 1

CountInv == CountTypes /\ CountPlaces /\ CountFamily /\ InLoop /\ InFile
------------------------------------------------------------------------------
LEMMA CountInit == MCInit => CountInv
  <1> SUFFICES ASSUME MCInit PROVE CountInv
    OBVIOUS
  <1>1. Counting!Init /\ n_steps \in Nat /\ n_skip \in Nat
    BY MCFilesAssumption DEF MCInit, Counting!Init
  <1>2. 2 ^ n_steps \in Nat /\ 2 ^ n_steps >= 1 /\ 0 \in Counting!Processes
    BY <1>1, PowStep, PowPos DEF Counting!Processes
  <1>3. /\ n_pc \in [Counting!Processes -> {"none", "fork", "wait"}]
        /\ \A p \in Counting!Processes : n_pc[p] # "none" => p = 0
        /\ n_pc[0] = IF n_steps > 0 THEN "fork" ELSE "wait"
        /\ n_i = [p \in Counting!Processes |-> 1]
    BY <1>1, <1>2 DEF Counting!Init, Counting!Root
  <1>4. CountTypes
    <2>1. n_pc \in [Counting!Processes ->
                         Counting!Over \cup {"fork", "write", "wait", "lseek", "read"}]
      BY <1>3 DEF Counting!Over
    <2>2. n_i \in [Counting!Processes -> 1 .. n_steps + 1]
      BY <1>1, <1>3
    <2> QED
      BY <1>1, <2>1, <2>2 DEF CountTypes, Counting!Init
  <1>5. CountPlaces
    BY <1>1, <1>2, <1>3, PowZero DEF CountPlaces
  <1>6. CountFamily
    <2>1. SUFFICES ASSUME NEW h \in 1 .. n_steps, NEW p \in 0 .. 2 ^ (h - 1) - 1
                   PROVE  n_pc[p + 2 ^ (h - 1)] = "none" /\ n_i[p] = 1
      BY DEF CountFamily
    <2>2. /\ h - 1 \in Nat /\ 2 ^ (h - 1) \in Nat /\ 2 ^ (h - 1) >= 1
          /\ 2 ^ h = 2 * 2 ^ (h - 1) /\ 2 ^ h <= 2 ^ n_steps
      BY <1>1, PowStep, PowPos, PowMono
    <2>3. p \in Counting!Processes /\ p + 2 ^ (h - 1) \in Counting!Processes /\ p + 2 ^ (h - 1) # 0
      BY <1>2, <2>2 DEF Counting!Processes
    <2> QED
      BY <1>3, <2>3
  <1>7. InLoop
    <2>1. \A b \in 1 .. n_steps : \A p \in Counting!Processes : LeftAt(p, b) => p # 0
      <3>1. ASSUME NEW b \in 1 .. n_steps, LeftAt(0, b) PROVE FALSE
        <4>1. b - 1 \in Nat /\ 2 ^ (b - 1) >= 1 /\ 2 ^ (b - 1) \in Nat
          BY <1>1, PowPos, PowStep
        <4> QED
          BY <3>1, <4>1 DEF LeftAt
      <3> QED
        BY <3>1
    <2> QED
      BY <1>1, <1>2, <1>3, <2>1 DEF InLoop
  <1>8. InFile
    <2>1. Counting!Stars = {}
      BY <1>3 DEF Counting!Stars, Counting!Root
    <2>2. Cardinality(Counting!Stars) = 0
      BY <2>1, FS_EmptySet
    <2> QED
      BY <1>1, <1>3, <2>2 DEF InFile, Counting!Init
  <1> QED
    BY <1>4, <1>5, <1>6, <1>7, <1>8 DEF CountInv

\* The powers of the steps.
LEMMA StepPowers ==
    ASSUME CountTypes, NEW h \in 1 .. n_steps
    PROVE  /\ h - 1 \in Nat /\ 2 ^ (h - 1) \in Nat /\ 2 ^ (h - 1) >= 1
           /\ 2 ^ h \in Nat /\ 2 ^ h = 2 * 2 ^ (h - 1)
           /\ 2 ^ n_steps \in Nat /\ 2 ^ h <= 2 ^ n_steps
           /\ \A p \in 0 .. 2 ^ (h - 1) - 1 :
                  p \in Counting!Processes /\ p + 2 ^ (h - 1) \in Counting!Processes
  <1>1. h \in Nat /\ h - 1 \in Nat /\ n_steps \in Nat /\ h <= n_steps /\ (h - 1) + 1 = h
    BY DEF CountTypes
  <1>2. /\ 2 ^ (h - 1) \in Nat /\ 2 ^ h = 2 * 2 ^ (h - 1)
        /\ 2 ^ (h - 1) >= 1 /\ 2 ^ h <= 2 ^ n_steps /\ 2 ^ n_steps \in Nat /\ 2 ^ h \in Nat
    BY <1>1, PowStep, PowPos, PowMono
  <1> QED
    BY <1>1, <1>2 DEF Counting!Processes

\* A number has one highest bit.
LEMMA OneHighestBit ==
    ASSUME NEW b \in Nat \ {0}, NEW d \in Nat \ {0}, NEW q \in Nat,
           q \in 2 ^ (b - 1) .. 2 ^ b - 1, q \in 2 ^ (d - 1) .. 2 ^ d - 1
    PROVE  b = d
  <1>1. \A k \in Nat : 2 ^ k \in Nat
    BY PowStep
  <1>2. b \in Nat /\ d \in Nat /\ b - 1 \in Nat /\ d - 1 \in Nat
    OBVIOUS
  <1>3. CASE b < d
    <2>1. 2 ^ b <= 2 ^ (d - 1)
      BY <1>2, <1>3, PowMono
    <2> QED
      BY <2>1, <1>1, <1>2
  <1>4. CASE d < b
    <2>1. 2 ^ d <= 2 ^ (b - 1)
      BY <1>2, <1>4, PowMono
    <2> QED
      BY <2>1, <1>1, <1>2
  <1> QED
    BY <1>2, <1>3, <1>4

Child(p) == p + 2 ^ (n_i[p] - 1)

\* What a fork does; the child did not exist.
LEMMA ForkEffect ==
    ASSUME CountInv, NEW p \in Counting!Processes, Counting!Fork(p)
    PROVE  LET h == n_i[p]  kid == Child(p)
           IN  /\ h \in 1 .. n_steps /\ p \in 0 .. 2 ^ (h - 1) - 1
               /\ kid \in Counting!Processes /\ kid # p /\ kid # 0
               /\ n_pc[kid] = "none" /\ n_pc[p] = "fork"
               /\ n_pc' \in [Counting!Processes ->
                                 Counting!Over \cup {"fork", "write", "wait", "lseek", "read"}]
               /\ n_i' \in [Counting!Processes -> 1 .. n_steps + 1]
               /\ \A q \in Counting!Processes \ {p, kid} : n_pc'[q] = n_pc[q] /\ n_i'[q] = n_i[q]
               /\ n_i'[p] = h + 1
               /\ \/ /\ ~n_failed' => ~n_failed
                     /\ n_pc'[p] = Counting!AfterStep(p, h, 1)
                     /\ n_pc'[kid] = Counting!ChildAt(kid, h) /\ n_i'[kid] = h + 1
                  \/ /\ n_failed' = TRUE
                     /\ n_pc'[p] = Counting!AfterStep(p, h, -1)
                     /\ n_pc'[kid] = "none" /\ n_i'[kid] = n_i[kid]
               /\ UNCHANGED <<n_steps, n_skip, n_length, n_offset, n_count, n_late>>
               /\ n_failed' \in BOOLEAN
  <1> DEFINE h == n_i[p]
             kid == Child(p)
  <1>0. CountTypes /\ CountPlaces /\ CountFamily
    BY DEF CountInv
  <1>1. n_pc[p] = "fork" /\ h \in 1 .. n_steps /\ p < 2 ^ (h - 1) /\ p \in Nat
    <2>1. n_pc[p] = "fork"
      BY DEF Counting!Fork
    <2>2. h \in 1 .. n_steps + 1 /\ h <= n_steps /\ p < 2 ^ (h - 1)
      BY <1>0, <2>1 DEF CountTypes, CountPlaces
    <2> QED
      BY <1>0, <2>1, <2>2 DEF CountTypes, Counting!Processes
  <1>2. 2 ^ (h - 1) \in Nat /\ 2 ^ (h - 1) >= 1 /\ p \in 0 .. 2 ^ (h - 1) - 1
        /\ kid \in Counting!Processes
    <2> HIDE DEF h
    <2>1. 2 ^ (h - 1) \in Nat /\ 2 ^ (h - 1) >= 1 /\ p \in 0 .. 2 ^ (h - 1) - 1
          /\ p + 2 ^ (h - 1) \in Counting!Processes
      BY <1>0, <1>1, StepPowers
    <2> QED
      BY <2>1 DEF h, Child
  <1>3. kid # p /\ kid # 0
    BY <1>1, <1>2 DEF Child
  <1>4. n_pc[kid] = "none"
    BY <1>0, <1>1, <1>2 DEF CountFamily, Child
  <1>5. /\ h + 1 \in 1 .. n_steps + 1 /\ n_skip \in Nat
        /\ Counting!AfterStep(p, h, 1) \in {"fork", "wait", "write"}
        /\ Counting!AfterStep(p, h, -1) \in {"fork", "error"}
        /\ Counting!ChildAt(kid, h) \in {"error", "fork", "wait", "write"}
    BY <1>0, <1>1 DEF Counting!AfterStep, Counting!ChildAt, Counting!AfterLoop, CountTypes
  <1>6. /\ n_pc \in [Counting!Processes ->
                         Counting!Over \cup {"fork", "write", "wait", "lseek", "read"}]
        /\ n_i \in [Counting!Processes -> 1 .. n_steps + 1] /\ n_failed \in BOOLEAN
    BY <1>0 DEF CountTypes
  <1>7. UNCHANGED <<n_steps, n_skip, n_length, n_offset, n_count, n_late>>
    BY DEF Counting!Fork
  <1>8. CASE /\ n_pc' = [n_pc EXCEPT ![p] = Counting!AfterStep(p, h, 1),
                                     ![kid] = Counting!ChildAt(kid, h)]
             /\ n_i' = [n_i EXCEPT ![p] = @ + 1, ![kid] = h + 1]
             /\ UNCHANGED n_failed
    <2> HIDE DEF kid
    <2>1. n_pc'[p] = Counting!AfterStep(p, h, 1) /\ n_pc'[kid] = Counting!ChildAt(kid, h)
          /\ \A q \in Counting!Processes \ {p, kid} : n_pc'[q] = n_pc[q]
      BY <1>2, <1>3, <1>6, <1>8
    <2>2. n_i'[p] = h + 1 /\ n_i'[kid] = h + 1
          /\ \A q \in Counting!Processes \ {p, kid} : n_i'[q] = n_i[q]
      BY <1>2, <1>3, <1>6, <1>8
    <2>3. n_pc' \in [Counting!Processes ->
                         Counting!Over \cup {"fork", "write", "wait", "lseek", "read"}]
      BY <1>2, <1>5, <1>6, <1>8 DEF Counting!Over
    <2>4. n_i' \in [Counting!Processes -> 1 .. n_steps + 1]
      BY <1>1, <1>2, <1>5, <1>6, <1>8
    <2> HIDE DEF h
    <2> QED
      BY <1>1, <1>2, <1>3, <1>4, <1>6, <1>7, <1>8, <2>1, <2>2, <2>3, <2>4 DEF h, kid
  <1>9. CASE /\ n_pc' = [n_pc EXCEPT ![p] = Counting!AfterStep(p, h, -1)]
             /\ n_i' = [n_i EXCEPT ![p] = @ + 1]
             /\ n_failed' = TRUE
    <2> HIDE DEF kid
    <2>1. /\ n_pc'[p] = Counting!AfterStep(p, h, -1) /\ n_i'[p] = h + 1
          /\ \A q \in Counting!Processes \ {p} : n_pc'[q] = n_pc[q] /\ n_i'[q] = n_i[q]
      BY <1>6, <1>9
    <2>2. n_pc' \in [Counting!Processes ->
                         Counting!Over \cup {"fork", "write", "wait", "lseek", "read"}]
      BY <1>5, <1>6, <1>9 DEF Counting!Over
    <2>3. n_i' \in [Counting!Processes -> 1 .. n_steps + 1]
      BY <1>1, <1>5, <1>6, <1>9
    <2> HIDE DEF h
    <2> QED
      BY <1>1, <1>2, <1>3, <1>4, <1>6, <1>7, <1>9, <2>1, <2>2, <2>3 DEF h, kid
  <1> QED
    BY <1>8, <1>9 DEF Counting!Fork, Child

LEMMA ForkTypes ==
    ASSUME CountInv, NEW p \in Counting!Processes, Counting!Fork(p)
    PROVE  CountTypes' /\ CountPlaces' /\ Counting!Processes' = Counting!Processes
  <1> DEFINE h == n_i[p]
             kid == Child(p)
  <1>0. CountTypes /\ CountPlaces /\ CountFamily
    BY DEF CountInv
  <1>1. /\ h \in 1 .. n_steps /\ p \in 0 .. 2 ^ (h - 1) - 1
        /\ kid \in Counting!Processes /\ kid # p /\ kid # 0
        /\ n_pc[kid] = "none" /\ n_pc[p] = "fork"
        /\ n_pc' \in [Counting!Processes ->
                          Counting!Over \cup {"fork", "write", "wait", "lseek", "read"}]
        /\ n_i' \in [Counting!Processes -> 1 .. n_steps + 1]
        /\ \A q \in Counting!Processes \ {p, kid} : n_pc'[q] = n_pc[q] /\ n_i'[q] = n_i[q]
        /\ n_i'[p] = h + 1
        /\ UNCHANGED <<n_steps, n_skip, n_length, n_offset, n_count, n_late>>
        /\ n_failed' \in BOOLEAN
    BY ForkEffect
  <1>2. \/ n_pc'[p] = Counting!AfterStep(p, h, 1) /\ n_i'[kid] = h + 1
           /\ n_pc'[kid] = Counting!ChildAt(kid, h)
        \/ n_pc'[p] = Counting!AfterStep(p, h, -1) /\ n_pc'[kid] = "none"
    BY ForkEffect
  <1>3. Counting!Processes' = Counting!Processes
    BY <1>1 DEF Counting!Processes
  <1>4. CountTypes'
    BY <1>0, <1>1, <1>3 DEF CountTypes, Counting!Over
  <1>5. kid = p + 2 ^ (h - 1) /\ h \in Nat /\ n_steps \in Nat /\ n_skip \in Nat
    BY <1>0, <1>1 DEF Child, CountTypes
  <1>6. /\ 2 ^ (h - 1) \in Nat /\ 2 ^ h = 2 * 2 ^ (h - 1) /\ p \in Nat
    <2> HIDE DEF h
    <2> QED
      BY <1>0, <1>1, StepPowers
  <1> HIDE DEF h, kid
  <1>7. /\ n_pc'[p] = "fork" => h < n_steps
        /\ n_pc'[p] # "none" /\ (p # 0 => n_pc'[p] \notin {"wait", "lseek", "read"})
        /\ (p = 0 => n_pc'[p] # "write")
    BY <1>2, <1>5 DEF Counting!AfterStep, Counting!AfterLoop, Counting!Root
  <1>8. /\ n_pc'[kid] = "fork" => h < n_steps /\ n_i'[kid] = h + 1
        /\ n_pc'[kid] # "none" => n_i'[kid] = h + 1
        /\ n_pc'[kid] \notin {"wait", "lseek", "read"}
    BY <1>1, <1>2, <1>5 DEF Counting!ChildAt, Counting!AfterStep, Counting!AfterLoop, Counting!Root
  <1>9. CountPlaces'
    <2>0. SUFFICES /\ n_pc'[0] \notin {"none", "write"}
                   /\ \A q \in Counting!Processes :
                         /\ q # 0 => n_pc'[q] \notin {"wait", "lseek", "read"}
                         /\ n_pc'[q] = "fork" => n_i'[q] <= n_steps
                         /\ n_pc'[q] # "none" => q < 2 ^ (n_i'[q] - 1)
      BY <1>1, <1>3 DEF CountPlaces
    <2>1. n_pc'[0] \notin {"none", "write"}
      <3>1. 0 \in Counting!Processes
        BY <1>0, PowPos, PowStep DEF Counting!Processes, CountTypes
      <3> QED
        BY <3>1, <1>0, <1>1, <1>7 DEF CountPlaces
    <2>2. ASSUME NEW q \in Counting!Processes \ {p, kid}
          PROVE  /\ q # 0 => n_pc'[q] \notin {"wait", "lseek", "read"}
                 /\ n_pc'[q] = "fork" => n_i'[q] <= n_steps
                 /\ n_pc'[q] # "none" => q < 2 ^ (n_i'[q] - 1)
      BY <1>0, <1>1 DEF CountPlaces
    <2>3. h + 1 - 1 = h
      BY <1>5
    <2>4. /\ p # 0 => n_pc'[p] \notin {"wait", "lseek", "read"}
          /\ n_pc'[p] = "fork" => n_i'[p] <= n_steps
          /\ n_pc'[p] # "none" => p < 2 ^ (n_i'[p] - 1)
      BY <1>1, <1>5, <1>6, <1>7, <2>3
    <2>5. /\ kid # 0 => n_pc'[kid] \notin {"wait", "lseek", "read"}
          /\ n_pc'[kid] = "fork" => n_i'[kid] <= n_steps
          /\ n_pc'[kid] # "none" => kid < 2 ^ (n_i'[kid] - 1)
      BY <1>1, <1>5, <1>6, <1>8, <2>3
    <2> QED
      BY <2>1, <2>2, <2>4, <2>5
  <1> QED
    BY <1>3, <1>4, <1>9

LEMMA ForkFamily ==
    ASSUME CountInv, NEW p \in Counting!Processes, Counting!Fork(p)
    PROVE  CountFamily'
  <1> DEFINE h == n_i[p]
             kid == Child(p)
  <1>0. CountTypes /\ CountPlaces /\ CountFamily
    BY DEF CountInv
  <1>1. /\ h \in 1 .. n_steps /\ p \in 0 .. 2 ^ (h - 1) - 1
        /\ kid \in Counting!Processes /\ kid # p /\ kid # 0
        /\ n_pc[kid] = "none" /\ n_pc[p] = "fork"
        /\ \A q \in Counting!Processes \ {p, kid} : n_pc'[q] = n_pc[q] /\ n_i'[q] = n_i[q]
        /\ n_i'[p] = h + 1
        /\ n_steps' = n_steps
    BY ForkEffect
  <1>2. \/ (~n_failed' => ~n_failed) /\ n_pc'[kid] # "none" /\ n_i'[kid] = h + 1
        \/ n_failed' = TRUE /\ n_pc'[kid] = "none" /\ n_i'[kid] = n_i[kid]
    <2>1. Counting!ChildAt(kid, h) # "none"
      BY DEF Counting!ChildAt, Counting!AfterStep, Counting!AfterLoop
    <2> QED
      BY <2>1, ForkEffect
  <1>3. n_pc'[p] # "none"
    <2>1. \A x : Counting!AfterStep(p, h, x) # "none"
      BY DEF Counting!AfterStep, Counting!AfterLoop
    <2> QED
      BY <2>1, ForkEffect
  <1>4. kid = p + 2 ^ (h - 1) /\ h \in Nat /\ n_steps \in Nat
    BY <1>0, <1>1 DEF Child, CountTypes
  <1> HIDE DEF h, kid
  <1>5. /\ 2 ^ (h - 1) \in Nat /\ 2 ^ h = 2 * 2 ^ (h - 1) /\ p \in Nat
    BY <1>0, <1>1, StepPowers
  <1>6. SUFFICES ASSUME NEW k \in 1 .. n_steps, NEW q \in 0 .. 2 ^ (k - 1) - 1
                 PROVE  /\ n_pc'[q + 2 ^ (k - 1)] # "none" => n_pc'[q] # "none" /\ n_i'[q] > k
                        /\ ~n_failed' /\ n_pc'[q] # "none" /\ n_i'[q] > k =>
                               n_pc'[q + 2 ^ (k - 1)] # "none"
    BY <1>1 DEF CountFamily
  <1> DEFINE d == q + 2 ^ (k - 1)
  <1>7. /\ 2 ^ (k - 1) \in Nat /\ 2 ^ (k - 1) >= 1 /\ 2 ^ k = 2 * 2 ^ (k - 1)
        /\ q \in Counting!Processes /\ d \in Counting!Processes /\ q \in Nat /\ d # 0
    BY <1>0, StepPowers
  <1>8. /\ n_pc[d] # "none" => n_pc[q] # "none" /\ n_i[q] > k
        /\ ~n_failed /\ n_pc[q] # "none" /\ n_i[q] > k => n_pc[d] # "none"
    BY <1>0 DEF CountFamily
  <1>9. n_i[q] \in Nat /\ n_i[p] \in Nat /\ n_i[p] = h
    BY <1>0, <1>7 DEF CountTypes, h
  <1>10. d = kid => k = h /\ q = p
    <2>1. d \in 2 ^ (k - 1) .. 2 ^ k - 1 /\ d \in Nat
      BY <1>7
    <2>2. kid \in 2 ^ (h - 1) .. 2 ^ h - 1
      BY <1>1, <1>4, <1>5
    <2>3. SUFFICES ASSUME d = kid PROVE k = h /\ q = p
      OBVIOUS
    <2>4. k = h
      BY <2>1, <2>2, <2>3, <1>1, OneHighestBit
    <2> QED
      BY <2>3, <2>4, <1>4, <1>5, <1>7
  <1>11. d = p => q # p
    BY <1>7
  <1> HIDE DEF d
  <1>12. CASE d = kid
    BY <1>1, <1>2, <1>3, <1>4, <1>9, <1>10, <1>12 DEF d
  <1>13. CASE d # kid /\ q = kid
    <2>1. k > h
      <3>1. SUFFICES ASSUME k <= h PROVE FALSE
        BY <1>4
      <3>2. 2 ^ (k - 1) <= 2 ^ (h - 1)
        BY <3>1, <1>1, PowMono
      <3> QED
        BY <3>2, <1>4, <1>5, <1>7, <1>1, <1>13
    <2>2. n_pc[d] = "none" /\ d # p
      <3>1. n_pc[d] = "none"
        BY <1>8, <1>13, <1>1
      <3> QED
        BY <3>1, <1>1
    <2>3. n_pc'[d] = "none"
      BY <2>2, <1>1, <1>7, <1>13
    <2>4. n_pc'[q] # "none" => n_i'[q] = h + 1
      BY <1>2, <1>13
    <2> QED
      BY <2>1, <2>3, <2>4, <1>4 DEF d
  <1>14. CASE d # kid /\ q # kid /\ q # p
    <2>1. n_pc'[q] = n_pc[q] /\ n_i'[q] = n_i[q]
      BY <1>1, <1>7, <1>14
    <2>2. n_pc'[d] # "none" <=> n_pc[d] # "none"
      BY <1>1, <1>3, <1>7, <1>14
    <2> QED
      BY <2>1, <2>2, <1>2, <1>8 DEF d
  <1>15. CASE d # kid /\ q = p
    <2>1. k # h
      BY <1>4, <1>15 DEF d
    <2>2. n_pc'[d] = n_pc[d]
      BY <1>1, <1>7, <1>11, <1>15
    <2>3. n_pc[d] # "none" => h > k
      BY <1>8, <1>9, <1>15
    <2>4. n_i'[q] > k => h > k
      BY <1>1, <1>4, <1>15, <2>1
    <2> QED
      BY <2>1, <2>2, <2>3, <2>4, <1>1, <1>2, <1>3, <1>4, <1>8, <1>9, <1>15 DEF d
  <1> QED
    BY <1>12, <1>13, <1>14, <1>15

LEMMA ForkLoop ==
    ASSUME CountInv, NEW p \in Counting!Processes, Counting!Fork(p)
    PROVE  InLoop'
  <1> DEFINE h == n_i[p]
             kid == Child(p)
  <1>0. CountTypes /\ CountPlaces /\ InLoop
    BY DEF CountInv
  <1>1. /\ h \in 1 .. n_steps /\ p \in 0 .. 2 ^ (h - 1) - 1
        /\ kid \in Counting!Processes /\ kid # p /\ kid # 0
        /\ n_pc[kid] = "none" /\ n_pc[p] = "fork"
        /\ \A q \in Counting!Processes \ {p, kid} : n_pc'[q] = n_pc[q] /\ n_i'[q] = n_i[q]
        /\ n_i'[p] = h + 1
        /\ UNCHANGED <<n_steps, n_skip>>
    BY ForkEffect
  <1>2. \/ /\ ~n_failed' => ~n_failed
           /\ n_pc'[p] = Counting!AfterStep(p, h, 1)
           /\ n_pc'[kid] = Counting!ChildAt(kid, h) /\ n_i'[kid] = h + 1
        \/ n_failed' = TRUE /\ n_pc'[p] = Counting!AfterStep(p, h, -1) /\ n_pc'[kid] = "none"
    BY ForkEffect
  <1>3. kid = p + 2 ^ (h - 1) /\ h \in Nat /\ n_steps \in Nat /\ n_skip \in Nat
    BY <1>0, <1>1 DEF Child, CountTypes
  <1> HIDE DEF h, kid
  <1>4. /\ 2 ^ (h - 1) \in Nat /\ 2 ^ h = 2 * 2 ^ (h - 1) /\ p \in Nat
        /\ kid \in 2 ^ (h - 1) .. 2 ^ h - 1 /\ kid \in Nat
    BY <1>0, <1>1, <1>3, StepPowers
  <1>5. Counting!Processes' = Counting!Processes
    BY <1>1 DEF Counting!Processes
  <1>6. /\ n_pc'[p] \notin {"none", "fork"} => n_i'[p] = n_steps + 1
        /\ ~n_failed' => n_pc'[p] # "error"
    BY <1>1, <1>2, <1>3 DEF Counting!AfterStep, Counting!AfterLoop
  <1>7. /\ n_skip = 0 => n_pc'[kid] \in {"none", "error"}
        /\ ~n_failed' /\ n_skip # 0 => n_pc'[kid] # "error"
        /\ n_skip # 0 /\ h % n_skip = 0 /\ n_pc'[kid] # "none" => n_pc'[kid] # "fork" /\ n_i'[kid] = h + 1
        /\ n_skip # 0 /\ h % n_skip # 0 /\ n_pc'[kid] \notin {"none", "fork"} =>
               n_i'[kid] = n_steps + 1
    <2>1. CASE n_pc'[kid] = "none" /\ n_failed'
      BY <2>1
    <2>2. CASE n_pc'[kid] = Counting!ChildAt(kid, h) /\ n_i'[kid] = h + 1 /\ n_skip = 0
      BY <2>2 DEF Counting!ChildAt
    <2>3. CASE n_pc'[kid] = Counting!ChildAt(kid, h) /\ n_i'[kid] = h + 1 /\ n_skip # 0 /\ h % n_skip = 0
      BY <2>3 DEF Counting!ChildAt, Counting!AfterLoop
    <2>4. CASE n_pc'[kid] = Counting!ChildAt(kid, h) /\ n_i'[kid] = h + 1 /\ n_skip # 0 /\ h % n_skip # 0
      <3>1. n_pc'[kid] = Counting!AfterStep(kid, h, 0)
        BY <2>4 DEF Counting!ChildAt
      <3> QED
        BY <2>4, <3>1, <1>1, <1>3 DEF Counting!AfterStep, Counting!AfterLoop
    <2> QED
      BY <1>2, <2>1, <2>2, <2>3, <2>4
  <1>8. \A q \in Counting!Processes \ {p, kid} : n_pc'[q] = n_pc[q] /\ n_i'[q] = n_i[q]
    BY <1>1
  <1>9. \A b \in 1 .. n_steps : \A q : LeftAt(q, b)' <=> LeftAt(q, b)
    BY <1>1 DEF LeftAt
  <1>10. ASSUME NEW b \in 1 .. n_steps, NEW q \in Counting!Processes, LeftAt(q, b),
                n_pc'[q] # "none"
         PROVE  n_pc'[q] # "fork" /\ n_i'[q] = b + 1
    <2>1. CASE q = kid
      <3>1. b = h
        <4>1. b \in Nat \ {0} /\ h \in Nat \ {0}
          BY <1>1, <1>3
        <4>2. kid \in 2 ^ (b - 1) .. 2 ^ b - 1
          BY <1>10, <2>1 DEF LeftAt
        <4> QED
          BY <4>1, <4>2, <1>4, OneHighestBit
      <3> QED
        BY <1>7, <1>10, <2>1, <3>1 DEF LeftAt
    <2>2. q # p
      BY <1>0, <1>1, <1>10 DEF InLoop
    <2>3. CASE q # kid
      BY <1>0, <1>8, <1>10, <2>2, <2>3 DEF InLoop
    <2> QED
      BY <2>1, <2>3
  <1>11. ASSUME NEW q \in Counting!Processes, n_pc'[q] \notin {"none", "fork"}
         PROVE  \/ n_i'[q] = n_steps + 1 \/ \E b \in 1 .. n_steps : LeftAt(q, b)
                \/ n_skip = 0 /\ q # 0
    <2>1. CASE q = p
      BY <1>6, <1>11, <2>1
    <2>2. CASE q = kid
      <3>1. n_skip # 0 /\ h % n_skip = 0 => LeftAt(kid, h)
        BY <1>4 DEF LeftAt
      <3> QED
        BY <1>1, <1>7, <1>11, <2>2, <3>1
    <2>3. CASE q \notin {p, kid}
      BY <1>0, <1>8, <1>11, <2>3 DEF InLoop
    <2> QED
      BY <2>1, <2>2, <2>3
  <1>12. ASSUME NEW q \in Counting!Processes, q # 0, n_skip = 0
         PROVE  n_pc'[q] \in {"none", "error"}
    <2>1. q # p
      BY <1>0, <1>1, <1>12 DEF InLoop
    <2> QED
      BY <2>1, <1>0, <1>7, <1>8, <1>12 DEF InLoop
  <1>13. ASSUME NEW q \in Counting!Processes, ~n_failed', n_skip # 0 \/ q = 0
         PROVE  n_pc'[q] # "error"
    BY <1>0, <1>1, <1>2, <1>6, <1>7, <1>8, <1>13 DEF InLoop
  <1> QED
    BY <1>1, <1>5, <1>9, <1>10, <1>11, <1>12, <1>13 DEF InLoop

LEMMA ForkFile ==
    ASSUME CountInv, NEW p \in Counting!Processes, Counting!Fork(p)
    PROVE  InFile'
  <1> DEFINE h == n_i[p]
             kid == Child(p)
  <1>0. CountTypes /\ CountPlaces /\ InFile
    BY DEF CountInv
  <1>1. /\ h \in 1 .. n_steps /\ kid \in Counting!Processes /\ kid # p /\ kid # 0
        /\ n_pc[kid] = "none" /\ n_pc[p] = "fork"
        /\ \A q \in Counting!Processes \ {p, kid} : n_pc'[q] = n_pc[q]
        /\ UNCHANGED <<n_steps, n_skip, n_length, n_offset, n_count, n_late>>
    BY ForkEffect
  <1>2. /\ \/ n_pc'[p] = Counting!AfterStep(p, h, 1)
           \/ n_pc'[p] = Counting!AfterStep(p, h, -1)
        /\ n_pc'[kid] \in {"none", Counting!ChildAt(kid, h)}
    BY ForkEffect
  <1> HIDE DEF h, kid
  <1>3. /\ n_pc'[p] \notin {"none", "ended", "read"} /\ n_pc'[kid] # "ended"
        /\ p = 0 => n_pc'[p] # "write"
    BY <1>2 DEF Counting!AfterStep, Counting!AfterLoop, Counting!ChildAt, Counting!Root
  <1>4. Counting!Stars' = Counting!Stars /\ Counting!Processes' = Counting!Processes
    <2>1. Counting!Processes' = Counting!Processes
      BY <1>1 DEF Counting!Processes
    <2>2. \A q \in Counting!Processes : n_pc'[q] = "ended" <=> n_pc[q] = "ended"
      BY <1>1, <1>3
    <2> QED
      BY <2>1, <2>2 DEF Counting!Stars
  <1>5. 0 \in Counting!Processes /\ n_pc[0] \notin {"none", "write"}
    BY <1>0, PowPos, PowStep DEF CountPlaces, Counting!Processes, CountTypes
  <1>6. CASE p = 0
    <2>1. n_pc'[0] \in {"fork", "wait", "error"}
      BY <1>2, <1>6 DEF Counting!AfterStep, Counting!AfterLoop, Counting!Root
    <2>2. n_offset = n_length /\ n_length = Cardinality(Counting!Stars) /\ n_count = 0
      BY <1>0, <1>1, <1>6 DEF InFile
    <2> QED
      BY <2>1, <2>2, <1>0, <1>1, <1>4 DEF InFile, CountTypes
  <1>7. CASE p # 0
    <2>1. n_pc'[0] = n_pc[0]
      BY <1>1, <1>5, <1>7
    <2>2. ~(n_pc[0] \in {"read", "ended"} /\ ~n_late)
      BY <1>0, <1>1, <1>7 DEF InFile, Counting!Over
    <2> QED
      BY <2>1, <2>2, <1>0, <1>1, <1>4 DEF InFile
  <1> QED
    BY <1>6, <1>7

\* A process that writes its star.
LEMMA StarInv ==
    ASSUME CountInv, NEW p \in Counting!Processes, Counting!Star(p)
    PROVE  CountInv'
  <1>0. CountTypes /\ CountPlaces /\ CountFamily /\ InLoop /\ InFile
    BY DEF CountInv
  <1>1. /\ n_pc[p] = "write" /\ n_pc' = [n_pc EXCEPT ![p] = "ended"]
        /\ n_offset' = n_offset + 1
        /\ n_length' = IF n_offset + 1 > n_length THEN n_offset + 1 ELSE n_length
        /\ UNCHANGED <<n_steps, n_skip, n_i, n_count, n_late, n_failed>>
    BY DEF Counting!Star
  <1>2. Counting!Processes' = Counting!Processes
    BY <1>1 DEF Counting!Processes
  <1>3. 0 \in Counting!Processes /\ n_pc[0] \notin {"none", "write"} /\ p # 0
    BY <1>0, <1>1, PowPos, PowStep DEF CountPlaces, Counting!Processes, CountTypes
  <1>4. n_pc'[p] = "ended" /\ \A q \in Counting!Processes \ {p} : n_pc'[q] = n_pc[q]
    BY <1>0, <1>1 DEF CountTypes
  <1>5. CountTypes'
    <2>1. n_pc' \in [Counting!Processes ->
                         Counting!Over \cup {"fork", "write", "wait", "lseek", "read"}]
      BY <1>0, <1>1 DEF CountTypes, Counting!Over
    <2> QED
      BY <2>1, <1>0, <1>1, <1>2 DEF CountTypes
  <1>6. CountPlaces'
    BY <1>0, <1>1, <1>2, <1>3, <1>4 DEF CountPlaces
  <1>7. CountFamily'
    <2>1. \A q \in Counting!Processes : n_pc'[q] = "none" <=> n_pc[q] = "none"
      BY <1>1, <1>4
    <2>2. \A h \in 1 .. n_steps : \A q \in 0 .. 2 ^ (h - 1) - 1 :
              q \in Counting!Processes /\ q + 2 ^ (h - 1) \in Counting!Processes
      BY <1>0, StepPowers
    <2> QED
      BY <2>1, <2>2, <1>0, <1>1 DEF CountFamily
  <1>8. InLoop'
    <2>1. \A b, q : LeftAt(q, b)' <=> LeftAt(q, b)
      BY <1>1 DEF LeftAt
    <2>2. ASSUME NEW b \in 1 .. n_steps, NEW q \in Counting!Processes, LeftAt(q, b),
                 n_pc'[q] # "none"
          PROVE  n_pc'[q] # "fork" /\ n_i'[q] = b + 1
      BY <1>0, <1>1, <1>4, <2>2 DEF InLoop
    <2>3. ASSUME NEW q \in Counting!Processes, n_pc'[q] \notin {"none", "fork"}
          PROVE  \/ n_i'[q] = n_steps + 1 \/ \E b \in 1 .. n_steps : LeftAt(q, b)
                 \/ n_skip = 0 /\ q # 0
      BY <1>0, <1>1, <1>4, <2>3 DEF InLoop
    <2>4. ASSUME NEW q \in Counting!Processes
          PROVE  /\ q # 0 /\ n_skip = 0 => n_pc'[q] \in {"none", "error"}
                 /\ ~n_failed /\ (n_skip # 0 \/ q = 0) => n_pc'[q] # "error"
      BY <1>0, <1>1, <1>3, <1>4 DEF InLoop
    <2> QED
      BY <1>1, <1>2, <2>1, <2>2, <2>3, <2>4 DEF InLoop
  <1>9. InFile'
    <2>1. Counting!Stars' = Counting!Stars \cup {p} /\ p \notin Counting!Stars
      BY <1>1, <1>2, <1>3, <1>4 DEF Counting!Stars, Counting!Root
    <2>2. IsFiniteSet(Counting!Stars)
      <3>1. 2 ^ n_steps \in Nat
        BY <1>0, PowStep DEF CountTypes
      <3>2. IsFiniteSet(Counting!Processes)
        BY <3>1, FS_Interval DEF Counting!Processes
      <3> QED
        BY <3>2, FS_Subset DEF Counting!Stars
    <2>3. /\ Cardinality(Counting!Stars)' = Cardinality(Counting!Stars) + 1
          /\ Cardinality(Counting!Stars) \in Nat
      BY <2>1, <2>2, FS_AddElement, FS_CardinalityType
    <2>4. n_pc'[0] = n_pc[0]
      BY <1>3, <1>4
    <2>5. ~(n_pc[0] \in {"read", "ended"} /\ ~n_late)
      BY <1>0, <1>1, <1>3 DEF InFile, Counting!Over
    <2>6. n_length \in Nat /\ n_offset \in Nat /\ n_count \in Nat
      BY <1>0 DEF CountTypes
    <2> QED
      BY <2>3, <2>4, <2>5, <2>6, <1>0, <1>1 DEF InFile
  <1> QED
    BY <1>5, <1>6, <1>7, <1>8, <1>9 DEF CountInv

\* A step of the root after its loop.
LEMMA RootInv ==
    ASSUME CountInv, Counting!RootStep
    PROVE  CountInv'
  <1>0. CountTypes /\ CountPlaces /\ CountFamily /\ InLoop /\ InFile
    BY DEF CountInv
  <1>1. 0 \in Counting!Processes
    BY <1>0, PowPos, PowStep DEF Counting!Processes, CountTypes
  <1>2. /\ n_pc[0] \in {"wait", "lseek", "read"}
        /\ n_pc' \in {n_pc, [n_pc EXCEPT ![0] = "lseek"], [n_pc EXCEPT ![0] = "read"],
                      [n_pc EXCEPT ![0] = "ended"]}
        /\ UNCHANGED <<n_steps, n_skip, n_i, n_length, n_failed>>
    BY DEF Counting!RootStep, Counting!Wait, Counting!Lseek, Counting!Read, Counting!Root
  <1>3. Counting!Processes' = Counting!Processes
    BY <1>2 DEF Counting!Processes
  <1>4. /\ n_pc'[0] \in {"wait", "lseek", "read", "ended"}
        /\ \A q \in Counting!Processes \ {0} : n_pc'[q] = n_pc[q]
    BY <1>0, <1>1, <1>2 DEF CountTypes
  <1>5. CountTypes'
    <2>1. n_pc' \in [Counting!Processes ->
                         Counting!Over \cup {"fork", "write", "wait", "lseek", "read"}]
      BY <1>0, <1>2 DEF CountTypes, Counting!Over
    <2>2. n_offset' \in Nat /\ n_count' \in Nat /\ n_late' \in BOOLEAN
      <3>1. CASE Counting!Lseek
        <4>1. n_late' \in BOOLEAN
          BY <3>1 DEF Counting!Lseek
        <4> QED
          BY <3>1, <4>1, <1>0 DEF CountTypes, Counting!Lseek
      <3>2. CASE Counting!Wait \/ Counting!Read
        BY <3>2, <1>0 DEF CountTypes, Counting!Wait, Counting!Read
      <3> QED
        BY <3>1, <3>2 DEF Counting!RootStep
    <2> QED
      BY <2>1, <2>2, <1>0, <1>2, <1>3 DEF CountTypes
  <1>6. CountPlaces'
    <2>1. ASSUME NEW q \in Counting!Processes
          PROVE  /\ q # 0 => n_pc'[q] \notin {"wait", "lseek", "read"}
                 /\ n_pc'[q] = "fork" => n_i'[q] <= n_steps
                 /\ n_pc'[q] # "none" => q < 2 ^ (n_i'[q] - 1)
      BY <1>0, <1>2, <1>4 DEF CountPlaces
    <2> QED
      BY <2>1, <1>2, <1>3, <1>4 DEF CountPlaces
  <1>7. CountFamily'
    <2>1. \A q \in Counting!Processes : n_pc'[q] = "none" <=> n_pc[q] = "none"
      BY <1>2, <1>4
    <2>2. \A h \in 1 .. n_steps : \A q \in 0 .. 2 ^ (h - 1) - 1 :
              q \in Counting!Processes /\ q + 2 ^ (h - 1) \in Counting!Processes
      BY <1>0, StepPowers
    <2> QED
      BY <2>1, <2>2, <1>0, <1>2 DEF CountFamily
  <1>8. InLoop'
    <2>1. \A b, q : LeftAt(q, b)' <=> LeftAt(q, b)
      BY <1>2 DEF LeftAt
    <2>2. ASSUME NEW b \in 1 .. n_steps, NEW q \in Counting!Processes, LeftAt(q, b),
                 n_pc'[q] # "none"
          PROVE  n_pc'[q] # "fork" /\ n_i'[q] = b + 1
      BY <1>0, <1>2, <1>4, <2>2 DEF InLoop
    <2>3. ASSUME NEW q \in Counting!Processes, n_pc'[q] \notin {"none", "fork"}
          PROVE  \/ n_i'[q] = n_steps + 1 \/ \E b \in 1 .. n_steps : LeftAt(q, b)
                 \/ n_skip = 0 /\ q # 0
      BY <1>0, <1>2, <1>4, <2>3 DEF InLoop
    <2>4. ASSUME NEW q \in Counting!Processes
          PROVE  /\ q # 0 /\ n_skip = 0 => n_pc'[q] \in {"none", "error"}
                 /\ ~n_failed /\ (n_skip # 0 \/ q = 0) => n_pc'[q] # "error"
      BY <1>0, <1>2, <1>4 DEF InLoop
    <2> QED
      BY <1>2, <1>3, <2>1, <2>2, <2>3, <2>4 DEF InLoop
  <1>9. InFile'
    <2>1. Counting!Stars' = Counting!Stars
      BY <1>3, <1>4 DEF Counting!Stars, Counting!Root
    <2>2. Cardinality(Counting!Stars) \in Nat
      <3>1. 2 ^ n_steps \in Nat
        BY <1>0, PowStep DEF CountTypes
      <3>2. IsFiniteSet(Counting!Processes)
        BY <3>1, FS_Interval DEF Counting!Processes
      <3>3. IsFiniteSet(Counting!Stars)
        BY <3>2, FS_Subset DEF Counting!Stars
      <3> QED
        BY <3>3, FS_CardinalityType
    <2>3. n_length \in Nat /\ n_offset \in Nat /\ n_count \in Nat /\ n_late \in BOOLEAN
      BY <1>0 DEF CountTypes
    <2>4. CASE Counting!Wait
      <3>1. n_pc'[0] = "lseek" /\ UNCHANGED <<n_offset, n_count, n_late>> /\ n_pc[0] = "wait"
        BY <2>4, <1>0, <1>1 DEF Counting!Wait, CountTypes, Counting!Root
      <3> QED
        BY <3>1, <2>1, <1>0, <1>2 DEF InFile
    <2>5. CASE Counting!Lseek
      <3>1. /\ n_pc'[0] = "read" /\ n_offset' = 0 /\ UNCHANGED n_count /\ n_pc[0] = "lseek"
            /\ n_late' = (\E q \in Counting!Processes \ {0} : n_pc[q] \notin Counting!Over)
        BY <2>5, <1>0, <1>1 DEF Counting!Lseek, CountTypes, Counting!Root
      <3>2. n_length = Cardinality(Counting!Stars) /\ n_count = 0
        BY <3>1, <1>0 DEF InFile
      <3>3. ~n_late' => \A q \in Counting!Processes \ {0} : n_pc'[q] \in Counting!Over
        BY <3>1, <1>4
      <3> QED
        BY <3>1, <3>2, <3>3, <2>1, <2>3, <1>2, <1>3 DEF InFile, Counting!Over
    <2>6. CASE Counting!Read
      <3>1. /\ n_pc[0] = "read" /\ n_count' = n_count + 1 /\ UNCHANGED n_late
            /\ IF n_offset < n_length
               THEN n_offset' = n_offset + 1 /\ n_pc'[0] = "read"
               ELSE n_offset' = n_offset /\ n_pc'[0] = "ended"
        BY <2>6, <1>0, <1>1 DEF Counting!Read, CountTypes, Counting!Root
      <3>2. n_count <= n_offset /\ n_offset <= n_length /\ n_length <= Cardinality(Counting!Stars)
        BY <3>1, <1>0 DEF InFile
      <3>3. ~n_late => n_length = Cardinality(Counting!Stars) /\ n_count = n_offset
        BY <3>1, <1>0 DEF InFile
      <3>4. ~n_late => \A q \in Counting!Processes \ {0} : n_pc'[q] \in Counting!Over
        BY <3>1, <1>0, <1>4 DEF InFile
      <3>5. CASE n_offset < n_length
        BY <3>1, <3>2, <3>3, <3>4, <3>5, <2>1, <2>2, <2>3, <1>2, <1>3 DEF InFile, Counting!Over
      <3>6. CASE n_offset >= n_length
        BY <3>1, <3>2, <3>3, <3>4, <3>6, <2>1, <2>2, <2>3, <1>2, <1>3 DEF InFile, Counting!Over
      <3> QED
        BY <3>5, <3>6, <2>3
    <2> QED
      BY <2>4, <2>5, <2>6 DEF Counting!RootStep
  <1> QED
    BY <1>5, <1>6, <1>7, <1>8, <1>9 DEF CountInv

LEMMA CountStep == ASSUME CountInv, Counting!Next PROVE CountInv'
  <1>1. ASSUME NEW p \in Counting!Processes, Counting!Fork(p) PROVE CountInv'
    BY <1>1, ForkTypes, ForkFamily, ForkLoop, ForkFile DEF CountInv
  <1> QED
    BY <1>1, StarInv, RootInv DEF Counting!Next, Counting!Step

LEMMA CountStutter == ASSUME CountInv, UNCHANGED countVars PROVE CountInv'
  <1>1. UNCHANGED <<n_steps, n_skip, n_pc, n_i, n_length, n_offset, n_count, n_late, n_failed>>
    BY DEF countVars
  <1>2. UNCHANGED <<Counting!Processes, Counting!Stars>>
    BY <1>1 DEF Counting!Processes, Counting!Stars
  <1>3. \A p, b : LeftAt(p, b)' <=> LeftAt(p, b)
    BY <1>1 DEF LeftAt
  <1>4. CountTypes' /\ CountPlaces' /\ CountFamily'
    BY <1>1, <1>2 DEF CountInv, CountTypes, CountPlaces, CountFamily, Counting!Over
  <1>5. InLoop'
    BY <1>1, <1>2, <1>3 DEF CountInv, InLoop
  <1>6. InFile'
    BY <1>1, <1>2 DEF CountInv, InFile, Counting!Over
  <1> QED
    BY <1>4, <1>5, <1>6 DEF CountInv

LEMMA StarsFinite ==
    ASSUME CountInv
    PROVE  /\ IsFiniteSet(Counting!Stars) /\ Cardinality(Counting!Stars) \in Nat
           /\ Cardinality(Counting!Stars) <= 2 ^ n_steps - 1
  <1>1. 2 ^ n_steps \in Nat /\ 2 ^ n_steps >= 1
    BY PowStep, PowPos DEF CountInv, CountTypes
  <1>2. IsFiniteSet(1 .. 2 ^ n_steps - 1) /\ Cardinality(1 .. 2 ^ n_steps - 1) = 2 ^ n_steps - 1
    BY <1>1, UpTo
  <1>3. Counting!Stars \in SUBSET (1 .. 2 ^ n_steps - 1)
    BY <1>1 DEF Counting!Stars, Counting!Processes, Counting!Root
  <1>4. IsFiniteSet(Counting!Stars) /\ Cardinality(Counting!Stars) <= 2 ^ n_steps - 1
    BY <1>2, <1>3, FS_Subset
  <1> QED
    BY <1>4, FS_CardinalityType

LEMMA CountTypeOK == CountInv => Counting!TypeOK
  <1> SUFFICES ASSUME CountInv PROVE Counting!TypeOK
    OBVIOUS
  <1>1. CountTypes /\ InFile
    BY DEF CountInv
  <1>2. 2 ^ n_steps \in Nat /\ 2 ^ n_steps >= 1
    BY <1>1, PowStep, PowPos DEF CountTypes
  <1>3. /\ n_offset \in 0 .. n_length /\ n_length \in 0 .. 2 ^ n_steps
        /\ n_length <= Cardinality(Counting!Stars)
    BY <1>1, <1>2, StarsFinite DEF CountTypes, InFile
  <1>4. n_count <= Cardinality(Counting!Stars) + 1
    <2>1. 0 \in Counting!Processes /\ n_pc[0] \in {"fork", "wait", "lseek", "error", "read", "ended"}
      BY <1>1, <1>2 DEF CountInv, CountTypes, CountPlaces, Counting!Processes, Counting!Over
    <2> QED
      BY <2>1, <1>1, <1>3, StarsFinite DEF InFile, CountTypes
  <1> QED
    BY <1>1, <1>2, <1>3, <1>4, StarsFinite DEF CountTypes, Counting!TypeOK

\* What is left of a run in which no fork has failed, when the root has read the file and
\* nobody was late: who exists has written, and was in the loop to its end unless it left
\* it at a skip-th step.
Complete ==
    /\ n_skip # 0
    /\ \A p \in Counting!Processes : p # 0 => n_pc[p] \in {"none", "ended"}
    /\ \A h \in 1 .. n_steps : \A p \in 0 .. 2 ^ (h - 1) - 1 :
           n_pc[p + 2 ^ (h - 1)] = "ended" <=>
               (p = 0 \/ n_pc[p] = "ended") /\ \A b \in 1 .. n_steps : ~LeftAt(p, b)

LEMMA EndIsComplete ==
    ASSUME CountInv, n_pc[0] = "ended", ~n_late, ~n_failed, n_skip # 0
    PROVE  Complete
  <1>0. CountTypes /\ CountPlaces /\ CountFamily /\ InLoop /\ InFile
    BY DEF CountInv
  <1>1. \A p \in Counting!Processes : p # 0 => n_pc[p] \in {"none", "ended"}
    BY <1>0 DEF InFile, InLoop, Counting!Over
  <1>2. ASSUME NEW h \in 1 .. n_steps, NEW p \in 0 .. 2 ^ (h - 1) - 1
        PROVE  n_pc[p + 2 ^ (h - 1)] = "ended" <=>
                   (p = 0 \/ n_pc[p] = "ended") /\ \A b \in 1 .. n_steps : ~LeftAt(p, b)
    <2> DEFINE d == p + 2 ^ (h - 1)
    <2>1. /\ h - 1 \in Nat /\ 2 ^ (h - 1) \in Nat /\ 2 ^ (h - 1) >= 1
          /\ p \in Counting!Processes /\ d \in Counting!Processes /\ d # 0 /\ p \in Nat
          /\ h \in Nat /\ n_steps \in Nat
      BY <1>0, StepPowers DEF CountTypes
    <2>2. n_pc[d] # "none" <=> n_pc[p] # "none" /\ n_i[p] > h
      BY <1>0 DEF CountFamily
    <2>3. n_pc[d] = "ended" <=> n_pc[d] # "none"
      BY <1>1, <2>1
    <2>4. n_pc[p] # "none" <=> p = 0 \/ n_pc[p] = "ended"
      BY <1>1, <2>1
    <2>5. n_pc[p] # "none" => n_pc[p] = "ended"
      BY <1>1, <2>1
    <2>6. ASSUME n_pc[p] # "none", NEW b \in 1 .. n_steps, LeftAt(p, b) PROVE ~(n_i[p] > h)
      <3>1. n_i[p] = b + 1
        BY <1>0, <2>1, <2>6 DEF InLoop
      <3>2. b < h
        <4>1. SUFFICES ASSUME h <= b PROVE FALSE
          BY <2>1
        <4>2. 2 ^ (h - 1) <= 2 ^ (b - 1) /\ 2 ^ (b - 1) \in Nat
          BY <2>1, <4>1, PowMono, PowStep
        <4> QED
          BY <2>1, <2>6, <4>2 DEF LeftAt
      <3> QED
        BY <2>1, <3>1, <3>2
    <2>7. ASSUME n_pc[p] # "none", \A b \in 1 .. n_steps : ~LeftAt(p, b) PROVE n_i[p] > h
      <3>1. n_i[p] = n_steps + 1
        BY <1>0, <2>1, <2>5, <2>7 DEF InLoop
      <3> QED
        BY <2>1, <3>1
    <2> HIDE DEF d
    <2>8. n_pc[d] = "ended" <=>
              (p = 0 \/ n_pc[p] = "ended") /\ \A b \in 1 .. n_steps : ~LeftAt(p, b)
      BY <2>2, <2>3, <2>4, <2>6, <2>7
    <2> QED
      BY <2>8 DEF d
  <1> QED
    BY <1>1, <1>2 DEF Complete

\* As long as no step is a skip-th one, every process forks.
LEMMA AllBefore ==
    ASSUME CountTypes, Complete, NEW m \in 0 .. n_steps, m <= n_skip
    PROVE  \A q \in 1 .. 2 ^ m - 1 : n_pc[q] = "ended"
  <1> DEFINE S == {k \in Nat : k <= m => \A q \in 1 .. 2 ^ k - 1 : n_pc[q] = "ended"}
  <1>0. m \in Nat /\ n_steps \in Nat /\ n_skip \in Nat
    BY DEF CountTypes
  <1>1. 0 \in S
    BY PowZero
  <1>2. \A k \in Nat : k \in S => k + 1 \in S
    <2> TAKE k \in Nat
    <2> HAVE k \in S
    <2>1. SUFFICES ASSUME k + 1 <= m, NEW q \in 1 .. 2 ^ (k + 1) - 1 PROVE n_pc[q] = "ended"
      OBVIOUS
    <2>2. /\ 2 ^ k \in Nat /\ 2 ^ (k + 1) \in Nat /\ 2 ^ (k + 1) = 2 * 2 ^ k
          /\ (k + 1) - 1 = k /\ k + 1 \in 1 .. n_steps
      BY <1>0, <2>1, PowStep
    <2>3. CASE q < 2 ^ k
      BY <1>0, <2>1, <2>2, <2>3
    <2>4. CASE q >= 2 ^ k
      <3> DEFINE p == q - 2 ^ k
      <3>1. p \in 0 .. 2 ^ k - 1 /\ p + 2 ^ k = q
        BY <2>2, <2>4
      <3>2. p = 0 \/ n_pc[p] = "ended"
        BY <1>0, <2>1, <2>2, <3>1
      <3>3. ASSUME NEW b \in 1 .. n_steps, LeftAt(p, b) PROVE FALSE
        <4>1. b <= k
          <5>1. SUFFICES ASSUME k + 1 <= b PROVE FALSE
            BY <1>0
          <5>2. 2 ^ k <= 2 ^ (b - 1) /\ 2 ^ (b - 1) \in Nat
            BY <1>0, <5>1, PowMono, PowStep
          <5> QED
            BY <3>1, <3>3, <5>2, <2>2 DEF LeftAt
        <4>2. b \in 1 .. n_skip - 1
          BY <4>1, <1>0, <2>1
        <4>3. b % n_skip = b
          BY <4>2, <1>0
        <4> QED
          BY <3>3, <4>2, <4>3 DEF LeftAt
      <3> HIDE DEF p
      <3>4. n_pc[p + 2 ^ ((k + 1) - 1)] = "ended"
        BY <2>2, <3>1, <3>2, <3>3 DEF Complete
      <3> QED
        BY <2>2, <3>1, <3>4
    <2> QED
      BY <2>2, <2>3, <2>4
  <1>3. Nat \subseteq S
    <2> HIDE DEF S
    <2> QED
      BY <1>1, <1>2, NatSetInduction
  <1> QED
    BY <1>0, <1>3

\* With a skip of 1 the root alone forks.
LEMMA RootForks ==
    ASSUME CountTypes, Complete, n_skip = 1
    PROVE  Cardinality(Counting!Stars) = n_steps
  <1> DEFINE f == [h \in 1 .. n_steps |-> 2 ^ (h - 1)]
  <1>0. n_steps \in Nat
    BY DEF CountTypes
  <1>1. \A h \in 1 .. n_steps : /\ h - 1 \in Nat /\ 2 ^ (h - 1) \in Nat /\ 2 ^ (h - 1) >= 1
                                /\ 2 ^ h \in Nat /\ 2 ^ h = 2 * 2 ^ (h - 1)
                                /\ 2 ^ (h - 1) \in Counting!Processes
    <2> TAKE h \in 1 .. n_steps
    <2>1. /\ 2 ^ (h - 1) \in Nat /\ 2 ^ (h - 1) >= 1 /\ 2 ^ h = 2 * 2 ^ (h - 1)
          /\ 0 + 2 ^ (h - 1) \in Counting!Processes
      BY StepPowers
    <2> QED
      BY <2>1, <1>0
  <1>2. f \in [1 .. n_steps -> Counting!Stars]
    <2> SUFFICES ASSUME NEW h \in 1 .. n_steps PROVE 2 ^ (h - 1) \in Counting!Stars
      OBVIOUS
    <2>1. \A b \in 1 .. n_steps : ~LeftAt(0, b)
      BY <1>1 DEF LeftAt
    <2>2. n_pc[0 + 2 ^ (h - 1)] = "ended"
      BY <1>1, <2>1 DEF Complete
    <2> QED
      BY <1>1, <2>2 DEF Counting!Stars, Counting!Root
  <1>3. ASSUME NEW h \in 1 .. n_steps, NEW k \in 1 .. n_steps, f[h] = f[k] PROVE h = k
    <2>1. 2 ^ (h - 1) \in 2 ^ (h - 1) .. 2 ^ h - 1 /\ 2 ^ (h - 1) \in 2 ^ (k - 1) .. 2 ^ k - 1
      BY <1>1, <1>3
    <2>2. h \in Nat \ {0} /\ k \in Nat \ {0} /\ 2 ^ (h - 1) \in Nat
      BY <1>0, <1>1
    <2> QED
      BY <2>1, <2>2, OneHighestBit
  <1>4. ASSUME NEW q \in Counting!Stars PROVE \E h \in 1 .. n_steps : f[h] = q
    <2>1. 2 ^ n_steps \in Nat /\ q \in 1 .. 2 ^ n_steps - 1 /\ n_pc[q] = "ended"
      BY <1>0, PowStep DEF Counting!Stars, Counting!Processes, Counting!Root
    <2>2. PICK h \in 1 .. n_steps : q \in 2 ^ (h - 1) .. 2 ^ h - 1
      BY <1>0, <2>1, HighestBit
    <2> DEFINE p == q - 2 ^ (h - 1)
    <2>3. p \in 0 .. 2 ^ (h - 1) - 1 /\ p + 2 ^ (h - 1) = q
      BY <1>1, <2>2
    <2>4. \A b \in 1 .. n_steps : ~LeftAt(p, b)
      BY <2>1, <2>3 DEF Complete
    <2>5. p = 0
      <3>1. SUFFICES ASSUME p # 0 PROVE FALSE
        OBVIOUS
      <3>2. h - 1 \in Nat /\ p \in 1 .. 2 ^ (h - 1) - 1
        BY <1>1, <2>3, <3>1
      <3>3. PICK b \in 1 .. h - 1 : p \in 2 ^ (b - 1) .. 2 ^ b - 1
        BY <3>2, HighestBit
      <3>4. b \in 1 .. n_steps /\ b % 1 = 0
        BY <1>0
      <3> QED
        BY <2>4, <3>3, <3>4 DEF LeftAt
    <2> QED
      BY <1>1, <2>3, <2>5
  <1>5. f \in Bijection(1 .. n_steps, Counting!Stars)
    BY <1>2, <1>3, <1>4 DEF Bijection, Injection, IsInjective, Surjection
  <1> HIDE DEF f
  <1>6. IsFiniteSet(1 .. n_steps) /\ Cardinality(1 .. n_steps) = n_steps
    BY <1>0, UpTo
  <1> QED
    BY <1>5, <1>6, FS_Bijection DEF ExistsBijection

\* With a skip that is one less than the steps, those do not fork in the last step that
\* have left the loop in the one before.
LEMMA AllButAQuarter ==
    ASSUME CountTypes, Complete, n_skip > 1, n_steps = n_skip + 1
    PROVE  Cardinality(Counting!Stars) + 1 = (3 * 2 ^ n_steps) \div 4
  <1> DEFINE Q == 2 ^ (n_skip - 1)
  <1>1. n_steps \in Nat /\ n_skip \in Nat /\ n_skip - 1 \in Nat /\ n_skip \in 0 .. n_steps
    BY DEF CountTypes
  <1>2. /\ Q \in Nat /\ Q >= 1 /\ 2 ^ n_skip = 2 * Q /\ 2 ^ n_steps = 4 * Q
    <2>1. 2 ^ ((n_skip - 1) + 1) = 2 * Q /\ 2 ^ (n_skip + 1) = 2 * 2 ^ n_skip
      BY <1>1, PowStep
    <2>2. (n_skip - 1) + 1 = n_skip /\ Q \in Nat /\ Q >= 1
      BY <1>1, PowStep, PowPos
    <2> QED
      BY <2>1, <2>2
  <1>3. \A q \in 1 .. 2 * Q - 1 : n_pc[q] = "ended"
    BY <1>1, <1>2, AllBefore
  <1>4. ASSUME NEW p \in 0 .. 2 * Q - 1 PROVE n_pc[p + 2 * Q] = "ended" <=> p < Q
    <2>1. n_steps \in 1 .. n_steps /\ n_steps - 1 = n_skip
      BY <1>1
    <2>2. n_pc[p + 2 * Q] = "ended" <=>
              (p = 0 \/ n_pc[p] = "ended") /\ \A b \in 1 .. n_steps : ~LeftAt(p, b)
      BY <1>2, <2>1 DEF Complete
    <2>3. p = 0 \/ n_pc[p] = "ended"
      BY <1>2, <1>3
    <2>4. LeftAt(p, n_skip) <=> p >= Q
      <3>1. n_skip % n_skip = 0
        BY <1>1
      <3> QED
        BY <1>1, <1>2, <3>1 DEF LeftAt
    <2>5. ASSUME NEW b \in 1 .. n_steps, LeftAt(p, b) PROVE b = n_skip
      <3>1. CASE b < n_skip
        <4>1. b % n_skip = b
          BY <1>1, <3>1
        <4> QED
          BY <4>1, <2>5 DEF LeftAt
      <3>2. CASE b = n_skip + 1
        <4>1. b % n_skip = 1
          BY <1>1, <3>2
        <4> QED
          BY <4>1, <2>5 DEF LeftAt
      <3> QED
        BY <3>1, <3>2, <1>1
    <2>6. n_skip \in 1 .. n_steps
      BY <1>1
    <2> QED
      BY <1>2, <2>2, <2>3, <2>4, <2>5, <2>6
  <1> HIDE DEF Q
  <1>5. Counting!Stars = 1 .. 3 * Q - 1
    <2>1. \A q \in Counting!Processes \ {0} : q \in Int /\ q \in 1 .. 4 * Q - 1
      BY <1>2 DEF Counting!Processes
    <2>2. ASSUME NEW q \in 1 .. 4 * Q - 1 PROVE n_pc[q] = "ended" <=> q <= 3 * Q - 1
      <3>1. CASE q < 2 * Q
        BY <1>2, <1>3, <3>1
      <3>2. CASE q >= 2 * Q
        <4>1. q - 2 * Q \in 0 .. 2 * Q - 1 /\ (q - 2 * Q) + 2 * Q = q
          BY <1>2, <3>2
        <4> QED
          BY <1>2, <1>4, <4>1
      <3> QED
        BY <1>2, <3>1, <3>2
    <2>3. \A q : q \in 1 .. 4 * Q - 1 <=> q \in Counting!Processes \ {0}
      BY <1>2 DEF Counting!Processes
    <2> QED
      BY <1>2, <2>2, <2>3 DEF Counting!Stars, Counting!Root
  <1>6. Cardinality(Counting!Stars) = 3 * Q - 1
    <2>1. 3 * Q - 1 \in Nat
      BY <1>2
    <2> QED
      BY <1>5, <2>1, UpTo
  <1> QED
    BY <1>2, <1>6

LEMMA CountingCardinality == \A S : Counting!Cardinality(S) = Cardinality(S)
  BY DEF Counting!Cardinality, Cardinality

\* What the root has counted.
LEMMA CountedRight == CountInv => Counting!CountIsRight
  <1> SUFFICES ASSUME CountInv, n_pc[0] = "ended" PROVE
                  /\ n_count <= Cardinality(Counting!Stars) + 1
                  /\ ~n_late => n_count = Cardinality(Counting!Stars) + 1
                  /\ ~n_late /\ ~n_failed /\ Counting!Formula # -1 => n_count = Counting!Formula
    BY CountingCardinality DEF Counting!CountIsRight, Counting!Root
  <1>0. CountTypes /\ CountPlaces /\ InLoop /\ InFile
    BY DEF CountInv
  <1>1. n_count <= Cardinality(Counting!Stars) + 1
    BY <1>0 DEF InFile
  <1>2. ~n_late => n_count = Cardinality(Counting!Stars) + 1
    BY <1>0 DEF InFile
  <1>3. SUFFICES ASSUME ~n_late, ~n_failed, Counting!Formula # -1
                 PROVE  n_count = Counting!Formula
    BY <1>1, <1>2
  <1>4. n_steps \in Nat /\ n_skip \in Nat /\ n_late \in BOOLEAN /\ n_failed \in BOOLEAN
    BY <1>0 DEF CountTypes
  <1>5. n_skip # 0 => Complete
    BY <1>3, EndIsComplete
  <1>6. CASE n_steps = 0 \/ n_skip = 0
    <2>1. Counting!Stars = {}
      <3>1. CASE n_steps = 0
        BY <3>1, PowZero DEF Counting!Stars, Counting!Processes, Counting!Root
      <3>2. CASE n_skip = 0
        BY <3>2, <1>0 DEF Counting!Stars, Counting!Root, InLoop
      <3> QED
        BY <1>6, <3>1, <3>2
    <2>2. Counting!Formula = 1
      BY <1>4, <1>6 DEF Counting!Formula
    <2> QED
      BY <2>1, <2>2, <1>2, <1>3, FS_EmptySet
  <1>7. CASE n_steps > 0 /\ n_skip >= n_steps
    <2>1. \A q \in 1 .. 2 ^ n_steps - 1 : n_pc[q] = "ended"
      BY <1>0, <1>4, <1>5, <1>7, AllBefore
    <2>2. 2 ^ n_steps \in Nat /\ 2 ^ n_steps >= 1
      BY <1>4, PowStep, PowPos
    <2>3. Counting!Stars = 1 .. 2 ^ n_steps - 1
      BY <2>1, <2>2 DEF Counting!Stars, Counting!Processes, Counting!Root
    <2>4. 2 ^ n_steps - 1 \in Nat
      BY <2>2
    <2>5. Cardinality(Counting!Stars) = 2 ^ n_steps - 1
      BY <2>3, <2>4, UpTo
    <2>6. Counting!Formula = 2 ^ n_steps
      BY <1>4, <1>7 DEF Counting!Formula
    <2> QED
      BY <2>2, <2>5, <2>6, <1>2, <1>3
  <1>8. CASE n_skip = 1 /\ n_steps > 1
    <2>1. Counting!Formula = n_steps + 1
      BY <1>4, <1>8 DEF Counting!Formula
    <2> QED
      BY <2>1, <1>0, <1>2, <1>3, <1>5, <1>8, RootForks
  <1>9. CASE n_skip > 1 /\ n_steps = n_skip + 1
    <2>1. Counting!Formula = (3 * 2 ^ n_steps) \div 4
      BY <1>4, <1>9 DEF Counting!Formula
    <2> QED
      BY <2>1, <1>0, <1>2, <1>3, <1>5, <1>9, AllButAQuarter
  <1>10. CASE ~(\/ n_steps = 0 \/ n_skip = 0
                \/ n_steps > 0 /\ n_skip >= n_steps
                \/ n_skip = 1 /\ n_steps > 1
                \/ n_skip > 1 /\ n_steps = n_skip + 1)
    BY <1>3, <1>10 DEF Counting!Formula
  <1> QED
    BY <1>6, <1>7, <1>8, <1>9, <1>10
------------------------------------------------------------------------------
\* The vector, and its pointers in the order of the commands.
VectorInv ==
    /\ v_students \in Seq(Addresses) /\ v_given \in Seq(Addresses) /\ v_added \in Seq(Nat)
    /\ \A j \in 1 .. Len(v_added) : v_added[j] \in 1 .. Len(v_given)
    /\ v_capacity \in Nat /\ v_capacity > 0 /\ Len(v_students) <= v_capacity
    /\ Len(v_students) = Len(v_added)
    /\ \A j \in 1 .. Len(v_added) : v_students[j] = v_given[v_added[j]]
    /\ v_state \in {"running", "over"}

LEMMA VectorInit == Students!Init => VectorInv
  <1> SUFFICES ASSUME Students!Init PROVE VectorInv
    OBVIOUS
  <1>1. v_students = <<>> /\ v_added = <<>> /\ v_given = <<>> /\ v_capacity = 2 /\ v_state = "running"
    BY DEF Students!Init
  <1> QED
    BY <1>1 DEF VectorInv

\* One place less, and what is behind it moves up.
LEMMA Removed ==
    ASSUME NEW S, NEW s \in Seq(S), NEW k \in 1 .. Len(s)
    PROVE  /\ Students!RemoveAt(s, k) \in Seq(S)
           /\ Len(Students!RemoveAt(s, k)) = Len(s) - 1
           /\ \A j \in 1 .. Len(s) - 1 : Students!RemoveAt(s, k)[j] = IF j < k THEN s[j] ELSE s[j + 1]
  <1> DEFINE before == SubSeq(s, 1, k - 1)
             behind == SubSeq(s, k + 1, Len(s))
  <1>1. Len(s) \in Nat /\ k \in Nat /\ k <= Len(s) /\ k >= 1 /\ \A j \in 1 .. Len(s) : s[j] \in S
    OBVIOUS
  <1>2. /\ before \in Seq(S) /\ Len(before) = k - 1
        /\ \A j \in 1 .. k - 1 : before[j] = s[j]
    <2>1. \A j \in 1 .. k - 1 : s[j] \in S /\ 1 + j - 1 = j
      BY <1>1
    <2>2. /\ before \in Seq(S) /\ Len(before) = (IF 1 <= k - 1 THEN k - 1 - 1 + 1 ELSE 0)
          /\ \A j \in 1 .. k - 1 - 1 + 1 : before[j] = s[1 + j - 1]
      BY <1>1, <2>1, SubSeqProperties
    <2> QED
      BY <1>1, <2>1, <2>2
  <1>3. /\ behind \in Seq(S) /\ Len(behind) = Len(s) - k
        /\ \A j \in 1 .. Len(s) - k : behind[j] = s[k + j]
    <2>1. \A j \in k + 1 .. Len(s) : s[j] \in S
      BY <1>1
    <2>2. /\ behind \in Seq(S) /\ Len(behind) = (IF k + 1 <= Len(s) THEN Len(s) - (k + 1) + 1 ELSE 0)
          /\ \A j \in 1 .. Len(s) - (k + 1) + 1 : behind[j] = s[k + 1 + j - 1]
      BY <1>1, <2>1, SubSeqProperties
    <2> QED
      BY <1>1, <2>2
  <1> HIDE DEF before, behind
  <1>4. /\ before \o behind \in Seq(S) /\ Len(before \o behind) = Len(s) - 1
        /\ \A j \in 1 .. Len(s) - 1 : (before \o behind)[j] = IF j < k THEN s[j] ELSE s[j + 1]
    <2>1. /\ before \o behind \in Seq(S) /\ Len(before \o behind) = Len(before) + Len(behind)
          /\ \A j \in 1 .. Len(before) + Len(behind) :
                 (before \o behind)[j] = IF j <= Len(before) THEN before[j] ELSE behind[j - Len(before)]
      BY <1>2, <1>3, ConcatProperties
    <2>2. Len(before) + Len(behind) = Len(s) - 1
      BY <1>1, <1>2, <1>3
    <2>3. ASSUME NEW j \in 1 .. Len(s) - 1
          PROVE  (before \o behind)[j] = IF j < k THEN s[j] ELSE s[j + 1]
      <3>1. CASE j < k
        <4>1. j \in 1 .. k - 1 /\ j <= Len(before)
          BY <1>1, <1>2, <3>1
        <4> QED
          BY <1>2, <2>1, <2>2, <3>1, <4>1
      <3>2. CASE ~(j < k)
        <4>1. /\ j - (k - 1) \in 1 .. Len(s) - k /\ ~(j <= Len(before)) /\ k + (j - (k - 1)) = j + 1
              /\ j - Len(before) = j - (k - 1)
          BY <1>1, <1>2, <3>2
        <4> QED
          BY <1>3, <2>1, <2>2, <3>2, <4>1
      <3> QED
        BY <3>1, <3>2
    <2> QED
      BY <2>1, <2>2, <2>3
  <1> QED
    BY <1>4 DEF before, behind, Students!RemoveAt

LEMMA AddStudent == ASSUME VectorInv, NEW a \in Addresses, Students!Add(a) PROVE VectorInv'
  <1>1. /\ v_students' = Append(v_students, a) /\ v_given' = Append(v_given, a)
        /\ v_added' = Append(v_added, Len(v_given')) /\ v_state' = v_state
        /\ v_capacity' = IF Len(v_students) = v_capacity THEN 2 * v_capacity ELSE v_capacity
    BY DEF Students!Add
  <1>2. /\ v_students \in Seq(Addresses) /\ v_given \in Seq(Addresses) /\ v_added \in Seq(Nat)
        /\ \A j \in 1 .. Len(v_added) :
               v_added[j] \in 1 .. Len(v_given) /\ v_students[j] = v_given[v_added[j]]
        /\ v_capacity \in Nat /\ v_capacity > 0 /\ Len(v_students) <= v_capacity
        /\ Len(v_students) = Len(v_added)
    BY DEF VectorInv
  <1>3. /\ v_students' \in Seq(Addresses) /\ Len(v_students') = Len(v_students) + 1
        /\ v_students'[Len(v_students) + 1] = a
        /\ \A j \in 1 .. Len(v_students) : v_students'[j] = v_students[j]
    BY <1>1, <1>2, AppendProperties
  <1>4. /\ v_given' \in Seq(Addresses) /\ Len(v_given') = Len(v_given) + 1
        /\ v_given'[Len(v_given) + 1] = a
        /\ \A j \in 1 .. Len(v_given) : v_given'[j] = v_given[j]
    BY <1>1, <1>2, AppendProperties
  <1>5. /\ v_added' \in Seq(Nat) /\ Len(v_added') = Len(v_added) + 1
        /\ v_added'[Len(v_added) + 1] = Len(v_given) + 1
        /\ \A j \in 1 .. Len(v_added) : v_added'[j] = v_added[j]
    <2>1. Len(v_given') \in Nat
      BY <1>4
    <2> QED
      BY <1>1, <1>2, <1>4, <2>1, AppendProperties
  <1>6. Len(v_students) \in Nat /\ Len(v_given) \in Nat /\ Len(v_added) \in Nat
    BY <1>2
  <1>7. v_capacity' \in Nat /\ v_capacity' > 0 /\ Len(v_students') <= v_capacity'
    BY <1>1, <1>2, <1>3, <1>6
  <1>8. ASSUME NEW j \in 1 .. Len(v_added')
        PROVE  v_added'[j] \in 1 .. Len(v_given') /\ v_students'[j] = v_given'[v_added'[j]]
    <2>1. CASE j \in 1 .. Len(v_added)
      <3>1. v_added[j] \in 1 .. Len(v_given) /\ v_students[j] = v_given[v_added[j]]
        BY <1>2, <2>1
      <3> QED
        BY <1>2, <1>3, <1>4, <1>5, <1>6, <2>1, <3>1
    <2>2. CASE j = Len(v_added) + 1
      BY <1>2, <1>3, <1>4, <1>5, <1>6, <2>2
    <2> QED
      BY <1>5, <1>6, <1>8, <2>1, <2>2
  <1> QED
    BY <1>1, <1>2, <1>3, <1>4, <1>5, <1>7, <1>8 DEF VectorInv

LEMMA DelStudent == ASSUME VectorInv, NEW k, Students!Del(k) PROVE VectorInv'
  <1>1. /\ k \in 1 .. Len(v_students) /\ v_students' = Students!Shifted(v_students, k)
        /\ v_added' = Students!RemoveAt(v_added, k) /\ v_state' \in {"running", "over"}
        /\ UNCHANGED <<v_capacity, v_given>>
    BY DEF Students!Del
  <1>2. /\ v_students \in Seq(Addresses) /\ v_given \in Seq(Addresses) /\ v_added \in Seq(Nat)
        /\ \A j \in 1 .. Len(v_added) :
               v_added[j] \in 1 .. Len(v_given) /\ v_students[j] = v_given[v_added[j]]
        /\ v_capacity \in Nat /\ v_capacity > 0 /\ Len(v_students) <= v_capacity
        /\ Len(v_students) = Len(v_added)
    BY DEF VectorInv
  <1>3. Len(v_students) \in Nat /\ k \in Nat /\ k <= Len(v_students) /\ k >= 1
    BY <1>1, <1>2
  <1>4. /\ v_added' \in Seq(Nat) /\ Len(v_added') = Len(v_added) - 1
        /\ \A j \in 1 .. Len(v_added) - 1 : v_added'[j] = IF j < k THEN v_added[j] ELSE v_added[j + 1]
    <2>1. k \in 1 .. Len(v_added) /\ v_added \in Seq(Nat)
      BY <1>1, <1>2
    <2>2. /\ Students!RemoveAt(v_added, k) \in Seq(Nat)
          /\ Len(Students!RemoveAt(v_added, k)) = Len(v_added) - 1
          /\ \A j \in 1 .. Len(v_added) - 1 :
                 Students!RemoveAt(v_added, k)[j] = IF j < k THEN v_added[j] ELSE v_added[j + 1]
      BY <2>1, Removed
    <2> QED
      BY <1>1, <2>2
  <1>5. v_students' = [j \in 1 .. Len(v_students) - 1 |-> IF j < k THEN v_students[j] ELSE v_students[j + 1]]
    BY <1>1 DEF Students!Shifted
  <1>6. /\ v_students' \in Seq(Addresses) /\ Len(v_students') = Len(v_students) - 1
        /\ \A j \in 1 .. Len(v_students) - 1 :
               v_students'[j] = IF j < k THEN v_students[j] ELSE v_students[j + 1]
    <2>1. Len(v_students) - 1 \in Nat
      BY <1>3
    <2>2. \A j \in 1 .. Len(v_students) - 1 :
              (IF j < k THEN v_students[j] ELSE v_students[j + 1]) \in Addresses
      BY <1>2, <1>3
    <2> QED
      BY <1>5, <2>1, <2>2, IsASeq
  <1>7. ASSUME NEW j \in 1 .. Len(v_added')
        PROVE  v_added'[j] \in 1 .. Len(v_given) /\ v_students'[j] = v_given[v_added'[j]]
    <2>1. j \in 1 .. Len(v_added) - 1 /\ j \in 1 .. Len(v_added) /\ j + 1 \in 1 .. Len(v_added)
      BY <1>2, <1>3, <1>4
    <2> QED
      BY <1>2, <1>4, <1>6, <2>1
  <1>8. Len(v_students') <= v_capacity
    BY <1>2, <1>3, <1>6
  <1> QED
    BY <1>1, <1>2, <1>4, <1>6, <1>7, <1>8 DEF VectorInv

LEMMA VectorStep == ASSUME VectorInv, Students!Next PROVE VectorInv'
  <1>1. CASE Students!Exit \/ Students!AddFails
    <2>1. v_state' = "over" /\ UNCHANGED <<v_students, v_capacity, v_added, v_given>>
      BY <1>1 DEF Students!Exit, Students!AddFails
    <2> QED
      BY <2>1 DEF VectorInv
  <1>2. CASE \E a \in Addresses : Students!Add(a)
    BY <1>2, AddStudent
  <1>3. CASE \E k \in 1 .. ADDS : Students!Del(k)
    BY <1>3, DelStudent
  <1> QED
    BY <1>1, <1>2, <1>3 DEF Students!Next

LEMMA VectorStutter == ASSUME VectorInv, UNCHANGED vectorVars PROVE VectorInv'
  BY DEF VectorInv, vectorVars

LEMMA VectorTypeOK == VectorInv => Students!TypeOK
  <1> SUFFICES ASSUME VectorInv PROVE Students!TypeOK
    OBVIOUS
  <1>1. \A j \in DOMAIN v_students : v_students[j] \in Addresses
    BY DEF VectorInv
  <1>2. Students!ToSet(v_students) \subseteq Addresses
    BY <1>1 DEF Students!ToSet
  <1> QED
    BY <1>2 DEF VectorInv, Students!TypeOK

LEMMA VectorOrder == VectorInv => Students!PointersInOrder
  <1> SUFFICES ASSUME VectorInv PROVE Students!PointersInOrder
    OBVIOUS
  <1>1. /\ v_students \in Seq(Addresses) /\ Len(v_students) = Len(v_added) /\ Len(v_added) \in Nat
        /\ \A j \in 1 .. Len(v_added) : v_students[j] = v_given[v_added[j]]
    BY DEF VectorInv
  <1>2. DOMAIN v_students = 1 .. Len(v_added) /\ v_students = [j \in DOMAIN v_students |-> v_students[j]]
    BY <1>1
  <1> QED
    BY <1>1, <1>2 DEF Students!PointersInOrder
------------------------------------------------------------------------------
\* All programs together: what one does leaves the others as they are.
FilesInv ==
    IInv /\ LetterBounds /\ FileBounds /\ CountInv /\ VectorInv

LEMMA InitFiles == MCInit => FilesInv
  BY InitIInv, LetterBoundsInit, FileBoundsInit, CountInit, VectorInit DEF MCInit, FilesInv

LEMMA CopyStutter == ASSUME IInv, UNCHANGED vars PROVE IInv'
  BY NextIInv

LEMMA NextFiles == FilesInv /\ [MCNext]_allVars => FilesInv'
  <1> SUFFICES ASSUME FilesInv, [MCNext]_allVars PROVE FilesInv'
    OBVIOUS
  <1>1. IInv /\ LetterBounds /\ FileBounds /\ CountInv /\ VectorInv
    BY DEF FilesInv
  <1>2. UNCHANGED vars => IInv'
    BY <1>1, CopyStutter
  <1>3. UNCHANGED letterVars => LetterBounds'
    BY <1>1, LetterBoundsStutter
  <1>4. UNCHANGED mappedVars => FileBounds'
    BY <1>1, FileBoundsStutter
  <1>5. UNCHANGED countVars => CountInv'
    BY <1>1, CountStutter
  <1>6. UNCHANGED vectorVars => VectorInv'
    BY <1>1, VectorStutter
  <1>7. ASSUME UNCHANGED <<vars, mappedVars, countVars, vectorVars>>,
               Letters!Step1 \/ Letters!Step2 \/ Letters!User
        PROVE  FilesInv'
    <2>1. LetterBounds'
      BY <1>1, <1>7, LetterBoundsStep DEF Letters!Next
    <2> QED
      BY <2>1, <1>2, <1>4, <1>5, <1>6, <1>7 DEF FilesInv
  <1>8. ASSUME UNCHANGED <<vars, letterVars, countVars, vectorVars>>, File!Next
        PROVE  FilesInv'
    <2>1. FileBounds'
      BY <1>1, <1>8, FileBoundsStep
    <2> QED
      BY <2>1, <1>2, <1>3, <1>5, <1>6, <1>8 DEF FilesInv
  <1>9. CASE MCFirst
    BY <1>7, <1>8, <1>9 DEF MCFirst, OnLetters, OnFile, File!Next
  <1>10. CASE MCSecond
    BY <1>7, <1>8, <1>10 DEF MCSecond, OnLetters, OnFile, File!Next
  <1>11. CASE MCUser
    <2>1. CASE OnLetters(Letters!User)
      BY <1>7, <2>1 DEF OnLetters
    <2>2. CASE OnFile(File!StartWriter \/ File!StartReader)
      BY <1>8, <2>2 DEF OnFile, File!Next
    <2>3. CASE OnVector(Students!Next)
      <3>1. VectorInv'
        BY <1>1, <2>3, VectorStep DEF OnVector
      <3> QED
        BY <3>1, <1>2, <1>3, <1>4, <1>5, <2>3 DEF OnVector, FilesInv
    <2> QED
      BY <1>11, <2>1, <2>2, <2>3 DEF MCUser
  <1>12. CASE Copies(Next)
    <2>1. IInv'
      BY <1>1, <1>12, NextIInv DEF Copies
    <2> QED
      BY <2>1, <1>3, <1>4, <1>5, <1>6, <1>12 DEF Copies, FilesInv
  <1>13. CASE Counts(Counting!Next)
    <2>1. CountInv'
      BY <1>1, <1>13, CountStep DEF Counts
    <2> QED
      BY <2>1, <1>2, <1>3, <1>4, <1>6, <1>13 DEF Counts, FilesInv
  <1>14. CASE UNCHANGED allVars
    BY <1>2, <1>3, <1>4, <1>5, <1>6, <1>14 DEF allVars, FilesInv
  <1> QED
    BY <1>9, <1>10, <1>11, <1>12, <1>13, <1>14 DEF MCNext

LEMMA FilesInvariance == MCSpec => []FilesInv
  BY InitFiles, NextFiles, PTL DEF MCSpec

\* The variables of all the programs have their types.  What takes an argument: a semaphore
\* of the mapped file is never above the number of the writer's runs, a pipe of the letters
\* never holds more bytes than the memory has letters and one, and the file of the stars
\* never has more bytes than there may be processes.
THEOREM FilesTypes == MCSpec => []MCTypeOK
  <1>1. FilesInv => MCTypeOK
    <2> SUFFICES ASSUME FilesInv PROVE MCTypeOK
      OBVIOUS
    <2>1. IInv /\ LetterBounds /\ FileBounds /\ CountInv /\ VectorInv
      BY DEF FilesInv
    <2> QED
      BY <2>1, CopyTypes, LetterTypeOK, FileTypeOK, CountTypeOK, VectorTypeOK DEF MCTypeOK
  <1> QED
    BY <1>1, FilesInvariance, PTL

\* Whatever the numbers of steps and of skipped ones: the root counts no more stars than
\* there were processes, each of them if it is the last to read, and then as many as the
\* formula says that lines 21 to 23 of the program print, if no fork failed.
THEOREM CountedExactly == MCSpec => []CountIsRight
  <1>1. FilesInv => CountIsRight
    BY CountedRight DEF FilesInv, CountIsRight
  <1> QED
    BY <1>1, FilesInvariance, PTL

\* The vector holds the pointers of the students that were added and not removed, in the
\* order of the commands, whatever their number.
THEOREM VectorInOrder == MCSpec => []Students!PointersInOrder
  <1>1. FilesInv => Students!PointersInOrder
    BY VectorOrder DEF FilesInv
  <1> QED
    BY <1>1, FilesInvariance, PTL
------------------------------------------------------------------------------
(* The algorithms of the exercises.                                        *)

\* From 2 on both tests for primes are right: for every factor there is one that is not
\* above the half, and one whose square is not above the number (l03p3.c, check-prime.c).
THEOREM TestsForPrimes ==
    \A n \in Nat : n > 1 => (Ex!isPrime(n) <=> Ex!Prime(n)) /\ (Ex!check_if_prime(n) <=> Ex!Prime(n))
  <1> SUFFICES ASSUME NEW n \in Nat, n > 1
               PROVE  (Ex!isPrime(n) <=> Ex!Prime(n)) /\ (Ex!check_if_prime(n) <=> Ex!Prime(n))
    OBVIOUS
  <1>1. ASSUME NEW d \in 2 .. n - 1, NEW e \in 2 .. n - 1, d * e = n
        PROVE  /\ n % d = 0 /\ d \in 2 .. n \div 2
               /\ n % e = 0 /\ e \in 2 .. n
               /\ d * d <= n \/ e * e <= n
    <2>1. d \in Nat /\ e \in Nat /\ d >= 2 /\ e >= 2
      OBVIOUS
    <2>2. (d * e) % d = 0
      BY <2>1
    <2>3. (e * d) % e = 0 /\ e * d = d * e
      BY <2>1
    <2>4. d * 2 <= d * e
      BY <2>1
    <2>5. d <= n \div 2
      BY <1>1, <2>1, <2>4
    <2>6. d <= e => d * d <= d * e
      BY <2>1
    <2>7. e <= d => e * e <= d * e
      BY <2>1
    <2> QED
      BY <1>1, <2>1, <2>2, <2>3, <2>5, <2>6, <2>7
  <1>2. ASSUME NEW i \in Nat, i >= 2, i < n, n % i = 0
        PROVE  ~ Ex!Prime(n)
    <2> DEFINE e == n \div i
    <2>1. e \in Nat /\ n = i * e
      BY <1>2
    <2> HIDE DEF e
    <2>2. e # 0 /\ e # 1
      BY <1>2, <2>1
    <2>3. 2 * e <= i * e
      BY <1>2, <2>1
    <2>4. i \in 2 .. n - 1 /\ e \in 2 .. n - 1
      BY <1>2, <2>1, <2>2, <2>3
    <2> QED
      BY <2>1, <2>4 DEF Ex!Prime
  <1>3. Ex!isPrime(n) => Ex!Prime(n)
    BY <1>1 DEF Ex!isPrime, Ex!Prime
  <1>4. Ex!Prime(n) => Ex!isPrime(n)
    <2> SUFFICES ASSUME NEW i \in 2 .. n \div 2, n % i = 0 PROVE ~ Ex!Prime(n)
      BY DEF Ex!isPrime
    <2>1. i \in Nat /\ i >= 2 /\ i < n
      OBVIOUS
    <2> QED
      BY <1>2, <2>1
  <1>5. Ex!check_if_prime(n) => Ex!Prime(n)
    <2> SUFFICES ASSUME Ex!check_if_prime(n), NEW d \in 2 .. n - 1, NEW e \in 2 .. n - 1, d * e = n
                 PROVE  FALSE
      BY DEF Ex!Prime
    <2>1. /\ n % d = 0 /\ n % e = 0 /\ (d * d <= n \/ e * e <= n)
          /\ d \in 2 .. n /\ e \in 2 .. n
      <3>1. d \in 2 .. n /\ e \in 2 .. n
        OBVIOUS
      <3> QED
        BY <1>1, <3>1, Zenon
    <2>2. ASSUME NEW k \in 2 .. n, k * k <= n PROVE n % k # 0
      <3>1. k \in {x \in 2 .. n : x * x <= n}
        BY <2>2
      <3>2. \A i \in {x \in 2 .. n : x * x <= n} : n % i # 0
        BY Zenon DEF Ex!check_if_prime
      <3> QED
        BY <3>1, <3>2, Zenon
    <2>3. CASE d * d <= n
      BY <2>1, <2>2, <2>3, Zenon
    <2>4. CASE e * e <= n
      BY <2>1, <2>2, <2>4, Zenon
    <2> QED
      BY <2>1, <2>3, <2>4, Zenon
  <1>6. Ex!Prime(n) => Ex!check_if_prime(n)
    <2> SUFFICES ASSUME NEW k \in 2 .. n, k * k <= n, n % k = 0 PROVE ~ Ex!Prime(n)
      BY DEF Ex!check_if_prime
    <2>1. k \in Nat /\ k >= 2 /\ 2 * k <= k * k
      OBVIOUS
    <2>2. k < n
      BY <2>1
    <2> QED
      BY <1>2, <2>1, <2>2
  <1> QED
    BY <1>3, <1>4, <1>5, <1>6

\* The elements of the set that is printed for a number.
Bits(m, n) == {j \in 0 .. n - 1 : Ex!ISBITSET(m, j)}

LEMMA PowAdd == \A m, k \in Nat : 2 ^ (m + k) = 2 ^ m * 2 ^ k
  <1> TAKE m \in Nat
  <1> DEFINE S == {k \in Nat : 2 ^ (m + k) = 2 ^ m * 2 ^ k}
  <1>1. 0 \in S
    BY PowStep, PowZero
  <1>2. \A k \in Nat : k \in S => k + 1 \in S
    <2> TAKE k \in Nat
    <2> HAVE k \in S
    <2>1. /\ 2 ^ (m + k + 1) = 2 * 2 ^ (m + k) /\ 2 ^ (k + 1) = 2 * 2 ^ k
          /\ 2 ^ m \in Nat /\ 2 ^ k \in Nat
      BY PowStep
    <2>2. m + (k + 1) = m + k + 1
      OBVIOUS
    <2>3. 2 * (2 ^ m * 2 ^ k) = 2 ^ m * (2 * 2 ^ k)
      BY <2>1
    <2> QED
      BY <2>1, <2>2, <2>3
  <1>3. Nat \subseteq S
    <2> HIDE DEF S
    <2> QED
      BY <1>1, <1>2, NatSetInduction
  <1> QED
    BY <1>3

\* The highest bit of a number, and the others.
LEMMA HighBit ==
    ASSUME NEW n \in Nat, NEW r \in 0 .. 2 ^ n - 1
    PROVE  /\ Bits(r, n + 1) = Bits(r, n) /\ n \notin Bits(r, n)
           /\ Bits(2 ^ n + r, n + 1) = Bits(r, n) \cup {n}
  <1>1. 2 ^ n \in Nat /\ 2 ^ n >= 1 /\ r \in Nat /\ r < 2 ^ n
    BY PowStep, PowPos
  <1>2. ~ Ex!ISBITSET(r, n)
    <2>1. r \div 2 ^ n = 0
      BY <1>1
    <2> QED
      BY <2>1 DEF Ex!ISBITSET
  <1>3. Ex!ISBITSET(2 ^ n + r, n)
    <2>1. (2 ^ n + r) \div 2 ^ n = 1
      BY <1>1
    <2> QED
      BY <2>1 DEF Ex!ISBITSET
  <1>4. ASSUME NEW j \in 0 .. n - 1 PROVE Ex!ISBITSET(2 ^ n + r, j) <=> Ex!ISBITSET(r, j)
    <2> DEFINE p == 2 ^ j
               q == 2 ^ (n - 1 - j)
    <2>1. j \in Nat /\ n - 1 - j \in Nat /\ n - j = (n - 1 - j) + 1 /\ j + (n - j) = n
      OBVIOUS
    <2>2. 2 ^ n = p * (2 * q) /\ p \in Nat \ {0} /\ q \in Nat
      <3>1. 2 ^ n = p * 2 ^ (n - j)
        BY <2>1, PowAdd
      <3>2. 2 ^ (n - j) = 2 * q /\ q \in Nat
        BY <2>1, PowStep
      <3>3. p \in Nat /\ p >= 1
        BY <2>1, PowStep, PowPos
      <3> QED
        BY <3>1, <3>2, <3>3
    <2> HIDE DEF p, q
    <2>3. (p * (2 * q) + r) \div p = 2 * q + (r \div p) /\ r \div p \in Nat
      BY <1>1, <2>2
    <2>4. (2 * q + (r \div p)) % 2 = (r \div p) % 2
      BY <2>2, <2>3
    <2>5. (2 ^ n + r) \div p = 2 * q + (r \div p)
      BY <2>2, <2>3
    <2> QED
      BY <2>4, <2>5 DEF Ex!ISBITSET, p
  <1> QED
    BY <1>2, <1>3, <1>4 DEF Bits

LEMMA BitsOfAll ==
    \A n \in Nat :
        /\ \A m, k \in 0 .. 2 ^ n - 1 : Bits(m, n) = Bits(k, n) => m = k
        /\ \A s \in SUBSET (0 .. n - 1) : \E m \in 0 .. 2 ^ n - 1 : Bits(m, n) = s
  <1> DEFINE P(n) == /\ \A m, k \in 0 .. 2 ^ n - 1 : Bits(m, n) = Bits(k, n) => m = k
                     /\ \A s \in SUBSET (0 .. n - 1) : \E m \in 0 .. 2 ^ n - 1 : Bits(m, n) = s
             S == {n \in Nat : P(n)}
  <1>1. 0 \in S
    <2>1. 0 .. 2 ^ 0 - 1 = {0} /\ 0 .. 0 - 1 = {}
      BY PowZero
    <2>2. Bits(0, 0) = {}
      BY <2>1 DEF Bits
    <2> QED
      BY <2>1, <2>2
  <1>2. ASSUME NEW n \in Nat, P(n) PROVE P(n + 1)
    <2> DEFINE top == 2 ^ n
    <2>1. top \in Nat /\ 2 ^ (n + 1) = top + top
      BY PowStep
    <2>2. ASSUME NEW m \in 0 .. 2 ^ (n + 1) - 1
          PROVE  \E r \in 0 .. top - 1 :
                   \/ m = r /\ Bits(m, n + 1) = Bits(r, n) /\ n \notin Bits(m, n + 1)
                   \/ m = top + r /\ Bits(m, n + 1) = Bits(r, n) \cup {n} /\ n \in Bits(m, n + 1)
      <3>1. CASE m < top
        <4>1. m \in 0 .. top - 1
          BY <2>1, <3>1
        <4> QED
          BY <4>1, HighBit
      <3>2. CASE ~(m < top)
        <4>1. m - top \in 0 .. top - 1 /\ m = top + (m - top)
          BY <2>1, <3>2
        <4> HIDE DEF top
        <4>2. \A r \in 0 .. top - 1 : Bits(top + r, n + 1) = Bits(r, n) \cup {n}
          BY HighBit DEF top
        <4>3. Bits(m, n + 1) = Bits(m - top, n) \cup {n}
          BY <4>1, <4>2
        <4> QED
          BY <4>1, <4>3
      <3> QED
        BY <3>1, <3>2
    <2>3. \A r : n \notin Bits(r, n)
      BY DEF Bits
    <2> HIDE DEF top
    <2>4. ASSUME NEW m \in 0 .. 2 ^ (n + 1) - 1, NEW k \in 0 .. 2 ^ (n + 1) - 1,
                 Bits(m, n + 1) = Bits(k, n + 1)
          PROVE  m = k
      <3>1. PICK r \in 0 .. top - 1 :
                   \/ m = r /\ Bits(m, n + 1) = Bits(r, n) /\ n \notin Bits(m, n + 1)
                   \/ m = top + r /\ Bits(m, n + 1) = Bits(r, n) \cup {n} /\ n \in Bits(m, n + 1)
        BY <2>2
      <3>2. PICK x \in 0 .. top - 1 :
                   \/ k = x /\ Bits(k, n + 1) = Bits(x, n) /\ n \notin Bits(k, n + 1)
                   \/ k = top + x /\ Bits(k, n + 1) = Bits(x, n) \cup {n} /\ n \in Bits(k, n + 1)
        BY <2>2
      <3>3. Bits(r, n) = Bits(x, n)
        BY <2>3, <2>4, <3>1, <3>2
      <3>4. r = x
        BY <1>2, <3>3 DEF top
      <3> QED
        BY <2>4, <3>1, <3>2, <3>4
    <2>5. ASSUME NEW s \in SUBSET (0 .. (n + 1) - 1)
          PROVE  \E m \in 0 .. 2 ^ (n + 1) - 1 : Bits(m, n + 1) = s
      <3>1. s \ {n} \in SUBSET (0 .. n - 1)
        OBVIOUS
      <3>2. PICK r \in 0 .. top - 1 : Bits(r, n) = s \ {n}
        BY <1>2, <3>1 DEF top
      <3>3. Bits(r, n + 1) = s \ {n} /\ Bits(top + r, n + 1) = (s \ {n}) \cup {n}
        BY <3>2, HighBit DEF top
      <3>4. r \in 0 .. 2 ^ (n + 1) - 1 /\ top + r \in 0 .. 2 ^ (n + 1) - 1
        BY <2>1
      <3> QED
        BY <3>3, <3>4
    <2> QED
      BY <2>4, <2>5
  <1>3. Nat \subseteq S
    <2> HIDE DEF P
    <2>1. \A n \in Nat : n \in S => n + 1 \in S
      BY <1>2
    <2> HIDE DEF S
    <2> QED
      BY <1>1, <2>1, NatSetInduction
  <1> QED
    BY <1>3

\* The sets that are printed for the numbers below 2^n, bit by bit, are all the subsets of
\* the n numbers, and no two of them are the same (l03p1.c).
THEOREM EverySubsetOnce == \A n \in Nat : Ex!AllSubsets(n)
  <1> TAKE n \in Nat
  <1> DEFINE sets == Ex!generateSets(n)
  <1>1. 2 ^ n \in Nat
    BY PowStep
  <1>2. sets = [i \in 1 .. 2 ^ n |-> Bits(i - 1, n)]
    BY DEF Ex!generateSets, Bits
  <1>3. \A i \in 1 .. 2 ^ n : i - 1 \in 0 .. 2 ^ n - 1
    BY <1>1
  <1>4. \A m \in 0 .. 2 ^ n - 1 : m + 1 \in 1 .. 2 ^ n /\ (m + 1) - 1 = m
    BY <1>1
  <1> HIDE DEF sets
  <1>5. Ex!ToSet(sets) = SUBSET (0 .. n - 1)
    <2>1. Ex!ToSet(sets) = {Bits(i - 1, n) : i \in 1 .. 2 ^ n}
      BY <1>2 DEF Ex!ToSet
    <2>2. \A i : Bits(i, n) \in SUBSET (0 .. n - 1)
      BY DEF Bits
    <2>3. ASSUME NEW s \in SUBSET (0 .. n - 1) PROVE \E i \in 1 .. 2 ^ n : Bits(i - 1, n) = s
      <3>1. PICK m \in 0 .. 2 ^ n - 1 : Bits(m, n) = s
        BY BitsOfAll
      <3> QED
        BY <1>4, <3>1
    <2> QED
      BY <2>1, <2>2, <2>3
  <1>6. Ex!IsInjective(sets)
    <2>1. DOMAIN sets = 1 .. 2 ^ n
      BY <1>2
    <2>2. ASSUME NEW i \in 1 .. 2 ^ n, NEW j \in 1 .. 2 ^ n, sets[i] = sets[j] PROVE i = j
      <3>1. Bits(i - 1, n) = Bits(j - 1, n)
        BY <1>2, <2>2
      <3>2. i - 1 = j - 1
        BY <1>3, <3>1, BitsOfAll
      <3> QED
        BY <3>2
    <2> QED
      BY <2>1, <2>2 DEF Ex!IsInjective
  <1> QED
    BY <1>5, <1>6 DEF Ex!AllSubsets, sets
------------------------------------------------------------------------------
(* The quotient of two sets.                                               *)

LEMMA ExCardinality == \A S : Ex!Cardinality(S) = Cardinality(S)
  BY DEF Ex!Cardinality, Cardinality

\* The elements of a sequence from place i on.
Tails(s, i) == {s[k] : k \in i .. Len(s)}

\* What the loop of l03p2.c finds from two places on, as an equation for a function.
Finds(f, s, t) ==
    f = [p \in (1 .. Len(s) + 1) \X (1 .. Len(t) + 1) |->
            LET i == p[1]  j == p[2]
            IN  IF i > Len(s) \/ j > Len(t) THEN 0
                ELSE IF s[i] = t[j] THEN 1 + f[<<i + 1, j + 1>>]
                ELSE IF s[i] < t[j] THEN f[<<i + 1, j>>] ELSE f[<<i, j + 1>>]]

\* The number of their common elements from two places on.
Shared(s, t, i, j) == Cardinality(Tails(s, i) \cap Tails(t, j))

LEMMA CommonFinds == \A s, t : Ex!Common(s, t) = (CHOOSE f : Finds(f, s, t))[<<1, 1>>]
  BY DEF Ex!Common, Finds

LEMMA Ascending ==
    ASSUME NEW s \in Seq(Int), Ex!Increasing(s)
    PROVE  \A i, j \in 1 .. Len(s) : i < j => s[i] < s[j]
  <1> DEFINE S == {d \in Nat : \A i \in 1 .. Len(s) : i + 1 + d <= Len(s) => s[i] < s[i + 1 + d]}
  <1>0. Len(s) \in Nat /\ \A k \in 1 .. Len(s) : s[k] \in Int
    OBVIOUS
  <1>1. 0 \in S
    BY <1>0 DEF Ex!Increasing
  <1>2. ASSUME NEW d \in Nat, d \in S PROVE d + 1 \in S
    <2>1. ASSUME NEW i \in 1 .. Len(s), i + 1 + (d + 1) <= Len(s)
          PROVE  s[i] < s[i + 1 + (d + 1)]
      <3>1. s[i] < s[i + 1 + d]
        BY <1>0, <1>2, <2>1
      <3>2. /\ (i + 1 + d) + 1 = i + 1 + (d + 1) /\ i + 1 + d \in 1 .. Len(s) - 1
            /\ i + 1 + d \in 1 .. Len(s) /\ i + 1 + (d + 1) \in 1 .. Len(s)
        BY <1>0, <2>1
      <3>3. s[i + 1 + d] < s[(i + 1 + d) + 1]
        BY <3>2 DEF Ex!Increasing
      <3> QED
        BY <1>0, <3>1, <3>2, <3>3
    <2> QED
      BY <2>1
  <1>3. Nat \subseteq S
    <2> HIDE DEF S
    <2> QED
      BY <1>1, <1>2, NatSetInduction
  <1> SUFFICES ASSUME NEW i \in 1 .. Len(s), NEW j \in 1 .. Len(s), i < j PROVE s[i] < s[j]
    OBVIOUS
  <1>4. j - i - 1 \in Nat /\ i + 1 + (j - i - 1) = j /\ j <= Len(s)
    BY <1>0
  <1> HIDE DEF S
  <1>5. j - i - 1 \in S
    BY <1>3, <1>4
  <1> QED
    BY <1>4, <1>5 DEF S

LEMMA TailsFinite ==
    ASSUME NEW s \in Seq(Int), NEW i \in Nat
    PROVE  IsFiniteSet(Tails(s, i))
  <1> DEFINE f == [k \in i .. Len(s) |-> s[k]]
  <1>1. IsFiniteSet(i .. Len(s))
    BY FS_Interval
  <1>2. f \in Surjection(i .. Len(s), Tails(s, i))
    BY DEF Surjection, Tails
  <1> HIDE DEF f
  <1> QED
    BY <1>1, <1>2, FS_Surjection

\* For increasing sequences the loop finds the common elements from two places on.
LEMMA FindsCommon ==
    ASSUME NEW s \in Seq(Int), NEW t \in Seq(Int), Ex!Increasing(s), Ex!Increasing(t),
           NEW i \in 1 .. Len(s) + 1, NEW j \in 1 .. Len(t) + 1
    PROVE  /\ Shared(s, t, i, j) \in Nat
           /\ i > Len(s) \/ j > Len(t) => Shared(s, t, i, j) = 0
           /\ i <= Len(s) /\ j <= Len(t) =>
                Shared(s, t, i, j) =
                    IF s[i] = t[j] THEN 1 + Shared(s, t, i + 1, j + 1)
                    ELSE IF s[i] < t[j] THEN Shared(s, t, i + 1, j) ELSE Shared(s, t, i, j + 1)
  <1>0. /\ Len(s) \in Nat /\ Len(t) \in Nat
        /\ \A k \in 1 .. Len(s) : s[k] \in Int
        /\ \A k \in 1 .. Len(t) : t[k] \in Int
    OBVIOUS
  <1>1. \A a, b \in Nat : IsFiniteSet(Tails(s, a) \cap Tails(t, b))
    BY TailsFinite, FS_Subset
  <1>2. \A a, b \in Nat : Shared(s, t, a, b) \in Nat
    BY <1>1, FS_CardinalityType DEF Shared
  <1>5. Shared(s, t, i, j) \in Nat
    BY <1>0, <1>2
  <1>3. CASE i > Len(s) \/ j > Len(t)
    <2>1. Tails(s, i) = {} \/ Tails(t, j) = {}
      BY <1>0, <1>3 DEF Tails
    <2>2. Tails(s, i) \cap Tails(t, j) = {}
      BY <2>1
    <2>3. Shared(s, t, i, j) = 0
      BY <2>2, FS_EmptySet DEF Shared
    <2> QED
      BY <1>0, <1>3, <2>3
  <1>4. CASE i <= Len(s) /\ j <= Len(t)
    <2>0. i \in 1 .. Len(s) /\ j \in 1 .. Len(t) /\ s[i] \in Int /\ t[j] \in Int
      BY <1>0, <1>4
    <2>1. /\ Tails(s, i) = {s[i]} \cup Tails(s, i + 1)
          /\ Tails(t, j) = {t[j]} \cup Tails(t, j + 1)
      <3>1. i .. Len(s) = {i} \cup (i + 1 .. Len(s)) /\ j .. Len(t) = {j} \cup (j + 1 .. Len(t))
        BY <1>0, <2>0, SMTT(30)
      <3> QED
        BY <3>1, Zenon DEF Tails
    <2>2. /\ \A x \in Tails(s, i + 1) : x \in Int /\ s[i] < x
          /\ \A x \in Tails(t, j + 1) : x \in Int /\ t[j] < x
      <3>1. \A k \in i + 1 .. Len(s) : s[k] \in Int /\ s[i] < s[k]
        BY <1>0, <2>0, Ascending
      <3>2. \A k \in j + 1 .. Len(t) : t[k] \in Int /\ t[j] < t[k]
        BY <1>0, <2>0, Ascending
      <3> QED
        BY <3>1, <3>2, Zenon DEF Tails
    <2>3. CASE s[i] = t[j]
      <3>1. /\ Tails(s, i) \cap Tails(t, j) = (Tails(s, i + 1) \cap Tails(t, j + 1)) \cup {s[i]}
            /\ s[i] \notin Tails(s, i + 1) \cap Tails(t, j + 1)
        BY <2>0, <2>1, <2>2, <2>3
      <3>2. i + 1 \in Nat /\ j + 1 \in Nat
        BY <2>0
      <3>3. Shared(s, t, i, j) = Shared(s, t, i + 1, j + 1) + 1
        BY <1>1, <3>1, <3>2, FS_AddElement DEF Shared
      <3>4. Shared(s, t, i + 1, j + 1) \in Nat
        BY <1>2, <3>2
      <3> QED
        BY <1>0, <1>4, <2>0, <2>3, <3>3, <3>4, SMTT(30)
    <2>4. CASE s[i] # t[j] /\ s[i] < t[j]
      <3>1. Tails(s, i) \cap Tails(t, j) = Tails(s, i + 1) \cap Tails(t, j)
        BY <2>0, <2>1, <2>2, <2>4
      <3>2. Shared(s, t, i, j) = Shared(s, t, i + 1, j)
        BY <3>1 DEF Shared
      <3> QED
        BY <1>0, <1>4, <1>5, <2>0, <2>4, <3>2
    <2>5. CASE s[i] # t[j] /\ ~(s[i] < t[j])
      <3>1. Tails(s, i) \cap Tails(t, j) = Tails(s, i) \cap Tails(t, j + 1)
        BY <2>0, <2>1, <2>2, <2>5
      <3>2. Shared(s, t, i, j) = Shared(s, t, i, j + 1)
        BY <3>1 DEF Shared
      <3> QED
        BY <1>0, <1>4, <1>5, <2>0, <2>5, <3>2
    <2> QED
      BY <2>3, <2>4, <2>5
  <1> QED
    BY <1>0, <1>3, <1>4, <1>5

\* One function satisfies the equation of the loop, and so does the one it is defined by.
LEMMA FindsShared ==
    ASSUME NEW s \in Seq(Int), NEW t \in Seq(Int), Ex!Increasing(s), Ex!Increasing(t)
    PROVE  Ex!Common(s, t) = Shared(s, t, 1, 1)
  <1> DEFINE D == (1 .. Len(s) + 1) \X (1 .. Len(t) + 1)
             g == [p \in D |-> Shared(s, t, p[1], p[2])]
             h == CHOOSE f : Finds(f, s, t)
  <1>0. Len(s) \in Nat /\ Len(t) \in Nat
    OBVIOUS
  <1>1. Finds(g, s, t)
    <2> SUFFICES ASSUME NEW p \in D
                 PROVE  g[p] = LET i == p[1]  j == p[2]
                               IN  IF i > Len(s) \/ j > Len(t) THEN 0
                                   ELSE IF s[i] = t[j] THEN 1 + g[<<i + 1, j + 1>>]
                                   ELSE IF s[i] < t[j] THEN g[<<i + 1, j>>] ELSE g[<<i, j + 1>>]
      BY Zenon DEF Finds
    <2> DEFINE i == p[1]
               j == p[2]
    <2>1. i \in 1 .. Len(s) + 1 /\ j \in 1 .. Len(t) + 1
      OBVIOUS
    <2>2. \A a \in 1 .. Len(s) + 1, b \in 1 .. Len(t) + 1 : g[<<a, b>>] = Shared(s, t, a, b)
      OBVIOUS
    <2>3. g[p] = Shared(s, t, i, j)
      OBVIOUS
    <2>4. /\ i > Len(s) \/ j > Len(t) => Shared(s, t, i, j) = 0
          /\ i <= Len(s) /\ j <= Len(t) =>
                Shared(s, t, i, j) =
                    IF s[i] = t[j] THEN 1 + Shared(s, t, i + 1, j + 1)
                    ELSE IF s[i] < t[j] THEN Shared(s, t, i + 1, j) ELSE Shared(s, t, i, j + 1)
      <3> HIDE DEF i, j
      <3> QED
        BY <2>1, FindsCommon
    <2> HIDE DEF g
    <2>5. CASE i > Len(s) \/ j > Len(t)
      BY <2>3, <2>4, <2>5
    <2>6. CASE ~(i > Len(s) \/ j > Len(t))
      <3>1. i <= Len(s) /\ j <= Len(t)
        BY <1>0, <2>1, <2>6
      <3>2. /\ i \in 1 .. Len(s) + 1 /\ i + 1 \in 1 .. Len(s) + 1
            /\ j \in 1 .. Len(t) + 1 /\ j + 1 \in 1 .. Len(t) + 1
        BY <1>0, <2>1, <3>1
      <3>3. /\ g[<<i + 1, j + 1>>] = Shared(s, t, i + 1, j + 1)
            /\ g[<<i + 1, j>>] = Shared(s, t, i + 1, j)
            /\ g[<<i, j + 1>>] = Shared(s, t, i, j + 1)
        BY <2>2, <3>2
      <3> QED
        BY <2>3, <2>4, <2>6, <3>1, <3>3
    <2> QED
      BY <2>5, <2>6
  <1>2. Finds(h, s, t)
    BY <1>1, Zenon
  <1> HIDE DEF h
  <1> DEFINE S == {m \in Nat : \A i \in 1 .. Len(s) + 1, j \in 1 .. Len(t) + 1 :
                     (Len(s) + 1 - i) + (Len(t) + 1 - j) <= m => h[<<i, j>>] = Shared(s, t, i, j)}
  <1>3. ASSUME NEW i \in 1 .. Len(s) + 1, NEW j \in 1 .. Len(t) + 1
        PROVE  h[<<i, j>>] =
                 IF i > Len(s) \/ j > Len(t) THEN 0
                 ELSE IF s[i] = t[j] THEN 1 + h[<<i + 1, j + 1>>]
                 ELSE IF s[i] < t[j] THEN h[<<i + 1, j>>] ELSE h[<<i, j + 1>>]
    BY <1>2 DEF Finds
  <1>4. 0 \in S
    <2> SUFFICES ASSUME NEW i \in 1 .. Len(s) + 1, NEW j \in 1 .. Len(t) + 1,
                        (Len(s) + 1 - i) + (Len(t) + 1 - j) <= 0
                 PROVE  h[<<i, j>>] = Shared(s, t, i, j)
      OBVIOUS
    <2>1. i > Len(s)
      BY <1>0
    <2> QED
      BY <1>3, <2>1, FindsCommon, ZenonT(40)
  <1>5. ASSUME NEW m \in Nat, m \in S PROVE m + 1 \in S
    <2> SUFFICES ASSUME NEW i \in 1 .. Len(s) + 1, NEW j \in 1 .. Len(t) + 1,
                        (Len(s) + 1 - i) + (Len(t) + 1 - j) <= m + 1
                 PROVE  h[<<i, j>>] = Shared(s, t, i, j)
      OBVIOUS
    <2>1. CASE i > Len(s) \/ j > Len(t)
      <3>1. h[<<i, j>>] = 0
        BY <1>3, <2>1
      <3>2. Shared(s, t, i, j) = 0
        BY <2>1, FindsCommon
      <3> QED
        BY <3>1, <3>2
    <2>2. CASE ~(i > Len(s) \/ j > Len(t))
      <3>1. i <= Len(s) /\ j <= Len(t)
        BY <1>0, <2>2
      <3>2. /\ i \in 1 .. Len(s) + 1 /\ i + 1 \in 1 .. Len(s) + 1
            /\ j \in 1 .. Len(t) + 1 /\ j + 1 \in 1 .. Len(t) + 1
            /\ (Len(s) + 1 - (i + 1)) + (Len(t) + 1 - j) <= m
            /\ (Len(s) + 1 - i) + (Len(t) + 1 - (j + 1)) <= m
            /\ (Len(s) + 1 - (i + 1)) + (Len(t) + 1 - (j + 1)) <= m
        BY <1>0, <3>1
      <3>3. \A a \in 1 .. Len(s) + 1, b \in 1 .. Len(t) + 1 :
               (Len(s) + 1 - a) + (Len(t) + 1 - b) <= m => h[<<a, b>>] = Shared(s, t, a, b)
        BY <1>5
      <3>4. /\ h[<<i + 1, j + 1>>] = Shared(s, t, i + 1, j + 1)
            /\ h[<<i + 1, j>>] = Shared(s, t, i + 1, j)
            /\ h[<<i, j + 1>>] = Shared(s, t, i, j + 1)
        BY <3>2, <3>3
      <3>5. h[<<i, j>>] = IF s[i] = t[j] THEN 1 + h[<<i + 1, j + 1>>]
                          ELSE IF s[i] < t[j] THEN h[<<i + 1, j>>] ELSE h[<<i, j + 1>>]
        BY <1>3, <2>2
      <3>6. Shared(s, t, i, j) =
                    IF s[i] = t[j] THEN 1 + Shared(s, t, i + 1, j + 1)
                    ELSE IF s[i] < t[j] THEN Shared(s, t, i + 1, j) ELSE Shared(s, t, i, j + 1)
        BY <3>1, FindsCommon
      <3> QED
        BY <3>4, <3>5, <3>6
    <2> QED
      BY <2>1, <2>2
  <1>6. Nat \subseteq S
    <2> HIDE DEF S
    <2> QED
      BY <1>4, <1>5, NatSetInduction
  <1>7. h[<<1, 1>>] = Shared(s, t, 1, 1)
    <2>1. /\ Len(s) + Len(t) \in S /\ 1 \in 1 .. Len(s) + 1 /\ 1 \in 1 .. Len(t) + 1
          /\ (Len(s) + 1 - 1) + (Len(t) + 1 - 1) <= Len(s) + Len(t)
      <3>1. Len(s) + Len(t) \in Nat /\ (Len(s) + 1 - 1) + (Len(t) + 1 - 1) = Len(s) + Len(t)
        BY <1>0
      <3> HIDE DEF S
      <3>2. Len(s) + Len(t) \in S
        BY <1>6, <3>1
      <3> QED
        BY <1>0, <3>1, <3>2
    <2>2. \A i \in 1 .. Len(s) + 1, j \in 1 .. Len(t) + 1 :
              (Len(s) + 1 - i) + (Len(t) + 1 - j) <= Len(s) + Len(t)
                  => h[<<i, j>>] = Shared(s, t, i, j)
      BY <2>1
    <2> HIDE DEF S
    <2> QED
      BY <2>1, <2>2
  <1> QED
    BY <1>7, CommonFinds DEF h

\* The quotient of the exercise is that of the numbers of common and of all elements, for
\* sets of any size that are given in increasing order (l03p2.c).
THEOREM QuotientOfSets == \A s, t \in Seq(Int) : Ex!QuotientRight(s, t)
  <1> SUFFICES ASSUME NEW s \in Seq(Int), NEW t \in Seq(Int), Ex!Increasing(s), Ex!Increasing(t)
               PROVE  LET A == Ex!ToSet(s)  B == Ex!ToSet(t)
                      IN  /\ Ex!Common(s, t) = Cardinality(A \cap B)
                          /\ Len(s) + Len(t) - Ex!Common(s, t) = Cardinality(A \cup B)
    BY Zenon, ExCardinality DEF Ex!QuotientRight
  <1> DEFINE A == Tails(s, 1)
             B == Tails(t, 1)
  <1>1. Ex!ToSet(s) = A /\ Ex!ToSet(t) = B
    BY DEF Ex!ToSet, Tails
  <1>2. ASSUME NEW u \in Seq(Int), Ex!Increasing(u)
        PROVE  IsFiniteSet(Tails(u, 1)) /\ Cardinality(Tails(u, 1)) = Len(u)
    <2> DEFINE f == [k \in 1 .. Len(u) |-> u[k]]
    <2>1. \A i, j \in 1 .. Len(u) : i < j => u[i] < u[j]
      BY <1>2, Ascending
    <2>2. f \in Bijection(1 .. Len(u), Tails(u, 1))
      <3>1. Len(u) \in Nat /\ \A k \in 1 .. Len(u) : u[k] \in Int
        OBVIOUS
      <3>2. \A i, j \in 1 .. Len(u) : u[i] = u[j] => i = j
        BY <2>1, <3>1
      <3> QED
        BY <3>2 DEF Bijection, Injection, Surjection, IsInjective, Tails
    <2> HIDE DEF f
    <2>3. ExistsBijection(1 .. Len(u), Tails(u, 1))
      BY <2>2 DEF ExistsBijection
    <2>4. Len(u) \in Nat
      OBVIOUS
    <2>5. Cardinality(Tails(u, 1)) = Len(u)
      BY <2>3, <2>4, FS_CountingElements
    <2> QED
      BY <2>5, TailsFinite
  <1>3. Ex!Common(s, t) = Cardinality(A \cap B)
    BY FindsShared DEF Shared
  <1>4. Cardinality(A \cup B) = Len(s) + Len(t) - Cardinality(A \cap B)
    <2>1. IsFiniteSet(A) /\ IsFiniteSet(B) /\ Cardinality(A) = Len(s) /\ Cardinality(B) = Len(t)
      BY <1>2
    <2> HIDE DEF A, B
    <2> QED
      BY <2>1, FS_Union
  <1> QED
    BY <1>1, <1>3, <1>4
------------------------------------------------------------------------------
(* Sums.                                                                   *)

\* What the loop of l03p3.c adds up over an array, as an equation for a function.
AddsUp(f, array) ==
    f = [i \in 0 .. Len(array) |->
            IF i = 0 THEN 0
            ELSE IF Ex!isPrime(array[i]) THEN f[i - 1] + array[i] ELSE f[i - 1]]

AddsUpPrimes(f, array) ==
    f = [i \in 0 .. Len(array) |->
            IF i = 0 THEN 0
            ELSE IF Ex!Prime(array[i]) THEN f[i - 1] + array[i] ELSE f[i - 1]]

\* The sum of an array of numbers greater than 1 is that of its primes, because isPrime is
\* right from 2 on (l03p3.c).
THEOREM SumOfPrimes == \A array \in Seq(Nat) : Ex!PrimesRight(array)
  <1> SUFFICES ASSUME NEW array \in Seq(Nat), \A n \in Ex!ToSet(array) : n > 1
               PROVE  /\ \A n \in Ex!ToSet(array) :
                            (Ex!isPrime(n) <=> Ex!Prime(n)) /\ (Ex!check_if_prime(n) <=> Ex!Prime(n))
                      /\ LET sum[i \in 0 .. Len(array)] ==
                                IF i = 0 THEN 0
                                ELSE IF Ex!Prime(array[i]) THEN sum[i - 1] + array[i] ELSE sum[i - 1]
                         IN  Ex!computeSum(array) = sum[Len(array)]
    BY Zenon DEF Ex!PrimesRight
  <1>0. /\ Len(array) \in Nat
        /\ \A i \in 1 .. Len(array) : array[i] \in Nat /\ array[i] \in Ex!ToSet(array)
    BY DEF Ex!ToSet
  <1>1. \A n \in Nat :
           n > 1 => (Ex!isPrime(n) <=> Ex!Prime(n)) /\ (Ex!check_if_prime(n) <=> Ex!Prime(n))
    BY TestsForPrimes
  <1>2. \A f : AddsUp(f, array) <=> AddsUpPrimes(f, array)
    <2> TAKE f
    <2>1. [i \in 0 .. Len(array) |->
              IF i = 0 THEN 0
              ELSE IF Ex!isPrime(array[i]) THEN f[i - 1] + array[i] ELSE f[i - 1]]
          = [i \in 0 .. Len(array) |->
              IF i = 0 THEN 0
              ELSE IF Ex!Prime(array[i]) THEN f[i - 1] + array[i] ELSE f[i - 1]]
      <3>1. ASSUME NEW i \in 0 .. Len(array), i # 0
            PROVE  Ex!isPrime(array[i]) <=> Ex!Prime(array[i])
        <4>1. i \in 1 .. Len(array)
          BY <1>0, <3>1
        <4> QED
          BY <1>0, <1>1, <4>1
      <3> QED
        BY <3>1
    <2> QED
      BY <2>1, Zenon DEF AddsUp, AddsUpPrimes
  <1>3. (CHOOSE f : AddsUp(f, array)) = (CHOOSE f : AddsUpPrimes(f, array))
    BY <1>2, Zenon
  <1>4. /\ Ex!computeSum(array) = (CHOOSE f : AddsUp(f, array))[Len(array)]
        /\ LET sum[i \in 0 .. Len(array)] ==
                   IF i = 0 THEN 0
                   ELSE IF Ex!Prime(array[i]) THEN sum[i - 1] + array[i] ELSE sum[i - 1]
           IN  sum[Len(array)] = (CHOOSE f : AddsUpPrimes(f, array))[Len(array)]
    BY Zenon DEF Ex!computeSum, AddsUp, AddsUpPrimes
  <1>5. Ex!ToSet(array) \subseteq Nat
    BY <1>0 DEF Ex!ToSet
  <1>6. \A n \in Ex!ToSet(array) :
           (Ex!isPrime(n) <=> Ex!Prime(n)) /\ (Ex!check_if_prime(n) <=> Ex!Prime(n))
    BY <1>1, <1>5
  <1> QED
    BY <1>3, <1>4, <1>6, Zenon

\* What the loop of a thread adds up (ex5.c), and main.
AddsRange(f, id, n) ==
    f = [k \in 0 .. n |-> IF k = 0 THEN 0 ELSE f[k - 1] + ((id + 1) * n - n + k)]

AddsRanges(f, n) ==
    f = [k \in 0 .. n |-> IF k = 0 THEN 0 ELSE f[k - 1] + Ex!calculateSum(k - 1, n)]

LEMMA RangeSum ==
    \A id, n \in Nat : /\ Ex!calculateSum(id, n) \in Nat
                       /\ 2 * Ex!calculateSum(id, n) = n * (2 * id * n + n + 1)
  <1> SUFFICES ASSUME NEW id \in Nat, NEW n \in Nat
               PROVE  /\ Ex!calculateSum(id, n) \in Nat
                      /\ 2 * Ex!calculateSum(id, n) = n * (2 * id * n + n + 1)
    OBVIOUS
  <1> DEFINE h == CHOOSE f : AddsRange(f, id, n)
             g == [k \in 0 .. n |-> k * (id * n) + (k * (k + 1)) \div 2]
  <1>1. Ex!calculateSum(id, n) = h[n]
    BY Zenon DEF Ex!calculateSum, AddsRange
  <1>2. AddsRange(g, id, n)
    <2>1. ASSUME NEW k \in 0 .. n
          PROVE  g[k] = IF k = 0 THEN 0 ELSE g[k - 1] + ((id + 1) * n - n + k)
      <3>1. CASE k = 0
        BY <3>1
      <3>2. CASE k # 0
        <4>1. k - 1 \in 0 .. n /\ k \in Nat /\ id * n \in Nat /\ (id + 1) * n - n = id * n
          BY <3>2
        <4>2. k * (k + 1) = (k - 1) * ((k - 1) + 1) + 2 * k
          BY <4>1
        <4>3. (k - 1) * ((k - 1) + 1) \in Nat
          BY <3>2, <4>1
        <4>4. (k * (k + 1)) \div 2 = ((k - 1) * ((k - 1) + 1)) \div 2 + k
          BY <4>1, <4>2, <4>3
        <4>5. k * (id * n) = (k - 1) * (id * n) + id * n
          BY <4>1
        <4>6. /\ g[k] = k * (id * n) + (k * (k + 1)) \div 2
              /\ g[k - 1] = (k - 1) * (id * n) + ((k - 1) * ((k - 1) + 1)) \div 2
          BY <4>1
        <4>7. ((k - 1) * ((k - 1) + 1)) \div 2 \in Nat /\ (k - 1) * (id * n) \in Nat
          BY <3>2, <4>1, <4>3
        <4> HIDE DEF g
        <4> QED
          BY <3>2, <4>1, <4>4, <4>5, <4>6, <4>7
      <3> QED
        BY <3>1, <3>2
    <2> QED
      BY <2>1, Zenon DEF AddsRange
  <1>3. AddsRange(h, id, n)
    BY <1>2, Zenon
  <1> DEFINE S == {k \in Nat : k <= n => h[k] \in Nat /\ 2 * h[k] = k * (2 * id * n + k + 1)}
  <1> HIDE DEF h
  <1>4. ASSUME NEW k \in 0 .. n
        PROVE  h[k] = IF k = 0 THEN 0 ELSE h[k - 1] + ((id + 1) * n - n + k)
    BY <1>3 DEF AddsRange
  <1>5. 0 \in S
    BY <1>4
  <1>6. ASSUME NEW k \in Nat, k \in S PROVE k + 1 \in S
    <2>1. ASSUME k + 1 <= n
          PROVE  h[k + 1] \in Nat /\ 2 * h[k + 1] = (k + 1) * (2 * id * n + (k + 1) + 1)
      <3>1. h[k + 1] = h[k] + ((id + 1) * n - n + (k + 1))
        BY <1>4, <2>1
      <3>2. h[k] \in Nat /\ 2 * h[k] = k * (2 * id * n + k + 1)
        BY <1>6, <2>1
      <3>3. (id + 1) * n - n = id * n /\ id * n \in Nat
        OBVIOUS
      <3>4. (k + 1) * (2 * id * n + (k + 1) + 1) = k * (2 * id * n + k + 1) + 2 * (id * n) + 2 * (k + 1)
        OBVIOUS
      <3> QED
        BY <3>1, <3>2, <3>3, <3>4
    <2> QED
      BY <2>1
  <1>7. Nat \subseteq S
    <2> HIDE DEF S
    <2> QED
      BY <1>5, <1>6, NatSetInduction
  <1>8. h[n] \in Nat /\ 2 * h[n] = n * (2 * id * n + n + 1)
    BY <1>7
  <1> QED
    BY <1>1, <1>8

\* The ranges of n threads cover the numbers to n * n, each once (ex5.c).
THEOREM SumOfRanges == \A n \in Nat : Ex!SumWhole(n)
  <1> TAKE n \in Nat
  <1> DEFINE h == CHOOSE f : AddsRanges(f, n)
             S == {m \in Nat : m <= n =>
                     \E f \in [0 .. m -> Nat] : \A k \in 0 .. m :
                        f[k] = IF k = 0 THEN 0 ELSE f[k - 1] + Ex!calculateSum(k - 1, n)}
             T == {k \in Nat : k <= n => h[k] \in Nat /\ 2 * h[k] = k * (n * (k * n + 1))}
  <1>1. 0 \in S
    <2> DEFINE g == [k \in 0 .. 0 |-> 0]
    <2>1. g \in [0 .. 0 -> Nat] /\ g[0] = 0 /\ \A k \in 0 .. 0 : k = 0
      OBVIOUS
    <2> HIDE DEF g
    <2>2. \A k \in 0 .. 0 : g[k] = IF k = 0 THEN 0 ELSE g[k - 1] + Ex!calculateSum(k - 1, n)
      BY <2>1, Zenon
    <2>3. \E f \in [0 .. 0 -> Nat] : \A k \in 0 .. 0 :
              f[k] = IF k = 0 THEN 0 ELSE f[k - 1] + Ex!calculateSum(k - 1, n)
      BY <2>1, <2>2, Zenon
    <2> QED
      BY <2>3, Zenon
  <1>2. ASSUME NEW m \in Nat, m \in S PROVE m + 1 \in S
    <2>1. ASSUME m + 1 <= n
          PROVE  \E f \in [0 .. m + 1 -> Nat] : \A k \in 0 .. m + 1 :
                        f[k] = IF k = 0 THEN 0 ELSE f[k - 1] + Ex!calculateSum(k - 1, n)
      <3>1. PICK f \in [0 .. m -> Nat] : \A k \in 0 .. m :
                        f[k] = IF k = 0 THEN 0 ELSE f[k - 1] + Ex!calculateSum(k - 1, n)
        BY <1>2, <2>1
      <3> DEFINE g == [k \in 0 .. m + 1 |-> IF k <= m THEN f[k] ELSE f[m] + Ex!calculateSum(m, n)]
      <3>2. Ex!calculateSum(m, n) \in Nat
        BY RangeSum
      <3>3. g \in [0 .. m + 1 -> Nat]
        BY <3>2
      <3>4. \A k \in 0 .. m + 1 :
                g[k] = IF k = 0 THEN 0 ELSE g[k - 1] + Ex!calculateSum(k - 1, n)
        <4> TAKE k \in 0 .. m + 1
        <4>1. CASE k <= m
          <5>1. g[k] = f[k] /\ k \in 0 .. m /\ (k # 0 => g[k - 1] = f[k - 1])
            BY <4>1
          <5> QED
            BY <3>1, <5>1
        <4>2. CASE k = m + 1
          <5>1. /\ g[k] = f[m] + Ex!calculateSum(m, n) /\ g[k - 1] = f[m]
                /\ k - 1 = m /\ k # 0
            BY <4>2
          <5> QED
            BY <5>1
        <4> QED
          BY <4>1, <4>2
      <3> HIDE DEF g
      <3> QED
        BY <3>3, <3>4
    <2> QED
      BY <2>1
  <1>3. n \in S
    <2>1. Nat \subseteq S
      <3> HIDE DEF S
      <3> QED
        BY <1>1, <1>2, NatSetInduction
    <2> HIDE DEF S
    <2> QED
      BY <2>1
  <1>4. PICK g \in [0 .. n -> Nat] : \A k \in 0 .. n :
            g[k] = IF k = 0 THEN 0 ELSE g[k - 1] + Ex!calculateSum(k - 1, n)
    BY <1>3
  <1>5. AddsRanges(g, n)
    BY <1>4 DEF AddsRanges
  <1>6. AddsRanges(h, n)
    BY <1>5, Zenon
  <1> HIDE DEF h
  <1>7. ASSUME NEW k \in 0 .. n
        PROVE  h[k] = IF k = 0 THEN 0 ELSE h[k - 1] + Ex!calculateSum(k - 1, n)
    BY <1>6 DEF AddsRanges
  <1>8. 0 \in T
    BY <1>7
  <1>9. ASSUME NEW k \in Nat, k \in T PROVE k + 1 \in T
    <2>1. ASSUME k + 1 <= n
          PROVE  h[k + 1] \in Nat /\ 2 * h[k + 1] = (k + 1) * (n * ((k + 1) * n + 1))
      <3> DEFINE c1 == Ex!calculateSum(k, n)
      <3>1. h[k + 1] = h[k] + c1
        BY <1>7, <2>1
      <3>2. h[k] \in Nat /\ 2 * h[k] = k * (n * (k * n + 1))
        BY <1>9, <2>1
      <3>3. c1 \in Nat /\ 2 * c1 = n * (2 * k * n + n + 1)
        BY RangeSum
      <3> HIDE DEF c1
      <3>4. (k + 1) * (n * ((k + 1) * n + 1)) = k * (n * (k * n + 1)) + n * (2 * k * n + n + 1)
        OBVIOUS
      <3> DEFINE a == k * (n * (k * n + 1))
                 b == n * (2 * k * n + n + 1)
                 d == (k + 1) * (n * ((k + 1) * n + 1))
      <3>5. 2 * h[k] = a /\ 2 * c1 = b /\ d = a + b
        BY <3>2, <3>3, <3>4
      <3> HIDE DEF a, b, d
      <3>6. h[k + 1] \in Nat /\ 2 * h[k + 1] = d
        BY <3>1, <3>2, <3>3, <3>5, SMTT(30)
      <3> QED
        BY <3>6 DEF d
    <2> QED
      BY <2>1
  <1>10. Nat \subseteq T
    <2> HIDE DEF T
    <2> QED
      BY <1>8, <1>9, NatSetInduction
  <1>11. 2 * h[n] = n * (n * (n * n + 1))
    BY <1>10
  <1>12. n * (n * (n * n + 1)) = n * n * (n * n + 1)
    OBVIOUS
  <1>13. Ex!SumWhole(n) <=> 2 * h[n] = n * n * (n * n + 1)
    BY Zenon DEF Ex!SumWhole, AddsRanges, h
  <1> QED
    BY <1>11, <1>12, <1>13
------------------------------------------------------------------------------
(* The search for a line.                                                  *)

\* A set of numbers that is not empty has a least one.
LEMMA Least ==
    ASSUME NEW S \in SUBSET Nat, NEW z \in S
    PROVE  Ex!Min(S) \in S /\ \A y \in S : Ex!Min(S) <= y
  <1>1. \E x \in S : \A y \in S : x <= y
    <2> SUFFICES ASSUME \A x \in S : \E y \in S : ~(x <= y) PROVE FALSE
      BY Zenon
    <2> DEFINE T == {m \in Nat : \A y \in S : m < y}
    <2>1. 0 \in T
      <3>1. 0 \notin S
        OBVIOUS
      <3> QED
        BY <3>1
    <2>2. ASSUME NEW m \in Nat, m \in T PROVE m + 1 \in T
      <3>1. m + 1 \notin S
        <4> SUFFICES ASSUME m + 1 \in S PROVE FALSE
          OBVIOUS
        <4>1. PICK y \in S : ~(m + 1 <= y)
          OBVIOUS
        <4> QED
          BY <2>2, <4>1
      <3> QED
        BY <2>2, <3>1
    <2>3. Nat \subseteq T
      <3> HIDE DEF T
      <3> QED
        BY <2>1, <2>2, NatSetInduction
    <2> QED
      BY <2>3
  <1> QED
    BY <1>1, Zenon DEF Ex!Min

\* The number of the current line goes up by one at each newline.
LEMMA Lines ==
    ASSUME NEW X, NEW f \in Seq(X)
    PROVE  /\ Ex!CurrentLine(f, 1) = 0
           /\ \A k \in Nat : Ex!CurrentLine(f, k) \in Nat
           /\ \A k \in Nat \ {0} : Ex!CurrentLine(f, k + 1) =
                 IF f[k] = Ex!Newline THEN Ex!CurrentLine(f, k) + 1 ELSE Ex!CurrentLine(f, k)
           /\ \A a, b \in Nat : a <= b => Ex!CurrentLine(f, a) <= Ex!CurrentLine(f, b)
  <1> DEFINE N(k) == {j \in 1 .. k - 1 : f[j] = Ex!Newline}
  <1>1. \A k : Ex!CurrentLine(f, k) = Cardinality(N(k))
    BY ExCardinality DEF Ex!CurrentLine
  <1>2. \A k \in Nat : IsFiniteSet(N(k))
    <2> TAKE k \in Nat
    <2>1. IsFiniteSet(1 .. k - 1)
      BY FS_Interval
    <2>2. N(k) \in SUBSET (1 .. k - 1)
      OBVIOUS
    <2> QED
      BY <2>1, <2>2, FS_Subset
  <1>3. N(1) = {}
    OBVIOUS
  <1>4. \A k \in Nat \ {0} : /\ k \notin N(k)
                             /\ N(k + 1) = IF f[k] = Ex!Newline THEN N(k) \cup {k} ELSE N(k)
    <2> TAKE k \in Nat \ {0}
    <2>1. 1 .. (k + 1) - 1 = (1 .. k - 1) \cup {k} /\ k \notin 1 .. k - 1
      OBVIOUS
    <2> QED
      BY <2>1
  <1>5. \A a, b \in Nat : a <= b => N(a) \in SUBSET N(b)
    OBVIOUS
  <1> HIDE DEF N
  <1>6. \A k \in Nat : Cardinality(N(k)) \in Nat
    BY <1>2, FS_CardinalityType
  <1>7. \A k \in Nat \ {0} : Cardinality(N(k + 1)) =
            IF f[k] = Ex!Newline THEN Cardinality(N(k)) + 1 ELSE Cardinality(N(k))
    <2> TAKE k \in Nat \ {0}
    <2>1. Cardinality(N(k) \cup {k}) = Cardinality(N(k)) + 1
      BY <1>2, <1>4, FS_AddElement
    <2> QED
      BY <1>4, <2>1
  <1>8. \A a, b \in Nat : a <= b => Cardinality(N(a)) <= Cardinality(N(b))
    BY <1>2, <1>5, FS_Subset
  <1> QED
    BY <1>1, <1>3, <1>6, <1>7, <1>8, FS_EmptySet, ZenonT(40)

\* Where the loops stop: no newline is passed too much, and none is in the line.
LEMMA Stops ==
    ASSUME NEW X, NEW f \in Seq(X), NEW line_no \in Nat
    PROVE  LET start == Ex!Skip(f, line_no)
               e == Ex!Fill(f, start)
           IN  /\ start \in 1 .. Len(f) + 1
               /\ Ex!CurrentLine(f, start) <= line_no
               /\ Ex!CurrentLine(f, start) < line_no => start = Len(f) + 1
               /\ \A k \in 1 .. start - 1 : Ex!CurrentLine(f, k) # line_no
               /\ e \in start .. Len(f) + 1
               /\ e <= Len(f) => f[e] = Ex!Newline
               /\ \A k \in start .. e - 1 : f[k] # Ex!Newline
  <1> DEFINE start == Ex!Skip(f, line_no)
             e == Ex!Fill(f, start)
             S == {k \in 1 .. Len(f) + 1 : Ex!CurrentLine(f, k) = line_no \/ k > Len(f)}
             T == {k \in start .. Len(f) + 1 : k > Len(f) \/ f[k] = Ex!Newline}
  <1>0. Len(f) \in Nat
    OBVIOUS
  <1>1. start \in S /\ \A k \in S : start <= k
    <2>1. S \in SUBSET Nat /\ Len(f) + 1 \in S
      BY <1>0
    <2>2. start = Ex!Min(S)
      BY Zenon DEF Ex!Skip
    <2> HIDE DEF S, start
    <2> QED
      BY <2>1, <2>2, Least
  <1> HIDE DEF start
  <1>2. e \in T /\ \A k \in T : e <= k
    <2>1. T \in SUBSET Nat /\ Len(f) + 1 \in T
      BY <1>0, <1>1
    <2>2. e = Ex!Min(T)
      BY Zenon DEF Ex!Fill
    <2> HIDE DEF T, e
    <2> QED
      BY <2>1, <2>2, Least
  <1> HIDE DEF e
  <1>3. \A k \in 1 .. start - 1 : Ex!CurrentLine(f, k) # line_no
    BY <1>0, <1>1
  <1>4. \A k \in start .. e - 1 : f[k] # Ex!Newline
    BY <1>0, <1>1, <1>2
  <1> DEFINE R == {k \in Nat : k + 1 <= start => Ex!CurrentLine(f, k + 1) <= line_no}
  <1>5. 0 \in R
    BY Lines
  <1>6. ASSUME NEW k \in Nat, k \in R PROVE k + 1 \in R
    <2>1. ASSUME (k + 1) + 1 <= start
          PROVE  Ex!CurrentLine(f, (k + 1) + 1) <= line_no
      <3>1. Ex!CurrentLine(f, k + 1) <= line_no /\ k + 1 \in 1 .. start - 1 /\ k + 1 \in Nat \ {0}
        BY <1>0, <1>1, <1>6, <2>1
      <3>2. Ex!CurrentLine(f, k + 1) # line_no /\ Ex!CurrentLine(f, k + 1) \in Nat
        BY <1>3, <3>1, Lines
      <3>3. Ex!CurrentLine(f, (k + 1) + 1) = IF f[k + 1] = Ex!Newline
              THEN Ex!CurrentLine(f, k + 1) + 1 ELSE Ex!CurrentLine(f, k + 1)
        BY <3>1, Lines
      <3> QED
        BY <3>1, <3>2, <3>3
    <2> QED
      BY <2>1
  <1>7. Nat \subseteq R
    <2> HIDE DEF R
    <2> QED
      BY <1>5, <1>6, NatSetInduction
  <1>8. Ex!CurrentLine(f, start) <= line_no
    <2>1. start - 1 \in Nat /\ (start - 1) + 1 = start /\ start <= start
      BY <1>0, <1>1
    <2>2. start - 1 \in R
      BY <1>7, <2>1, Zenon
    <2> QED
      BY <2>1, <2>2
  <1>9. start \in 1 .. Len(f) + 1 /\ (Ex!CurrentLine(f, start) < line_no => start = Len(f) + 1)
    BY <1>0, <1>1
  <1>10. e \in start .. Len(f) + 1 /\ (e <= Len(f) => f[e] = Ex!Newline)
    BY <1>0, <1>1, <1>2
  <1> QED
    BY <1>3, <1>4, <1>8, <1>9, <1>10 DEF start, e

\* The line with a number begins where the first loop stops and ends where the second one
\* does, and it is the only one with its number.
LEMMA OneLine ==
    ASSUME NEW X, NEW f \in Seq(X), NEW line_no \in Nat, NEW g \in Seq(X), Ex!IsLine(f, line_no, g)
    PROVE  LET start == Ex!Skip(f, line_no)
           IN  /\ Ex!CurrentLine(f, start) = line_no
               /\ Len(g) = Ex!Fill(f, start) - start
               /\ \A j \in 1 .. Len(g) : g[j] = f[start + (j - 1)]
  <1> DEFINE start == Ex!Skip(f, line_no)
             e == Ex!Fill(f, start)
             C(k) == Ex!CurrentLine(f, k)
  <1>0. Len(f) \in Nat /\ Len(g) \in Nat
    OBVIOUS
  <1>1. PICK k \in 0 .. Len(f) :
          LET before == SubSeq(f, 1, k)
              after == SubSeq(f, k + Len(g) + 1, Len(f))
          IN  /\ f = before \o g \o after
              /\ Cardinality({j \in 1 .. k : f[j] = Ex!Newline}) = line_no
              /\ Ex!Newline \notin Ex!ToSet(g)
              /\ (k = 0 \/ f[k] = Ex!Newline) /\ (after = <<>> \/ Head(after) = Ex!Newline)
    BY Zenon, ExCardinality DEF Ex!IsLine
  <1> DEFINE before == SubSeq(f, 1, k)
             after == SubSeq(f, k + Len(g) + 1, Len(f))
  <1>a. /\ f = before \o g \o after
        /\ Ex!Newline \notin Ex!ToSet(g)
        /\ k = 0 \/ f[k] = Ex!Newline
        /\ after = <<>> \/ Head(after) = Ex!Newline
    BY <1>1, Zenon
  <1>2. C(k + 1) = line_no
    <2>1. (k + 1) - 1 = k
      BY <1>0
    <2> QED
      BY <1>1, <2>1, ExCardinality DEF Ex!CurrentLine
  <1>3. /\ start \in 1 .. Len(f) + 1
        /\ C(start) <= line_no
        /\ C(start) < line_no => start = Len(f) + 1
        /\ \A j \in 1 .. start - 1 : C(j) # line_no
        /\ e \in start .. Len(f) + 1
        /\ e <= Len(f) => f[e] = Ex!Newline
        /\ \A j \in start .. e - 1 : f[j] # Ex!Newline
    BY Stops
  <1>4. /\ \A a \in Nat : C(a) \in Nat
        /\ \A a \in Nat \ {0} : C(a + 1) = IF f[a] = Ex!Newline THEN C(a) + 1 ELSE C(a)
        /\ \A a, b \in Nat : a <= b => C(a) <= C(b)
    BY Lines
  <1> HIDE DEF start, e, C
  <1>5. k + 1 = start /\ C(start) = line_no
    <2>1. ~(k + 1 < start)
      BY <1>0, <1>2, <1>3
    <2>2. k + 1 > start => FALSE
      <3> SUFFICES ASSUME k + 1 > start PROVE FALSE
        OBVIOUS
      <3>1. k \in Nat \ {0} /\ start <= k /\ start <= Len(f) /\ start \in Nat
        BY <1>0, <1>3
      <3>a. f[k] = Ex!Newline
        BY <1>a, <3>1
      <3>b. C(start) \in Nat
        BY <1>4, <3>1
      <3>2. C(start) = line_no
        BY <1>0, <1>3, <3>1, <3>b
      <3>3. C(start) <= C(k) /\ C(k + 1) = C(k) + 1 /\ C(k) \in Nat
        BY <1>4, <3>1, <3>a
      <3> QED
        BY <1>2, <3>2, <3>3
    <2>3. k + 1 = start
      BY <1>0, <1>3, <2>1, <2>2
    <2> QED
      BY <1>2, <2>3
  <1>6. /\ before \in Seq(X) /\ Len(before) = k
        /\ after \in Seq(X) /\ Len(f) = k + Len(g) + Len(after)
        /\ \A j \in 1 .. Len(g) : f[k + j] = g[j]
        /\ after # <<>> => /\ k + Len(g) + 1 <= Len(f)
                           /\ Head(after) = f[k + Len(g) + 1]
    <2>1. before \in Seq(X) /\ Len(before) = k /\ after \in Seq(X)
      BY <1>0
    <2>2. f = before \o g \o after
      BY <1>a
    <2>3. after # <<>> => /\ k + Len(g) + 1 <= Len(f)
                          /\ Head(after) = f[k + Len(g) + 1]
      BY <1>0
    <2> HIDE DEF before, after
    <2>4. before \o g \in Seq(X) /\ Len(before \o g) = k + Len(g)
      BY <2>1, ConcatProperties
    <2>5. \A j \in 1 .. Len(g) : (before \o g)[k + j] = g[j]
      BY <1>0, <2>1
    <2> DEFINE b == before \o g
    <2>a. b \in Seq(X) /\ Len(b) = k + Len(g) /\ \A j \in 1 .. Len(g) : b[k + j] = g[j]
      BY <2>4, <2>5
    <2>b. f = b \o after
      BY <2>2
    <2> HIDE DEF b
    <2>6. \A j \in 1 .. Len(b) : (b \o after)[j] = b[j]
      BY <2>1, <2>a
    <2>c. Len(b \o after) = Len(b) + Len(after)
      BY <2>1, <2>a, ConcatProperties, Zenon
    <2>7. Len(f) = k + Len(g) + Len(after)
      BY <2>a, <2>b, <2>c, Zenon
    <2>8. \A j \in 1 .. Len(g) : f[k + j] = g[j]
      <3> TAKE j \in 1 .. Len(g)
      <3>1. k + j \in 1 .. Len(b)
        BY <1>0, <2>a
      <3>2. b[k + j] = g[j]
        BY <2>a
      <3> QED
        BY <2>6, <2>b, <3>1, <3>2, Zenon
    <2> QED
      BY <2>1, <2>3, <2>7, <2>8
  <1> HIDE DEF before, after
  <1>7. \A j \in 1 .. Len(g) : f[k + j] # Ex!Newline
    <2>1. \A j \in 1 .. Len(g) : g[j] # Ex!Newline
      <3>1. DOMAIN g = 1 .. Len(g)
        OBVIOUS
      <3>2. \A j \in DOMAIN g : g[j] # Ex!Newline
        BY <1>a, Zenon DEF Ex!ToSet
      <3> QED
        BY <3>1, <3>2
    <2> QED
      BY <1>6, <2>1, Zenon
  <1>8. ~(e < start + Len(g))
    <2> SUFFICES ASSUME e < start + Len(g) PROVE FALSE
      OBVIOUS
    <2>1. Len(f) \in Nat /\ Len(g) \in Nat /\ k \in Nat /\ Len(after) \in Nat
      BY <1>0, <1>6
    <2>2. e \in Nat /\ k + 1 <= e /\ e < k + 1 + Len(g) /\ k + Len(g) <= Len(f)
      BY <1>3, <1>5, <1>6, <2>1, SMTT(30)
    <2>3. e <= Len(f) /\ e - k \in 1 .. Len(g) /\ k + (e - k) = e
      BY <2>1, <2>2
    <2> QED
      BY <1>3, <1>7, <2>3
  <1>9. ASSUME after = <<>> PROVE Len(g) = e - start
    <2>1. Len(after) = 0
      BY <1>9
    <2>2. start + Len(g) = Len(f) + 1
      BY <1>0, <1>5, <1>6, <2>1
    <2>3. e = start + Len(g)
      BY <1>0, <1>3, <1>8, <2>2
    <2> QED
      BY <1>0, <1>3, <2>3
  <1>10. ASSUME after # <<>> PROVE Len(g) = e - start
    <2>1. f[start + Len(g)] = Ex!Newline /\ start + Len(g) <= Len(f)
      <3>1. Head(after) = Ex!Newline
        BY <1>a, <1>10
      <3>2. k + Len(g) + 1 = start + Len(g)
        BY <1>0, <1>5
      <3> QED
        BY <1>6, <1>10, <3>1, <3>2
    <2>2. ~(start + Len(g) < e)
      BY <1>0, <1>3, <2>1
    <2>3. e = start + Len(g)
      BY <1>0, <1>3, <1>8, <2>2
    <2> QED
      BY <1>0, <1>3, <2>3
  <1>11. Len(g) = e - start
    BY <1>9, <1>10
  <1>12. \A j \in 1 .. Len(g) : g[j] = f[start + (j - 1)]
    <2> TAKE j \in 1 .. Len(g)
    <2>1. k + j = start + (j - 1)
      BY <1>0, <1>5
    <2> QED
      BY <1>6, <2>1
  <1> QED
    BY <1>5, <1>11, <1>12 DEF start, e, C

\* What is between the two places is a line with that number, if there is one.
LEMMA ThatLine ==
    ASSUME NEW X, NEW f \in Seq(X), NEW line_no \in Nat,
           Ex!CurrentLine(f, Ex!Skip(f, line_no)) = line_no
    PROVE  LET start == Ex!Skip(f, line_no)
               e == Ex!Fill(f, start)
           IN  /\ Len(SubSeq(f, start, e - 1)) = e - start
               /\ Ex!IsLine(f, line_no, SubSeq(f, start, e - 1))
  <1> DEFINE start == Ex!Skip(f, line_no)
             e == Ex!Fill(f, start)
             g == SubSeq(f, start, e - 1)
             C(k) == Ex!CurrentLine(f, k)
  <1>0. Len(f) \in Nat
    OBVIOUS
  <1>1. /\ start \in 1 .. Len(f) + 1
        /\ \A j \in 1 .. start - 1 : C(j) # line_no
        /\ e \in start .. Len(f) + 1
        /\ e <= Len(f) => f[e] = Ex!Newline
        /\ \A j \in start .. e - 1 : f[j] # Ex!Newline
    BY Stops
  <1>2. C(start) = line_no
    OBVIOUS
  <1>3. /\ C(1) = 0
        /\ \A a \in Nat \ {0} : C(a + 1) = IF f[a] = Ex!Newline THEN C(a) + 1 ELSE C(a)
    BY Lines
  <1>4. /\ start - 1 \in 0 .. Len(f) /\ start - 1 + (e - start) + 1 = e
        /\ (start - 1) + 1 = start
    BY <1>0, <1>1
  <1> HIDE DEF start, e
  <1>5. g \in Seq(X) /\ Len(g) = e - start /\ \A j \in 1 .. e - start : g[j] = f[start - 1 + j]
    BY <1>0, <1>1
  <1> DEFINE before == SubSeq(f, 1, start - 1)
             after == SubSeq(f, e, Len(f))
  <1>6. /\ before \in Seq(X) /\ Len(before) = start - 1
        /\ \A j \in 1 .. start - 1 : before[j] = f[j]
    BY <1>0, <1>1
  <1>7. /\ after \in Seq(X) /\ Len(after) = Len(f) + 1 - e
        /\ \A j \in 1 .. Len(f) + 1 - e : after[j] = f[e - 1 + j]
    BY <1>0, <1>1
  <1> HIDE DEF g, before, after
  <1>8. f = before \o g \o after
    <2>1. /\ before \o g \in Seq(X) /\ Len(before \o g) = e - 1
          /\ \A j \in 1 .. e - 1 : (before \o g)[j] = f[j]
      <3>1. before \o g \in Seq(X) /\ Len(before \o g) = (start - 1) + (e - start)
        <4>1. Len(before \o g) = Len(before) + Len(g) /\ before \o g \in Seq(X)
          BY <1>5, <1>6, ConcatProperties, Zenon
        <4> QED
          BY <1>5, <1>6, <4>1, Zenon
      <3>2. (start - 1) + (e - start) = e - 1
        BY <1>0, <1>1
      <3>3. ASSUME NEW j \in 1 .. e - 1 PROVE (before \o g)[j] = f[j]
        <4>1. CASE j <= start - 1
          <5>1. j \in 1 .. start - 1 /\ j \in 1 .. Len(before) /\ j \in 1 .. Len(before) + Len(g)
            BY <1>0, <1>1, <1>5, <1>6, <4>1
          <5>2. (before \o g)[j] = before[j]
            BY <1>5, <1>6, <5>1, ConcatProperties
          <5> QED
            BY <1>6, <5>1, <5>2
        <4>2. CASE j > start - 1
          <5>1. j - (start - 1) \in 1 .. e - start /\ start - 1 + (j - (start - 1)) = j
            BY <1>0, <1>1, <4>2
          <5>2. (before \o g)[j] = g[j - (start - 1)]
            BY <1>0, <1>1, <1>5, <1>6, <4>2, <5>1
          <5> QED
            BY <1>5, <5>1, <5>2
        <4>3. j <= start - 1 \/ j > start - 1
          BY <1>0, <1>1
        <4> QED
          BY <4>1, <4>2, <4>3, Zenon
      <3> QED
        BY <3>1, <3>2, <3>3
    <2> DEFINE b == before \o g
    <2> HIDE DEF b
    <2>2. b \o after \in Seq(X) /\ Len(b \o after) = Len(f)
      BY <1>0, <1>1, <1>7, <2>1, SMTT(30) DEF b
    <2>3. ASSUME NEW j \in 1 .. Len(f) PROVE (b \o after)[j] = f[j]
      <3>1. CASE j <= e - 1
        BY <1>0, <1>1, <1>7, <2>1, <3>1 DEF b
      <3>2. CASE j > e - 1
        <4>1. j - (e - 1) \in 1 .. Len(f) + 1 - e /\ e - 1 + (j - (e - 1)) = j
          BY <1>0, <1>1, <3>2
        <4>2. (b \o after)[j] = after[j - (e - 1)]
          BY <1>0, <1>1, <1>7, <2>1, <3>2, <4>1, SMTT(30) DEF b
        <4> QED
          BY <1>7, <4>1, <4>2
      <3>3. j <= e - 1 \/ j > e - 1
        BY <1>0, <1>1
      <3> QED
        BY <3>1, <3>2, <3>3, Zenon
    <2>4. b \o after = f
      BY <2>2, <2>3, SeqEqual
    <2> QED
      BY <2>4 DEF b
  <1>9. Cardinality({j \in 1 .. start - 1 : f[j] = Ex!Newline}) = line_no
    BY <1>2, ExCardinality DEF Ex!CurrentLine
  <1>10. Ex!Newline \notin Ex!ToSet(g)
    <2>1. ASSUME NEW j \in 1 .. e - start PROVE g[j] # Ex!Newline
      <3>1. start - 1 + j \in start .. e - 1
        BY <1>0, <1>1
      <3> QED
        BY <1>1, <1>5, <3>1
    <2>2. DOMAIN g = 1 .. e - start
      BY <1>5
    <2> QED
      BY <2>1, <2>2 DEF Ex!ToSet
  <1>11. start - 1 = 0 \/ f[start - 1] = Ex!Newline
    <2> SUFFICES ASSUME start - 1 # 0, f[start - 1] # Ex!Newline PROVE FALSE
      OBVIOUS
    <2>1. start - 1 \in Nat \ {0} /\ start - 1 \in 1 .. start - 1
      BY <1>0, <1>1
    <2>2. C(start) = C(start - 1)
      BY <1>3, <1>4, <2>1
    <2> QED
      BY <1>1, <1>2, <2>1, <2>2
  <1>12. after = <<>> \/ Head(after) = Ex!Newline
    <2>1. CASE e = Len(f) + 1
      BY <1>0, <1>7, <2>1
    <2>2. CASE e # Len(f) + 1
      <3>1. e <= Len(f) /\ 1 \in 1 .. Len(f) + 1 - e /\ e - 1 + 1 = e
        BY <1>0, <1>1, <2>2
      <3>2. Head(after) = after[1]
        BY <1>0, <1>1, <1>7, <3>1
      <3> QED
        BY <1>1, <1>7, <3>1, <3>2
    <2> QED
      BY <2>1, <2>2
  <1>13. Ex!IsLine(f, line_no, g)
    <2>1. start - 1 + Len(g) + 1 = e
      BY <1>4, <1>5
    <2>2. LET b == SubSeq(f, 1, start - 1)
              a == SubSeq(f, start - 1 + Len(g) + 1, Len(f))
          IN  /\ f = b \o g \o a
              /\ Cardinality({j \in 1 .. start - 1 : f[j] = Ex!Newline}) = line_no
              /\ Ex!Newline \notin Ex!ToSet(g)
              /\ (start - 1 = 0 \/ f[start - 1] = Ex!Newline)
              /\ (a = <<>> \/ Head(a) = Ex!Newline)
      BY <1>8, <1>9, <1>10, <1>11, <1>12, <2>1, Zenon DEF before, after
    <2> QED
      BY <1>4, <2>2, ExCardinality, Zenon DEF Ex!IsLine
  <1> QED
    BY <1>5, <1>13 DEF start, e, g

\* A line that is shorter than the buffer is found, and the result is the error when there
\* is no line with the number or it is longer (lab4_ex1_2.c).
THEOREM LineIsFound ==
    ASSUME NEW X, NEW f \in Seq(X), NEW line_no \in Nat, NEW max_length \in Nat \ {0}
    PROVE  Ex!LineFound(f, line_no, max_length)
  <1> DEFINE start == Ex!Skip(f, line_no)
             e == Ex!Fill(f, start)
             g == SubSeq(f, start, e - 1)
             C(k) == Ex!CurrentLine(f, k)
             got == Ex!get_line(f, line_no, max_length)
             lines == {u \in {SubSeq(f, j, k) : j \in 1 .. Len(f) + 1, k \in 0 .. Len(f)} :
                          Ex!IsLine(f, line_no, u)}
  <1>0. Len(f) \in Nat
    OBVIOUS
  <1>1. start \in 1 .. Len(f) + 1 /\ C(start) <= line_no /\ e \in start .. Len(f) + 1
    BY Stops
  <1>2. C(start) \in Nat
    BY <1>1, Lines
  <1>3. \A u \in lines : /\ u \in Seq(X) /\ C(start) = line_no /\ Len(u) = e - start
                         /\ \A j \in 1 .. Len(u) : u[j] = f[start + (j - 1)]
    <2> SUFFICES ASSUME NEW u, u \in lines
                 PROVE  /\ u \in Seq(X) /\ C(start) = line_no /\ Len(u) = e - start
                        /\ \A j \in 1 .. Len(u) : u[j] = f[start + (j - 1)]
      <3> HIDE DEF lines
      <3> QED
        BY Zenon
    <2>1. u \in Seq(X)
      <3>1. \A j \in 1 .. Len(f) + 1, k \in 0 .. Len(f) : SubSeq(f, j, k) \in Seq(X)
        BY <1>0
      <3>2. u \in {SubSeq(f, j, k) : j \in 1 .. Len(f) + 1, k \in 0 .. Len(f)}
        OBVIOUS
      <3>3. \E j \in 1 .. Len(f) + 1 : \E k \in 0 .. Len(f) : u = SubSeq(f, j, k)
        BY <3>2, SMT
      <3> QED
        BY <3>1, <3>3, Zenon
    <2>2. Ex!IsLine(f, line_no, u)
      OBVIOUS
    <2> HIDE DEF lines
    <2> QED
      BY <2>1, <2>2, OneLine
  <1>4. C(start) = line_no => g \in lines /\ Len(g) = e - start
    <2> SUFFICES ASSUME C(start) = line_no PROVE g \in lines /\ Len(g) = e - start
      <3> HIDE DEF lines, g, C
      <3> QED
        BY Zenon
    <2>2. Len(g) = e - start /\ Ex!IsLine(f, line_no, g)
      BY ThatLine
    <2>3. e - 1 \in 0 .. Len(f) /\ start \in 1 .. Len(f) + 1
      BY <1>0, <1>1
    <2>4. g \in {SubSeq(f, j, k) : j \in 1 .. Len(f) + 1, k \in 0 .. Len(f)}
      <3> HIDE DEF start, e
      <3> QED
        BY <2>3, SMT
    <2> HIDE DEF g
    <2> QED
      BY <2>2, <2>4
  <1>5. got = IF C(start) < line_no \/ e - start > max_length
              THEN [result |-> -1, line |-> <<>>, line_length |-> 0]
              ELSE [result |-> 0, line_length |-> e - start,
                    line |-> SubSeq(f, start, start + (IF e - start < max_length THEN e - start
                                                       ELSE max_length - 1) - 1)]
    BY Zenon DEF Ex!get_line
  <1> HIDE DEF start, e, C, lines, got
  <1>6. (\A u \in lines : Len(u) > max_length) => got.result = -1
    <2>1. (C(start) < line_no \/ e - start > max_length) => got.result = -1
      BY <1>5
    <2>2. CASE C(start) = line_no
      BY <1>4, <2>1, <2>2
    <2>3. CASE C(start) # line_no
      BY <1>1, <1>2, <2>1, <2>3
    <2> QED
      BY <2>2, <2>3
  <1>7. ASSUME NEW u \in lines, Len(u) < max_length
        PROVE  got = [result |-> 0, line |-> u, line_length |-> Len(u)]
    <2>1. /\ C(start) = line_no /\ Len(u) = e - start
          /\ ~(C(start) < line_no) /\ ~(e - start > max_length) /\ e - start < max_length
      BY <1>0, <1>1, <1>2, <1>3, <1>7
    <2>2. u = g
      <3>1. /\ u \in Seq(X) /\ Len(u) = e - start
            /\ \A j \in 1 .. Len(u) : u[j] = f[start + (j - 1)]
        BY <1>3, <1>7
      <3>2. g \in lines /\ Len(g) = e - start
        BY <1>4, <2>1
      <3> HIDE DEF g
      <3>3. g \in Seq(X) /\ \A j \in 1 .. Len(g) : g[j] = f[start + (j - 1)]
        BY <1>3, <3>2
      <3>4. \A j \in 1 .. Len(u) : u[j] = g[j]
        BY <3>1, <3>2, <3>3
      <3> QED
        BY <3>1, <3>2, <3>3, <3>4, SeqEqual
    <2>3. start + (e - start) - 1 = e - 1
      BY <1>0, <1>1
    <2>4. got = [result |-> 0, line_length |-> e - start,
                 line |-> SubSeq(f, start, start + (e - start) - 1)]
      BY <1>5, <2>1, Zenon
    <2> HIDE DEF g
    <2> QED
      BY <2>1, <2>2, <2>3, <2>4 DEF g
  <1> QED
    <2>1. LET v == Ex!get_line(f, line_no, max_length)
              l == {u \in {SubSeq(f, j, k) : j \in 1 .. Len(f) + 1, k \in 0 .. Len(f)} :
                          Ex!IsLine(f, line_no, u)}
          IN  /\ \A u \in l : Len(u) < max_length =>
                    v = [result |-> 0, line |-> u, line_length |-> Len(u)]
              /\ (\A u \in l : Len(u) > max_length) => v.result = -1
      BY <1>6, <1>7, SMTT(30) DEF got, lines
    <2> QED
      BY <2>1, SMTT(30) DEF Ex!LineFound
------------------------------------------------------------------------------
(* The removal of vowels.                                                  *)

\* The text after the markers are set, and the equation of the loop that shifts (lab12_ex2_2.c).
Marked(file) == [k \in 1 .. Len(file) |-> IF file[k] = Ex!Vowel THEN Ex!Deleted ELSE file[k]]

Shifts(g, file) ==
    g = [j \in 0 .. Len(file) |-> IF j = 0 THEN Marked(file) ELSE Ex!ShiftFrom(g[j - 1], j)]

\* The numbers of vowels and of other characters up to a place.
Vowels(file, k) == Cardinality({q \in 1 .. k : file[q] = Ex!Vowel})
Others(file, k) == Cardinality({q \in 1 .. k : file[q] # Ex!Vowel})

LEMMA RemovalOfVowels ==
    \A file : Ex!RemoveVowels(file) =
        [k \in 1 .. Len(file) |->
            IF k \in Len(file) - Vowels(file, Len(file)) .. Len(file) - 1 THEN "."
            ELSE (CHOOSE g : Shifts(g, file))[Len(file)][k]]
  <1> TAKE file
  <1>1. Vowels(file, Len(file)) = Ex!Cardinality({k \in 1 .. Len(file) : file[k] = Ex!Vowel})
    BY ExCardinality, Zenon DEF Vowels
  <1>2. Ex!RemoveVowels(file) =
          [k \in 1 .. Len(file) |->
             IF k \in Len(file) - Ex!Cardinality({q \in 1 .. Len(file) : file[q] = Ex!Vowel}) .. Len(file) - 1
             THEN "."
             ELSE (CHOOSE g : Shifts(g, file))[Len(file)][k]]
    BY Zenon DEF Ex!RemoveVowels, Shifts, Marked
  <1> QED
    BY <1>1, <1>2, Zenon

LEMMA VowelsAndOthers ==
    ASSUME NEW X, NEW file \in Seq(X)
    PROVE  /\ \A k \in Nat : /\ Vowels(file, k) \in Nat /\ Others(file, k) \in Nat
                             /\ Vowels(file, k) + Others(file, k) = k
           /\ \A k \in Nat : Others(file, k + 1) =
                 IF file[k + 1] = Ex!Vowel THEN Others(file, k) ELSE Others(file, k) + 1
           /\ \A a, b \in Nat : a <= b => Others(file, a) <= Others(file, b)
  <1> DEFINE V(k) == {q \in 1 .. k : file[q] = Ex!Vowel}
             O(k) == {q \in 1 .. k : file[q] # Ex!Vowel}
  <1>1. \A k \in Nat : IsFiniteSet(1 .. k) /\ Cardinality(1 .. k) = k
    BY FS_Interval
  <1>2. \A k \in Nat : V(k) \in SUBSET (1 .. k) /\ O(k) \in SUBSET (1 .. k)
    OBVIOUS
  <1>3. \A k \in Nat : V(k) \cup O(k) = 1 .. k /\ V(k) \cap O(k) = {}
    OBVIOUS
  <1>4. \A k \in Nat : /\ k + 1 \notin O(k)
                       /\ O(k + 1) = IF file[k + 1] = Ex!Vowel THEN O(k) ELSE O(k) \cup {k + 1}
    <2> TAKE k \in Nat
    <2>1. 1 .. k + 1 = (1 .. k) \cup {k + 1} /\ k + 1 \notin 1 .. k
      OBVIOUS
    <2> QED
      BY <2>1
  <1>5. \A a, b \in Nat : a <= b => O(a) \in SUBSET O(b)
    OBVIOUS
  <1>6. \A k : Vowels(file, k) = Cardinality(V(k)) /\ Others(file, k) = Cardinality(O(k))
    BY DEF Vowels, Others
  <1> HIDE DEF V, O
  <1>7. \A k \in Nat : IsFiniteSet(V(k)) /\ IsFiniteSet(O(k))
    BY <1>1, <1>2, FS_Subset
  <1>8. \A k \in Nat : Cardinality(V(k)) \in Nat /\ Cardinality(O(k)) \in Nat
    BY <1>7, FS_CardinalityType
  <1>9. \A k \in Nat : Cardinality(V(k)) + Cardinality(O(k)) = k
    <2> TAKE k \in Nat
    <2>1. Cardinality(V(k) \cup O(k)) =
              Cardinality(V(k)) + Cardinality(O(k)) - Cardinality(V(k) \cap O(k))
      BY <1>7, FS_Union
    <2>2. Cardinality(V(k) \cap O(k)) = 0 /\ Cardinality(V(k) \cup O(k)) = k
      BY <1>1, <1>3, FS_EmptySet
    <2> QED
      BY <1>8, <2>1, <2>2
  <1>10. \A k \in Nat : Cardinality(O(k + 1)) =
            IF file[k + 1] = Ex!Vowel THEN Cardinality(O(k)) ELSE Cardinality(O(k)) + 1
    <2> TAKE k \in Nat
    <2>1. Cardinality(O(k) \cup {k + 1}) = Cardinality(O(k)) + 1
      BY <1>4, <1>7, FS_AddElement
    <2> QED
      BY <1>4, <2>1
  <1>11. \A a, b \in Nat : a <= b => Cardinality(O(a)) <= Cardinality(O(b))
    BY <1>5, <1>7, FS_Subset
  <1> QED
    BY <1>6, <1>8, <1>9, <1>10, <1>11

\* The place of the text whose character is at place p when d vowels have been taken out: as
\* the last character stays where it is, it follows itself.
From(file, d, p) == IF p + d <= Len(file) THEN p + d ELSE Len(file)

\* After the loop has been at place j the first j places hold what is not a vowel, and
\* behind them the text has moved by the number of vowels that were met.
ShiftedTo(file, j, s) ==
    \E d \in 0 .. Len(file) :
        /\ \A p \in j + 1 .. Len(file) : s[p] = Marked(file)[From(file, d, p)]
        /\ Vowels(file, From(file, d, j)) = d
        /\ \A k \in 1 .. From(file, d, j) : file[k] # Ex!Vowel =>
               Others(file, k) <= j /\ s[Others(file, k)] = file[k]

\* A text that does not end with a vowel, has no marker in it and no two vowels next to each
\* other.
Text(file) ==
    /\ file # <<>> /\ file[Len(file)] # Ex!Vowel
    /\ \A k \in 1 .. Len(file) : file[k] # Ex!Deleted
    /\ \A k \in 1 .. Len(file) - 1 : file[k] # Ex!Vowel \/ file[k + 1] # Ex!Vowel

LEMMA ShiftOnce ==
    ASSUME NEW X, NEW file \in Seq(X), Text(file), NEW j \in 0 .. Len(file) - 1,
           NEW s \in Seq(X \cup {Ex!Deleted}), Len(s) = Len(file), s[Len(file)] = file[Len(file)],
           ShiftedTo(file, j, s)
    PROVE  LET t == Ex!ShiftFrom(s, j + 1)
           IN  /\ t \in Seq(X \cup {Ex!Deleted}) /\ Len(t) = Len(file)
               /\ t[Len(file)] = file[Len(file)] /\ ShiftedTo(file, j + 1, t)
  <1> DEFINE n == Len(file)
             t == Ex!ShiftFrom(s, j + 1)
             M == Marked(file)
  <1>0. n \in Nat \ {0} /\ j \in Nat /\ j + 1 \in 1 .. n
    BY DEF Text
  <1>1. PICK d \in 0 .. n :
          /\ \A p \in j + 1 .. n : s[p] = M[From(file, d, p)]
          /\ Vowels(file, From(file, d, j)) = d
          /\ \A k \in 1 .. From(file, d, j) : file[k] # Ex!Vowel =>
                 Others(file, k) <= j /\ s[Others(file, k)] = file[k]
    BY Zenon DEF ShiftedTo
  <1>2. \A k \in 1 .. n : M[k] = IF file[k] = Ex!Vowel THEN Ex!Deleted ELSE file[k]
    BY DEF Marked
  <1>a. \A p \in j + 1 .. n : s[p] = M[From(file, d, p)]
    BY <1>1
  <1>b. Vowels(file, From(file, d, j)) = d
    BY <1>1
  <1>c. \A k \in 1 .. From(file, d, j) : file[k] # Ex!Vowel =>
            Others(file, k) <= j /\ s[Others(file, k)] = file[k]
    BY <1>1
  <1>3. \A k \in Nat : /\ Vowels(file, k) \in Nat /\ Others(file, k) \in Nat
                       /\ Vowels(file, k) + Others(file, k) = k
    BY VowelsAndOthers
  <1>d. \A k \in Nat : Others(file, k + 1) =
            IF file[k + 1] = Ex!Vowel THEN Others(file, k) ELSE Others(file, k) + 1
    BY VowelsAndOthers
  <1>4. \A c1 \in 0 .. n, p \in 0 .. n :
            From(file, c1, p) = IF p + c1 <= n THEN p + c1 ELSE n
    BY DEF From
  <1> HIDE DEF n, M
  <1>5. s[j + 1] = M[From(file, d, j + 1)]
    BY <1>0, <1>a
  <1>6. s \in Seq(X \cup {Ex!Deleted}) /\ Len(s) = n /\ s[n] = file[n] /\ file[n] # Ex!Vowel
    BY DEF n, Text
  <1>7. \A k \in 1 .. n : file[k] # Ex!Deleted
    BY DEF n, Text
  <1>8. \A k \in 1 .. n - 1 : file[k] # Ex!Vowel \/ file[k + 1] # Ex!Vowel
    BY DEF n, Text
  <1>9. CASE j + 1 + d <= n /\ file[j + 1 + d] # Ex!Vowel
    <2>1. /\ From(file, d, j + 1) = j + 1 + d /\ From(file, d, j) = j + d
          /\ j + 1 + d \in 1 .. n /\ j + d \in Nat /\ j + 1 + d = (j + d) + 1
      BY <1>0, <1>4, <1>9
    <2>2. s[j + 1] = file[j + 1 + d] /\ s[j + 1] # Ex!Deleted
      BY <1>2, <1>5, <1>7, <1>9, <2>1
    <2>3. t = s
      BY <2>2 DEF Ex!ShiftFrom
    <2>4. Vowels(file, j + d) = d
      BY <1>b, <2>1
    <2> DEFINE r == j + d
    <2>5. Vowels(file, r + 1) = d /\ Others(file, r + 1) = j + 1
      <3>1. r \in Nat /\ r + 1 = j + 1 + d /\ Vowels(file, r) = d
        BY <2>1, <2>4
      <3>2. file[r + 1] # Ex!Vowel
        BY <1>9, <3>1
      <3>a. r = j + d
        OBVIOUS
      <3> HIDE DEF r
      <3>3. Others(file, r + 1) = Others(file, r) + 1
        BY <1>d, <3>1, <3>2
      <3>4. /\ Vowels(file, r) + Others(file, r) = r /\ Others(file, r) \in Nat
            /\ Vowels(file, r + 1) + Others(file, r + 1) = r + 1 /\ Vowels(file, r + 1) \in Nat
        <4>1. r + 1 \in Nat
          BY <3>1
        <4> QED
          BY <1>3, <3>1, <4>1, Zenon
      <3> QED
        BY <1>0, <3>1, <3>3, <3>4, <3>a
    <2> HIDE DEF r
    <2>a. r + 1 = j + 1 + d
      BY <1>0 DEF r
    <2>b. Vowels(file, j + 1 + d) = d /\ Others(file, j + 1 + d) = j + 1
      BY <2>5, <2>a, Zenon
    <2>6. \A k \in 1 .. j + 1 + d : file[k] # Ex!Vowel =>
              Others(file, k) <= j + 1 /\ s[Others(file, k)] = file[k]
      <3> TAKE k \in 1 .. j + 1 + d
      <3>1. CASE k = j + 1 + d
        BY <1>0, <2>2, <2>b, <3>1
      <3>2. CASE k # j + 1 + d
        <4>a. k \in 1 .. j + d /\ k \in Nat
          BY <1>0, <3>2
        <4>1. k \in 1 .. j + d /\ Others(file, k) \in Nat
          BY <1>3, <4>a, Zenon
        <4>2. k \in 1 .. From(file, d, j)
          BY <2>1, <4>1, Zenon
        <4>3. file[k] # Ex!Vowel => Others(file, k) <= j /\ s[Others(file, k)] = file[k]
          BY <1>c, <4>2, Zenon
        <4> QED
          BY <1>0, <4>1, <4>3
      <3> QED
        BY <3>1, <3>2
    <2>7. \A p \in (j + 1) + 1 .. n : s[p] = M[From(file, d, p)]
      BY <1>0, <1>a
    <2>8. ShiftedTo(file, j + 1, s)
      BY <2>1, <2>b, <2>6, <2>7, Zenon DEF ShiftedTo, n, M
    <2> QED
      BY <1>6, <2>3, <2>8, Zenon DEF n
  <1>10. CASE j + 1 + d <= n /\ file[j + 1 + d] = Ex!Vowel
    <2>1. /\ From(file, d, j + 1) = j + 1 + d /\ From(file, d, j) = j + d
          /\ j + 1 + d \in 1 .. n /\ j + d \in Nat /\ j + 1 + d = (j + d) + 1
      BY <1>0, <1>4, <1>10
    <2>2. s[j + 1] = Ex!Deleted
      BY <1>2, <1>5, <1>10, <2>1
    <2>3. j + 1 + d \in 1 .. n - 1
      BY <1>0, <1>6, <1>10, <2>1
    <2>4. file[j + 2 + d] # Ex!Vowel /\ j + 2 + d \in 1 .. n /\ j + 2 + d = ((j + d) + 1) + 1
      BY <1>0, <1>8, <1>10, <2>1, <2>3
    <2>5. t = [k \in 1 .. n |-> IF k >= j + 1 /\ k < n THEN s[k + 1] ELSE s[k]]
      BY <1>6, <2>2 DEF Ex!ShiftFrom
    <2>6. Vowels(file, j + d) = d
      BY <1>b, <2>1
    <2> DEFINE r == j + d
    <2>a. Vowels(file, (r + 1) + 1) = d + 1 /\ Others(file, (r + 1) + 1) = j + 1
      <3>1. r \in Nat /\ r + 1 = j + 1 + d /\ (r + 1) + 1 = j + 2 + d /\ Vowels(file, r) = d
        BY <2>1, <2>6
      <3>2. file[r + 1] = Ex!Vowel /\ file[(r + 1) + 1] # Ex!Vowel /\ r + 1 \in Nat
        BY <1>10, <2>4, <3>1
      <3>3. r = j + d
        OBVIOUS
      <3> HIDE DEF r
      <3>4. Others(file, r + 1) = Others(file, r)
        BY <1>d, <3>1, <3>2
      <3>5. Others(file, (r + 1) + 1) = Others(file, r + 1) + 1
        BY <1>d, <3>2
      <3>6. /\ Vowels(file, r) + Others(file, r) = r /\ Others(file, r) \in Nat
        BY <1>3, <3>1
      <3>7. /\ Vowels(file, (r + 1) + 1) + Others(file, (r + 1) + 1) = (r + 1) + 1
            /\ Vowels(file, (r + 1) + 1) \in Nat
        <4>1. (r + 1) + 1 \in Nat
          BY <3>2
        <4> QED
          BY <1>3, <4>1, Zenon
      <3> QED
        BY <1>0, <3>1, <3>3, <3>4, <3>5, <3>6, <3>7
    <2>b. (r + 1) + 1 = j + 2 + d
      BY <1>0
    <2> HIDE DEF r
    <2>7. Vowels(file, j + 2 + d) = d + 1 /\ Others(file, j + 2 + d) = j + 1
      BY <2>a, <2>b, Zenon
    <2>8. /\ From(file, d + 1, j + 1) = j + 2 + d /\ d + 1 \in 0 .. n
          /\ \A p \in (j + 1) + 1 .. n - 1 : From(file, d + 1, p) = From(file, d, p + 1)
          /\ From(file, d + 1, n) = n
      <3>1. d + 1 \in 0 .. n /\ j + 1 \in 0 .. n /\ n \in 0 .. n
        BY <1>0, <2>3
      <3>2. From(file, d + 1, j + 1) = IF (j + 1) + (d + 1) <= n THEN (j + 1) + (d + 1) ELSE n
        BY <1>4, <3>1, Zenon
      <3>3. From(file, d + 1, n) = IF n + (d + 1) <= n THEN n + (d + 1) ELSE n
        BY <1>4, <3>1, Zenon
      <3>4. ASSUME NEW p \in (j + 1) + 1 .. n - 1
            PROVE  From(file, d + 1, p) = From(file, d, p + 1)
        <4>1. p \in 0 .. n /\ p + 1 \in 0 .. n
          BY <1>0
        <4>2. /\ From(file, d + 1, p) = IF p + (d + 1) <= n THEN p + (d + 1) ELSE n
              /\ From(file, d, p + 1) = IF (p + 1) + d <= n THEN (p + 1) + d ELSE n
          BY <1>4, <3>1, <4>1, Zenon
        <4>3. p + (d + 1) = (p + 1) + d
          BY <1>0
        <4> QED
          BY <4>2, <4>3
      <3>5. (j + 1) + (d + 1) = j + 2 + d /\ ~(n + (d + 1) <= n) /\ j + 2 + d <= n
        BY <1>0, <2>3
      <3> QED
        BY <3>1, <3>2, <3>3, <3>4, <3>5, Zenon
    <2>9. \A p \in (j + 1) + 1 .. n : t[p] = M[From(file, d + 1, p)]
      <3> TAKE p \in (j + 1) + 1 .. n
      <3>1. CASE p = n
        BY <1>0, <1>2, <1>6, <2>5, <2>8, <3>1
      <3>2. CASE p # n
        <4>1. p + 1 \in j + 1 .. n /\ p \in (j + 1) + 1 .. n - 1 /\ p \in 1 .. n
          BY <1>0, <3>2
        <4>a. p >= j + 1 /\ p < n
          BY <1>0, <3>2
        <4> HIDE DEF t
        <4>2. t[p] = s[p + 1]
          BY <2>5, <4>1, <4>a, Zenon
        <4>3. s[p + 1] = M[From(file, d, p + 1)] /\ From(file, d + 1, p) = From(file, d, p + 1)
          BY <1>a, <2>8, <4>1, Zenon
        <4> QED
          BY <4>2, <4>3, Zenon
      <3> QED
        BY <3>1, <3>2
    <2>10. \A k \in 1 .. j + 2 + d : file[k] # Ex!Vowel =>
              Others(file, k) <= j + 1 /\ t[Others(file, k)] = file[k]
      <3> SUFFICES ASSUME NEW k \in 1 .. j + 2 + d, file[k] # Ex!Vowel
                   PROVE  Others(file, k) <= j + 1 /\ t[Others(file, k)] = file[k]
        OBVIOUS
      <3>1. CASE k = j + 2 + d
        <4>1. t[j + 1] = s[j + 2] /\ j + 2 \in j + 1 .. n
          BY <1>0, <2>3, <2>5
        <4>2. From(file, d, j + 2) = j + 2 + d
          BY <1>0, <1>4, <2>4, <4>1
        <4>3. s[j + 2] = file[j + 2 + d]
          BY <1>a, <1>2, <2>4, <4>1, <4>2, Zenon
        <4> QED
          BY <1>0, <2>7, <3>1, <4>1, <4>3
      <3>2. CASE k # j + 2 + d
        <4>1. k \in 1 .. j + d /\ k - 1 \in Nat /\ k = (k - 1) + 1
          BY <1>0, <1>10, <3>2
        <4>2. Others(file, k) = Others(file, k - 1) + 1 /\ Others(file, k - 1) \in Nat
          BY <1>3, <1>d, <4>1
        <4>3. Others(file, k) <= j /\ s[Others(file, k)] = file[k]
          BY <1>c, <2>1, <4>1, Zenon
        <4>4. Others(file, k) \in 1 .. n /\ ~(Others(file, k) >= j + 1)
          BY <1>0, <4>2, <4>3
        <4>5. t[Others(file, k)] = s[Others(file, k)]
          BY <2>5, <4>4
        <4> QED
          BY <1>0, <4>2, <4>3, <4>5
      <3> QED
        BY <3>1, <3>2
    <2>11. ShiftedTo(file, j + 1, t)
      <3> HIDE DEF t
      <3> QED
        BY <2>7, <2>8, <2>9, <2>10, Zenon DEF ShiftedTo, n, M
    <2>12. t \in Seq(X \cup {Ex!Deleted}) /\ Len(t) = n
      <3>1. \A k \in 1 .. n : s[k] \in X \cup {Ex!Deleted}
        BY <1>6
      <3>2. \A k \in 1 .. n : (IF k >= j + 1 /\ k < n THEN s[k + 1] ELSE s[k]) \in X \cup {Ex!Deleted}
        BY <1>0, <3>1
      <3> HIDE DEF t
      <3>3. t \in [1 .. n -> X \cup {Ex!Deleted}]
        BY <2>5, <3>2
      <3> QED
        BY <1>0, <3>3
    <2>13. t[n] = file[n]
      BY <1>0, <1>6, <2>5
    <2> QED
      BY <2>11, <2>12, <2>13, Zenon DEF n
  <1>11. CASE ~(j + 1 + d <= n)
    <2>1. From(file, d, j + 1) = n /\ From(file, d, j) = n
      <3>1. j + 1 \in 0 .. n /\ j \in 0 .. n
        BY <1>0
      <3>2. /\ From(file, d, j + 1) = IF (j + 1) + d <= n THEN (j + 1) + d ELSE n
            /\ From(file, d, j) = IF j + d <= n THEN j + d ELSE n
        BY <1>4, <3>1, Zenon
      <3>3. ~((j + 1) + d <= n) /\ (j + d <= n => j + d = n)
        BY <1>0, <1>11
      <3> QED
        BY <3>2, <3>3, Zenon
    <2>2. s[j + 1] # Ex!Deleted
      BY <1>0, <1>2, <1>5, <1>6, <1>7, <2>1
    <2>3. t = s
      BY <2>2 DEF Ex!ShiftFrom
    <2>4. \A p \in (j + 1) + 1 .. n : s[p] = M[From(file, d, p)]
      BY <1>0, <1>a
    <2>5. \A k \in 1 .. n : file[k] # Ex!Vowel =>
              Others(file, k) <= j + 1 /\ s[Others(file, k)] = file[k]
      <3> TAKE k \in 1 .. n
      <3>a. k \in Nat
        BY <1>0
      <3>1. Others(file, k) \in Nat
        BY <1>3, <3>a, Zenon
      <3>2. file[k] # Ex!Vowel => Others(file, k) <= j /\ s[Others(file, k)] = file[k]
        BY <1>c, <2>1, Zenon
      <3> QED
        BY <1>0, <3>1, <3>2
    <2>6. ShiftedTo(file, j + 1, s)
      BY <1>b, <2>1, <2>4, <2>5, Zenon DEF ShiftedTo, n, M
    <2> QED
      BY <1>6, <2>3, <2>6, Zenon DEF n
  <1> QED
    BY <1>9, <1>10, <1>11

\* The loop has a result, and its last text has moved by all vowels.
LEMMA ShiftAll ==
    ASSUME NEW X, NEW file \in Seq(X), Text(file)
    PROVE  LET s == (CHOOSE g : Shifts(g, file))[Len(file)]
           IN  /\ s \in Seq(X \cup {Ex!Deleted}) /\ Len(s) = Len(file)
               /\ s[Len(file)] = file[Len(file)] /\ ShiftedTo(file, Len(file), s)
  <1> DEFINE n == Len(file)
             Y == X \cup {Ex!Deleted}
             h == CHOOSE g : Shifts(g, file)
             Good(j, s) == s \in Seq(Y) /\ Len(s) = n /\ s[n] = file[n] /\ ShiftedTo(file, j, s)
             S == {m \in Nat : m <= n =>
                     \E g : \A k \in 0 .. m :
                        g[k] = IF k = 0 THEN Marked(file) ELSE Ex!ShiftFrom(g[k - 1], k)}
             T == {k \in Nat : k <= n => Good(k, h[k])}
  <1>0. n \in Nat \ {0}
    BY DEF Text
  <1>1. 0 \in S
    <2> DEFINE g == [k \in 0 .. 0 |-> Marked(file)]
    <2>1. g[0] = Marked(file) /\ \A k \in 0 .. 0 : k = 0
      OBVIOUS
    <2> HIDE DEF g
    <2>2. \A k \in 0 .. 0 : g[k] = IF k = 0 THEN Marked(file) ELSE Ex!ShiftFrom(g[k - 1], k)
      BY <2>1, Zenon
    <2> QED
      BY <2>2, Zenon
  <1>2. ASSUME NEW m \in Nat, m \in S PROVE m + 1 \in S
    <2>1. ASSUME m + 1 <= n
          PROVE  \E g : \A k \in 0 .. m + 1 :
                        g[k] = IF k = 0 THEN Marked(file) ELSE Ex!ShiftFrom(g[k - 1], k)
      <3>0. m <= n
        BY <1>0, <2>1
      <3>1. PICK f : \A k \in 0 .. m :
                        f[k] = IF k = 0 THEN Marked(file) ELSE Ex!ShiftFrom(f[k - 1], k)
        BY <1>2, <3>0, Zenon
      <3> DEFINE g == [k \in 0 .. m + 1 |-> IF k <= m THEN f[k] ELSE Ex!ShiftFrom(f[m], m + 1)]
      <3>2. \A k \in 0 .. m + 1 :
                g[k] = IF k = 0 THEN Marked(file) ELSE Ex!ShiftFrom(g[k - 1], k)
        <4> TAKE k \in 0 .. m + 1
        <4>1. CASE k <= m
          <5>1. g[k] = f[k] /\ k \in 0 .. m /\ (k # 0 => g[k - 1] = f[k - 1])
            BY <4>1
          <5> HIDE DEF g
          <5> QED
            BY <3>1, <5>1, Zenon
        <4>2. CASE k = m + 1
          <5>1. /\ g[k] = Ex!ShiftFrom(f[m], m + 1) /\ g[k - 1] = f[m] /\ k # 0
            BY <4>2
          <5> HIDE DEF g
          <5> QED
            BY <4>2, <5>1, Zenon
        <4> QED
          BY <4>1, <4>2
      <3> HIDE DEF g
      <3> QED
        BY <3>2, Zenon
    <2>2. m + 1 \in Nat
      OBVIOUS
    <2> QED
      BY <2>1, <2>2, Zenon
  <1>3. n \in S
    <2>1. Nat \subseteq S
      <3> HIDE DEF S
      <3> QED
        BY <1>1, <1>2, NatSetInduction
    <2> HIDE DEF S, n
    <2> QED
      BY <1>0, <2>1
  <1>4. Shifts(h, file)
    <2>0. n <= n
      BY <1>0
    <2>1. PICK f : \A k \in 0 .. n :
                      f[k] = IF k = 0 THEN Marked(file) ELSE Ex!ShiftFrom(f[k - 1], k)
      BY <1>3, <2>0, Zenon
    <2> DEFINE g == [k \in 0 .. n |-> f[k]]
    <2>2. \A k \in 0 .. n : g[k] = IF k = 0 THEN Marked(file) ELSE Ex!ShiftFrom(g[k - 1], k)
      <3> TAKE k \in 0 .. n
      <3>1. g[k] = f[k] /\ (k # 0 => k - 1 \in 0 .. n)
        BY <1>0
      <3>2. k # 0 => g[k - 1] = f[k - 1]
        BY <3>1, Zenon
      <3> HIDE DEF g
      <3> QED
        BY <2>1, <3>1, <3>2, Zenon
    <2>3. Shifts(g, file)
      <3>1. g = [k \in 0 .. n |-> g[k]]
        BY Zenon
      <3>2. [k \in 0 .. n |-> g[k]] =
            [k \in 0 .. n |-> IF k = 0 THEN Marked(file) ELSE Ex!ShiftFrom(g[k - 1], k)]
        <4> HIDE DEF g
        <4> QED
          BY <2>2, Zenon
      <3> HIDE DEF g
      <3> QED
        BY <3>1, <3>2, Zenon DEF Shifts
    <2> QED
      BY <2>3, Zenon
  <1> HIDE DEF h
  <1>5. \A k \in 0 .. n : h[k] = IF k = 0 THEN Marked(file) ELSE Ex!ShiftFrom(h[k - 1], k)
    BY <1>4, Zenon DEF Shifts
  <1>6. 0 \in T
    <2>1. h[0] = Marked(file)
      BY <1>0, <1>5
    <2>2. Marked(file) \in Seq(Y) /\ Len(Marked(file)) = n /\ Marked(file)[n] = file[n]
      <3>1. Marked(file) \in [1 .. n -> Y]
        BY DEF Marked
      <3>2. Marked(file)[n] = file[n]
        BY <1>0 DEF Marked, Text
      <3> QED
        BY <1>0, <3>1, <3>2
    <2>3. ShiftedTo(file, 0, Marked(file))
      <3>1. From(file, 0, 0) = 0 /\ \A p \in 0 + 1 .. n : From(file, 0, p) = p
        BY <1>0 DEF From
      <3>2. Vowels(file, 0) = 0
        <4>1. /\ Vowels(file, 0) \in Nat /\ Others(file, 0) \in Nat
              /\ Vowels(file, 0) + Others(file, 0) = 0
          BY VowelsAndOthers
        <4> QED
          BY <4>1
      <3>3. 0 \in 0 .. n /\ \A k \in 1 .. 0 : FALSE
        BY <1>0
      <3> QED
        BY <3>1, <3>2, <3>3, Zenon DEF ShiftedTo
    <2> QED
      BY <2>1, <2>2, <2>3, Zenon
  <1>7. ASSUME NEW k \in Nat, k \in T PROVE k + 1 \in T
    <2>1. ASSUME k + 1 <= n PROVE Good(k + 1, h[k + 1])
      <3>1. k <= n /\ k \in 0 .. n - 1 /\ k + 1 \in 0 .. n /\ k + 1 # 0 /\ (k + 1) - 1 = k
        BY <1>0, <2>1
      <3>2. h[k + 1] = Ex!ShiftFrom(h[k], k + 1)
        BY <1>5, <3>1, Zenon
      <3>3. Good(k, h[k])
        BY <1>7, <3>1, Zenon
      <3>4. Good(k + 1, Ex!ShiftFrom(h[k], k + 1))
        BY <3>1, <3>3, ShiftOnce
      <3> HIDE DEF Good
      <3> QED
        BY <3>2, <3>4, Zenon
    <2>2. k + 1 \in Nat
      OBVIOUS
    <2> QED
      BY <2>1, <2>2, Zenon
  <1>8. Nat \subseteq T
    <2> HIDE DEF T
    <2> QED
      BY <1>6, <1>7, NatSetInduction
  <1>9. Good(n, h[n])
    <2>1. n \in Nat /\ n <= n
      BY <1>0
    <2>2. n \in T
      <3> HIDE DEF T, n
      <3> QED
        BY <1>8, <2>1
    <2> QED
      BY <2>1, <2>2, Zenon
  <1> QED
    BY <1>9, Zenon DEF h

\* Of a text in which no two vowels are next to each other, and which ends with something
\* else (its newline), all vowels are removed and its size is kept (lab12_ex2_2.c).
THEOREM VowelsAreRemoved ==
    ASSUME NEW X, NEW file \in Seq(X), file # <<>>, file[Len(file)] # Ex!Vowel,
           \A k \in 1 .. Len(file) : file[k] # Ex!Deleted
    PROVE  Ex!ApartVowelsRemoved(file)
  <1> SUFFICES ASSUME ~ \E k \in 1 .. Len(file) - 1 : file[k] = Ex!Vowel /\ file[k + 1] = Ex!Vowel
               PROVE  Ex!VowelsRemoved(file)
    BY Zenon DEF Ex!ApartVowelsRemoved, Ex!VowelsApart
  <1> DEFINE n == Len(file)
             s == (CHOOSE g : Shifts(g, file))[n]
             kept == {k \in 1 .. n - 1 : file[k] # Ex!Vowel}
             result == Ex!RemoveVowels(file)
             v == Vowels(file, n)
  <1>0. n \in Nat \ {0} /\ Text(file)
    BY DEF Text
  <1>1. s[n] = file[n] /\ ShiftedTo(file, n, s)
    BY <1>0, ShiftAll, Zenon
  <1>2. result = [k \in 1 .. n |-> IF k \in n - v .. n - 1 THEN "." ELSE s[k]]
    BY RemovalOfVowels, Zenon
  <1>3. file[n] # Ex!Vowel
    OBVIOUS
  <1> HIDE DEF s, result, n
  <1>4. /\ \A k \in Nat : /\ Vowels(file, k) \in Nat /\ Others(file, k) \in Nat
                          /\ Vowels(file, k) + Others(file, k) = k
        /\ \A k \in Nat : Others(file, k + 1) =
              IF file[k + 1] = Ex!Vowel THEN Others(file, k) ELSE Others(file, k) + 1
        /\ \A a, b \in Nat : a <= b => Others(file, a) <= Others(file, b)
    BY VowelsAndOthers
  <1>5. \A k \in 1 .. n : file[k] # Ex!Vowel => s[Others(file, k)] = file[k]
    <2>1. PICK d \in 0 .. n : \A k \in 1 .. From(file, d, n) : file[k] # Ex!Vowel =>
                                  Others(file, k) <= n /\ s[Others(file, k)] = file[k]
      BY <1>1, Zenon DEF ShiftedTo, n
    <2>2. From(file, d, n) = n
      BY <1>0 DEF From, n
    <2> QED
      BY <2>1, <2>2, Zenon
  <1>6. n - 1 \in Nat /\ (n - 1) + 1 = n
    BY <1>0
  <1>7. v \in Nat /\ Others(file, n) = n - v /\ Others(file, n - 1) = n - v - 1 /\ n - v - 1 \in Nat
    <2>1. Others(file, (n - 1) + 1) = Others(file, n - 1) + 1
      BY <1>3, <1>4, <1>6
    <2>2. /\ v \in Nat /\ v + Others(file, n) = n /\ Others(file, n) \in Nat
          /\ Others(file, n - 1) \in Nat
      BY <1>0, <1>4, <1>6
    <2>3. Others(file, n) = Others(file, n - 1) + 1
      BY <1>6, <2>1, Zenon
    <2> HIDE DEF v
    <2> DEFINE a == Others(file, n)
               b == Others(file, n - 1)
    <2>4. n \in Nat /\ v \in Nat /\ b \in Nat /\ v + a = n /\ a = b + 1
      BY <1>0, <2>2, <2>3
    <2> HIDE DEF a, b
    <2>5. a = n - v /\ b = n - v - 1
      BY <2>4
    <2> QED
      BY <2>4, <2>5 DEF a, b
  <1> HIDE DEF v
  <1>8. Cardinality(kept) = n - v - 1
    <2>1. kept = {q \in 1 .. n - 1 : file[q] # Ex!Vowel}
      OBVIOUS
    <2> QED
      BY <1>7, <2>1, Zenon DEF Others
  <1>9. ASSUME NEW k \in kept
        PROVE  result[Cardinality({j \in kept : j <= k})] = file[k]
    <2>1. k \in 1 .. n - 1 /\ k \in 1 .. n /\ k \in Nat /\ k - 1 \in Nat /\ file[k] # Ex!Vowel
      BY <1>0
    <2>2. {j \in kept : j <= k} = {q \in 1 .. k : file[q] # Ex!Vowel}
      BY <1>0, <2>1
    <2>3. Cardinality({j \in kept : j <= k}) = Others(file, k)
      BY <2>2, Zenon DEF Others
    <2>4. Others(file, k) \in Nat /\ Others(file, k) <= n - v - 1
      <3>1. k <= n - 1
        BY <1>0, <2>1
      <3>2. Others(file, k) <= Others(file, n - 1)
        BY <1>4, <1>6, <2>1, <3>1, Zenon
      <3> QED
        BY <1>4, <1>7, <2>1, <3>2, Zenon
    <2>5. Others(file, k) >= 1
      <3>1. (k - 1) + 1 = k
        BY <2>1
      <3>2. Others(file, (k - 1) + 1) = Others(file, k - 1) + 1 /\ Others(file, k - 1) \in Nat
        BY <1>4, <2>1, <3>1
      <3>3. Others(file, k) = Others(file, k - 1) + 1
        BY <3>1, <3>2, Zenon
      <3> QED
        BY <3>2, <3>3
    <2>6. Others(file, k) \in 1 .. n /\ ~(Others(file, k) \in n - v .. n - 1)
      BY <1>0, <1>7, <2>4, <2>5
    <2>7. result[Others(file, k)] = s[Others(file, k)]
      BY <1>2, <2>6, Zenon
    <2> HIDE DEF kept
    <2> QED
      BY <1>5, <2>1, <2>3, <2>7, Zenon
  <1>10. \A k \in Cardinality(kept) + 1 .. n - 1 : result[k] = "."
    <2> TAKE k \in Cardinality(kept) + 1 .. n - 1
    <2>1. k \in (n - v - 1) + 1 .. n - 1
      BY <1>8, Zenon
    <2>2. k \in 1 .. n /\ k \in n - v .. n - 1
      BY <1>0, <1>7, <2>1
    <2> QED
      BY <1>2, <2>2, Zenon
  <1>11. Len(result) = n /\ result[n] = file[n]
    <2>1. Len(result) = n
      BY <1>0, <1>2
    <2>2. n \in 1 .. n /\ ~(n \in n - v .. n - 1)
      BY <1>0, <1>7
    <2>3. result[n] = s[n]
      BY <1>2, <2>2, Zenon
    <2> QED
      BY <1>1, <2>1, <2>3, Zenon
  <1>12. \A k \in kept : result[Cardinality({j \in kept : j <= k})] = file[k]
    BY <1>9, Zenon
  <1> HIDE DEF kept
  <1>13. /\ Len(result) = n /\ result[n] = file[n]
         /\ \A k \in kept : result[Ex!Cardinality({j \in kept : j <= k})] = file[k]
         /\ \A k \in Ex!Cardinality(kept) + 1 .. n - 1 : result[k] = "."
    BY <1>10, <1>11, <1>12, ExCardinality, Zenon
  <1> QED
    BY <1>13, Zenon DEF Ex!VowelsRemoved, result, n, kept
------------------------------------------------------------------------------
(* All inputs of the runs.                                                 *)

\* Sequences of bounded length are sequences.
LEMMA Bounded == \A X, n : n \in Nat => BoundedSeq(X, n) \subseteq Seq(X)
  <1> SUFFICES ASSUME NEW X, NEW n \in Nat, NEW f \in BoundedSeq(X, n) PROVE f \in Seq(X)
    BY Zenon
  <1>1. \E m \in 0 .. n : f \in [1 .. m -> X]
    BY DEF BoundedSeq, SeqOf
  <1>2. PICK m \in 0 .. n : f \in [1 .. m -> X]
    BY <1>1, Zenon
  <1>3. m \in Nat
    OBVIOUS
  <1> HIDE DEF BoundedSeq
  <1> QED
    BY <1>2, <1>3

LEMMA InputsRight ==
    ASSUME input \in Inputs
    PROVE  /\ input[1] = "text" => Ex!ApartVowelsRemoved(input[2])
           /\ input[1] = "sets" => Ex!QuotientRight(input[2][1], input[2][2])
           /\ input[1] = "array" => Ex!PrimesRight(input[2])
           /\ input[1] = "n" => Ex!AllSubsets(input[2]) /\ Ex!SumWhole(input[2])
           /\ input[1] = "line" => Ex!LineFound(input[2][1], input[2][2], 2)
  <1>1. \/ \E f \in BoundedSeq({Ex!Vowel, "c", "d"}, 4) : input = <<"text", Append(f, "newline")>>
        \/ \E s, t \in BoundedSeq(0 .. 2, 3) : input = <<"sets", <<s, t>>>>
        \/ \E n, m \in 0 .. 20 : input = <<"array", <<n, m>>>>
        \/ \E n \in 0 .. 5 : input = <<"n", n>>
        \/ \E f \in BoundedSeq({Ex!Newline, "c"}, 5), k \in 0 .. 3 : input = <<"line", <<f, k>>>>
    <2> DEFINE A == {<<"text", Append(f, "newline")>> : f \in BoundedSeq({Ex!Vowel, "c", "d"}, 4)}
               B == {<<"sets", <<s, t>>>> : s, t \in BoundedSeq(0 .. 2, 3)}
               C == {<<"array", <<n, m>>>> : n, m \in 0 .. 20}
               D == {<<"n", n>> : n \in 0 .. 5}
               E == {<<"line", <<f, k>>>> : f \in BoundedSeq({Ex!Newline, "c"}, 5), k \in 0 .. 3}
    <2>1. Inputs = A \cup B \cup C \cup D \cup E
      BY DEF Inputs
    <2>2. input \in A => \E f \in BoundedSeq({Ex!Vowel, "c", "d"}, 4) :
                              input = <<"text", Append(f, "newline")>>
      BY Zenon
    <2>3. input \in B => \E s, t \in BoundedSeq(0 .. 2, 3) : input = <<"sets", <<s, t>>>>
      OBVIOUS
    <2>4. input \in C => \E n, m \in 0 .. 20 : input = <<"array", <<n, m>>>>
      OBVIOUS
    <2>5. input \in D => \E n \in 0 .. 5 : input = <<"n", n>>
      BY Zenon
    <2>6. input \in E => \E f \in BoundedSeq({Ex!Newline, "c"}, 5), k \in 0 .. 3 :
                              input = <<"line", <<f, k>>>>
      OBVIOUS
    <2> HIDE DEF A, B, C, D, E
    <2>7. input \in A \/ input \in B \/ input \in C \/ input \in D \/ input \in E
      BY <2>1, Zenon
    <2> QED
      BY <2>2, <2>3, <2>4, <2>5, <2>6, <2>7, Zenon
  <1>2. ASSUME NEW f \in BoundedSeq({Ex!Vowel, "c", "d"}, 4), input = <<"text", Append(f, "newline")>>
        PROVE  input[1] = "text" /\ Ex!ApartVowelsRemoved(input[2])
    <2> DEFINE X == {"v", "c", "d", "newline"}
               file == Append(f, "newline")
    <2>1. f \in Seq({"v", "c", "d"})
      BY Bounded DEF Ex!Vowel
    <2>2. /\ file \in Seq(X) /\ file # <<>> /\ file[Len(file)] = "newline"
          /\ \A k \in 1 .. Len(file) : file[k] \in X
      BY <2>1
    <2>3. file[Len(file)] # Ex!Vowel /\ \A k \in 1 .. Len(file) : file[k] # Ex!Deleted
      BY <2>2 DEF Ex!Vowel, Ex!Deleted
    <2>4. input[1] = "text" /\ input[2] = file
      BY <1>2
    <2> HIDE DEF file, X
    <2> QED
      BY <2>2, <2>3, <2>4, VowelsAreRemoved, Zenon
  <1>3. ASSUME NEW s \in BoundedSeq(0 .. 2, 3), NEW t \in BoundedSeq(0 .. 2, 3),
               input = <<"sets", <<s, t>>>>
        PROVE  input[1] = "sets" /\ Ex!QuotientRight(input[2][1], input[2][2])
    <2>1. s \in Seq(0 .. 2) /\ t \in Seq(0 .. 2)
      BY Bounded
    <2>2. s \in Seq(Int) /\ t \in Seq(Int)
      BY <2>1
    <2> QED
      BY <1>3, <2>2, QuotientOfSets
  <1>4. ASSUME NEW n \in 0 .. 20, NEW m \in 0 .. 20, input = <<"array", <<n, m>>>>
        PROVE  input[1] = "array" /\ Ex!PrimesRight(input[2])
    <2>1. <<n, m>> \in Seq(Nat)
      OBVIOUS
    <2> QED
      BY <1>4, <2>1, SumOfPrimes
  <1>5. ASSUME NEW n \in 0 .. 5, input = <<"n", n>>
        PROVE  input[1] = "n" /\ Ex!AllSubsets(input[2]) /\ Ex!SumWhole(input[2])
    BY <1>5, EverySubsetOnce, SumOfRanges
  <1>6. ASSUME NEW f \in BoundedSeq({Ex!Newline, "c"}, 5), NEW k \in 0 .. 3,
               input = <<"line", <<f, k>>>>
        PROVE  input[1] = "line" /\ Ex!LineFound(input[2][1], input[2][2], 2)
    <2>1. f \in Seq({Ex!Newline, "c"})
      BY Bounded
    <2>2. Ex!LineFound(f, k, 2)
      BY <2>1, LineIsFound
    <2> QED
      BY <1>6, <2>2
  <1>7. CASE \E f \in BoundedSeq({Ex!Vowel, "c", "d"}, 4) : input = <<"text", Append(f, "newline")>>
    BY <1>2, <1>7
  <1>8. CASE \E s, t \in BoundedSeq(0 .. 2, 3) : input = <<"sets", <<s, t>>>>
    BY <1>3, <1>8
  <1>9. CASE \E n, m \in 0 .. 20 : input = <<"array", <<n, m>>>>
    BY <1>4, <1>9
  <1>10. CASE \E n \in 0 .. 5 : input = <<"n", n>>
    BY <1>5, <1>10
  <1>11. CASE \E f \in BoundedSeq({Ex!Newline, "c"}, 5), k \in 0 .. 3 : input = <<"line", <<f, k>>>>
    BY <1>6, <1>11
  <1> QED
    BY <1>1, <1>7, <1>8, <1>9, <1>10, <1>11, Zenon

\* In every run the pointers to the students are in order, and the exercises do what their
\* comments and messages say for inputs of any size of which that is claimed: texts whose
\* vowels are apart, sets in increasing order, numbers greater than 1, lines not as long as
\* the buffer.
THEOREM SequentialAlwaysRight == MCSpec => []SequentialRight
  <1>1. MCInit => input \in Inputs
    BY DEF MCInit
  <1>2. input \in Inputs /\ [MCNext]_allVars => (input \in Inputs)'
    <2> SUFFICES ASSUME input \in Inputs, [MCNext]_allVars PROVE (input \in Inputs)'
      OBVIOUS
    <2>1. input' = input
      BY Zenon DEF MCNext, MCFirst, MCSecond, MCUser, Copies, Counts, OnLetters, OnFile, OnVector,
         allVars
    <2> QED
      BY <2>1
  <1>3. Students!PointersInOrder /\ input \in Inputs => SequentialRight
    BY InputsRight DEF SequentialRight
  <1>4. MCSpec => [](input \in Inputs)
    BY <1>1, <1>2, PTL DEF MCSpec
  <1> QED
    BY <1>3, <1>4, VectorInOrder, PTL
===============================================================================
