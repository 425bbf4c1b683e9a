------------------------------ MODULE Exercises -----------------------------
(***************************************************************************)
(* The algorithms of sequential programs, as functions of their inputs:    *)
(* the removal of vowels in SharedMemoryApplications/lab12_ex2_2.c, the    *)
(* quotient of SetOperations/l03p2.c, the tests for primes of              *)
(* SumPrimeNumbers/l03p3.c and CheckPrime/check-prime.c, the subsets of    *)
(* GenerateAllSubsets/l03p1.c, the search for a line in                    *)
(* FindFileLineByIndex/lab4_ex1_2.c, and the ranges that the threads of    *)
(* PracticeProblems(All topics)/ex5.c add up.                              *)
(***************************************************************************)
EXTENDS Integers, Sequences, SequencesExt, FiniteSets

\* The characters of a file: vowels, other letters and the newline at the end.
Vowel == "v"
Deleted == "deleted"    \* the marker, -1

\* Mutant of ShiftFrom: the marker is found again at the same place.
ShiftFromAgain(f, j) ==
    IF f[j] # Deleted THEN f
    ELSE [k \in 1 .. Len(f) |-> IF k > j /\ k < Len(f) THEN f[k + 1] ELSE f[k]]

\* Lines 56 to 61, at place j: everything behind a marker moves one place.
ShiftFrom(f, j) ==
    IF f[j] # Deleted THEN f
    ELSE [k \in 1 .. Len(f) |-> IF k >= j /\ k < Len(f) THEN f[k + 1] ELSE f[k]]

\* The file after markers were set, shifted over and replaced by dots before the end.
RemoveVowels(file) ==
    LET size == Len(file)
        marked == [k \in 1 .. size |-> IF file[k] = Vowel THEN Deleted ELSE file[k]]
        shifted[j \in 0 .. size] == IF j = 0 THEN marked ELSE ShiftFrom(shifted[j - 1], j)
        vowel_count == Cardinality({k \in 1 .. size : file[k] = Vowel})
    IN  [k \in 1 .. size |-> IF k \in size - vowel_count .. size - 1 THEN "." ELSE shifted[size][k]]

\* The number of common elements that lines 49 to 60 find, from places i and j on.
Common(set1, set2) ==
    LET from[p \in (1 .. Len(set1) + 1) \X (1 .. Len(set2) + 1)] ==
            LET i == p[1]  j == p[2]
            IN  IF i > Len(set1) \/ j > Len(set2) THEN 0
                ELSE IF set1[i] = set2[j] THEN 1 + from[<<i + 1, j + 1>>]
                ELSE IF set1[i] < set2[j] THEN from[<<i + 1, j>>] ELSE from[<<i, j + 1>>]
    IN  from[<<1, 1>>]

\* Mutant of isPrime: the loop ends before number / 2.
isPrimeShort(number) == \A i \in 2 .. number \div 2 - 1 : number % i # 0

isPrime(number) == \A i \in 2 .. number \div 2 : number % i # 0

\* i <= sqrt(no), for numbers that a double holds exactly.
check_if_prime(no) == \A i \in {k \in 2 .. no : k * k <= no} : no % i # 0

computeSum(array) ==
    LET tempSum[i \in 0 .. Len(array)] ==
            IF i = 0 THEN 0
            ELSE IF isPrime(array[i]) THEN tempSum[i - 1] + array[i] ELSE tempSum[i - 1]
    IN  tempSum[Len(array)]

\* Mutant of ISBITSET: positions from 1.
IsBitSetFromOne(number, pos) == pos > 0 /\ (number \div 2 ^ (pos - 1)) % 2 = 1

ISBITSET(number, pos) == (number \div 2 ^ pos) % 2 = 1

\* The sets in the order in which they are printed.
generateSets(n) == [i \in 1 .. 2 ^ n |-> {j \in 0 .. n - 1 : ISBITSET(i - 1, j)}]

Newline == "newline"

\* current_line when the characters before place k are read.
CurrentLine(f, k) == Cardinality({j \in 1 .. k - 1 : f[j] = Newline})

\* The places where the loops of lines 15 and 27 stop: behind the newline before the line,
\* and at the newline behind it, or at the end of the file.
Skip(f, line_no) == Min({k \in 1 .. Len(f) + 1 : CurrentLine(f, k) = line_no \/ k > Len(f)})
Fill(f, start) == Min({k \in start .. Len(f) + 1 : k > Len(f) \/ f[k] = Newline})

\* Mutant of get_line: the test of line 28 is for more than max_length characters.
GetLineOffByOne(f, line_no, max_length) ==
    LET start == Skip(f, line_no)
        i == Fill(f, start) - start
    IN  IF CurrentLine(f, start) < line_no \/ i > max_length + 1
        THEN [result |-> -1, line |-> <<>>, line_length |-> 0]
        ELSE [result |-> 0, line_length |-> i,
              line |-> SubSeq(f, start, start + (IF i < max_length THEN i ELSE max_length - 1) - 1)]

\* A line of max_length characters loses the last one to its terminator.
get_line(f, line_no, max_length) ==
    LET start == Skip(f, line_no)
        i == Fill(f, start) - start
    IN  IF CurrentLine(f, start) < line_no \/ i > max_length
        THEN [result |-> -1, line |-> <<>>, line_length |-> 0]
        ELSE [result |-> 0, line_length |-> i,
              line |-> SubSeq(f, start, start + (IF i < max_length THEN i ELSE max_length - 1) - 1)]

\* Mutant of calculateSum: a range begins with the last number of the one before.
CalculateSumTwice(id, no_threads) ==
    LET end == (id + 1) * no_threads
        partialSum[k \in 0 .. no_threads + 1] ==
            IF k = 0 THEN 0 ELSE partialSum[k - 1] + (end - no_threads + k - 1)
    IN  partialSum[no_threads + 1]

\* What thread id adds to totalSum under the mutex, in any order with the others.
calculateSum(id, no_threads) ==
    LET end == (id + 1) * no_threads
        partialSum[k \in 0 .. no_threads] ==
            IF k = 0 THEN 0 ELSE partialSum[k - 1] + (end - no_threads + k)
    IN  partialSum[no_threads]
------------------------------------------------------------------------------
\* "Vowels removed and file size maintained successfully!" (line 81), said of a text that
\* ends with a newline: the other characters in their order, then dots.
VowelsRemoved(file) ==
    LET size == Len(file)
        kept == {k \in 1 .. size - 1 : file[k] # Vowel}
        result == RemoveVowels(file)
    IN  /\ Len(result) = size /\ result[size] = file[size]
        /\ \A k \in kept : result[Cardinality({j \in kept : j <= k})] = file[k]
        /\ \A k \in Cardinality(kept) + 1 .. size - 1 : result[k] = "."

\* Line 81 is true of a text whose vowels are apart.  Nothing is claimed of another one:
\* the second of two neighbouring vowels stays, as a marker or under a dot.
VowelsApart(file) == \A k \in 1 .. Len(file) - 1 : ~ (file[k] = Vowel /\ file[k + 1] = Vowel)
ApartVowelsRemoved(file) == VowelsApart(file) => VowelsRemoved(file)

Increasing(s) == \A k \in 1 .. Len(s) - 1 : s[k] < s[k + 1]

\* card(intersection) and card(union) of line 5, for sets that are given in increasing
\* order.  Nothing is claimed of others, of which common elements are passed over.
QuotientRight(set1, set2) ==
    LET common == Common(set1, set2)
        A == ToSet(set1)  B == ToSet(set2)
    IN  Increasing(set1) /\ Increasing(set2) =>
            common = Cardinality(A \cap B) /\ Len(set1) + Len(set2) - common = Cardinality(A \cup B)

Prime(n) == n > 1 /\ \A d \in 2 .. n - 1, e \in 2 .. n - 1 : d * e # n

\* Both tests tell the primes, and "the sum of the prime numbers from the array" (line 2)
\* is what is printed, for numbers greater than 1.  Nothing is claimed of other numbers,
\* which both tests take for primes.
PrimesRight(array) ==
    (\A n \in ToSet(array) : n > 1) =>
        /\ \A n \in ToSet(array) : (isPrime(n) <=> Prime(n)) /\ (check_if_prime(n) <=> Prime(n))
        /\ LET sum[i \in 0 .. Len(array)] ==
                  IF i = 0 THEN 0
                  ELSE IF Prime(array[i]) THEN sum[i - 1] + array[i] ELSE sum[i - 1]
           IN  computeSum(array) = sum[Len(array)]

\* Every subset of {0, ..., n-1} is printed, and none twice.
AllSubsets(n) ==
    /\ ToSet(generateSets(n)) = SUBSET (0 .. n - 1)
    /\ IsInjective(generateSets(n))

\* The file is before \o line \o after, and line is the one with this number.
IsLine(f, line_no, line) ==
    \E k \in 0 .. Len(f) :
        LET before == SubSeq(f, 1, k)
            after == SubSeq(f, k + Len(line) + 1, Len(f))
        IN  /\ f = before \o line \o after
            /\ Cardinality({j \in 1 .. k : f[j] = Newline}) = line_no /\ Newline \notin ToSet(line)
            /\ (k = 0 \/ f[k] = Newline) /\ (after = <<>> \/ Head(after) = Newline)

\* "if we add more than the maximum allowed terminate with an error" (line 27): a line that
\* is shorter than the buffer is found, whole and with its length; the result is the error
\* for one that is longer or not there.  Nothing is claimed of a line as long as the
\* buffer, which is returned without its end.
LineFound(f, line_no, max_length) ==
    LET got == get_line(f, line_no, max_length)
        lines == {g \in {SubSeq(f, j, k) : j \in 1 .. Len(f) + 1, k \in 0 .. Len(f)} :
                     IsLine(f, line_no, g)}
    IN  /\ \A g \in lines : Len(g) < max_length =>
              got = [result |-> 0, line |-> g, line_length |-> Len(g)]
        /\ (\A g \in lines : Len(g) > max_length) => got.result = -1

\* The ranges cover the numbers up to n * n, each once, so that main prints their sum.
SumWhole(n) ==
    LET totalSum[k \in 0 .. n] == IF k = 0 THEN 0 ELSE totalSum[k - 1] + calculateSum(k - 1, n)
    IN  2 * totalSum[n] = n * n * (n * n + 1)
=============================================================================
