------------------------------ MODULE Molecules ------------------------------
(***************************************************************************)
(* MoleculeSimulation(Semaphores)/l8_ex6.c: three phases, in each of which *)
(* main creates atoms in random order and the atoms, one thread each,      *)
(* assemble molecules of NaCl, H2O or H2SO4 through semaphores.            *)
(*                                                                         *)
(* A thread is the list of the calls it has still to make, so an atom of a *)
(* kind is the constant Code of that kind.  The phases share no semaphore  *)
(* and no counter: a behaviour is one phase.                               *)
(***************************************************************************)
EXTENDS Semaphore, Sequences, FiniteSets

CONSTANT Amount         \* how many molecules the atoms of each phase make

VARIABLES phase,
          sem,          \* the semaphores
          count,        \* count_h; count__h and count_o
          todo,         \* what each atom still has to do
          created,      \* the atoms whose thread exists
          last,         \* the atom created last: its handle is in slot 0
          main

vars == <<phase, sem, count, todo, created, last, main>>

Phases == {"NaCl", "H2O", "H2SO4"}

Recipe ==
    CASE phase = "NaCl" -> <<"Na", "Cl">>
      [] phase = "H2O" -> <<"H", "H", "O">>
      [] phase = "H2SO4" -> <<"H_", "H_", "S", "O_", "O_", "O_", "O_">>

Elements == {Recipe[j] : j \in DOMAIN Recipe}
HowMany(e) == Amount[phase] * Cardinality({j \in DOMAIN Recipe : Recipe[j] = e})
AllAtoms == UNION {{e} \X (1 .. HowMany(e)) : e \in Elements}
Atoms == DOMAIN todo

Wait(s) == <<"wait", s>>
Post(s) == <<"post", s>>
Count(c) == <<"count", c>>
Test(c) == <<"test", c>>

Code ==
    [Na |-> <<Wait("na_mutex"), Post("na_sem"), Wait("cl_sem"), Post("na_mutex")>>,
     Cl |-> <<Wait("cl_mutex"), Post("cl_sem"), Wait("na_sem"), Post("cl_mutex")>>,
     H  |-> <<Wait("h_sem"), Count("count_h"), Test("count_h"), Wait("h2o_mutex")>>,
     O  |-> <<Wait("o_sem"), Post("h_sem"), Post("h2o_mutex"), Post("h2o_mutex")>>,
     H_ |-> <<Wait("h__sem"), Count("count__h"), Test("count__h"), Wait("h2_mutex")>>,
     S  |-> <<Wait("s_sem"), Post("o__sem"), Wait("s_mutex")>>,
     O_ |-> <<Wait("o__sem"), Count("count_o"), Test("count_o")>>]

\* Mutant of Complete: the hydrogens of the next molecule are not called.
CompleteWithoutH ==
    <<Post("h2_mutex"), Post("h2_mutex"), Post("s_mutex"),
      Post("o_mutex"), Post("o_mutex"), Post("o_mutex")>>

\* Lines 104-110: the fourth oxygen lets the other atoms of the molecule go.
Complete ==
    <<Post("h2_mutex"), Post("h2_mutex"), Post("s_mutex"),
      Post("o_mutex"), Post("o_mutex"), Post("o_mutex"), Post("h__sem")>>

\* Mutant of AfterH: no else, so that the second hydrogen calls a third.
AfterHNoElse ==
    IF count["count_h"] % 2 = 0 THEN <<Post("o_sem"), Post("h_sem")>> ELSE <<Post("h_sem")>>

\* Mutant of AfterH: three hydrogens to an oxygen.
AfterHByThrees ==
    IF count["count_h"] % 3 = 0 THEN <<Post("o_sem")>> ELSE <<Post("h_sem")>>

\* What the ifs on the counters choose.
AfterH == IF count["count_h"] % 2 = 0 THEN <<Post("o_sem")>> ELSE <<Post("h_sem")>>
AfterH_ == IF count["count__h"] % 2 = 0 THEN <<Post("s_sem")>> ELSE <<Post("h__sem")>>
AfterO_ == IF count["count_o"] % 4 = 0 THEN Complete ELSE <<Post("o__sem"), Wait("o_mutex")>>
Chosen(c) == [count_h |-> AfterH, count__h |-> AfterH_, count_o |-> AfterO_][c]

\* Mutant of Initial: the values of lines 190-192.
InitialOfLine190 ==
    [na_sem |-> 0, cl_sem |-> 0, na_mutex |-> 1, cl_mutex |-> 1,
     h_sem |-> 1, o_sem |-> 0, h2o_mutex |-> 2,
     h__sem |-> 1, o__sem |-> 0, s_sem |-> 0, h2_mutex |-> 2, s_mutex |-> 1, o_mutex |-> 4]

\* h2_mutex, s_mutex and o_mutex are initialised twice; the zeros of lines 193-195
\* are the last.
Initial ==
    [na_sem |-> 0, cl_sem |-> 0, na_mutex |-> 1, cl_mutex |-> 1,
     h_sem |-> 1, o_sem |-> 0, h2o_mutex |-> 2,
     h__sem |-> 1, o__sem |-> 0, s_sem |-> 0, h2_mutex |-> 0, s_mutex |-> 0, o_mutex |-> 0]

InitialPhase ==
    /\ sem = Initial
    /\ count = [count_h |-> 0, count__h |-> 0, count_o |-> 0]
    /\ todo = [a \in AllAtoms |-> Code[a[1]]]
    /\ main = "creating"

NothingCreated == created = {} /\ last = <<>>

Init == phase \in Phases /\ InitialPhase /\ NothingCreated
------------------------------------------------------------------------------
\* The head of what an atom has to do.
Doing(a, what) == a \in created /\ todo[a] # <<>> /\ Head(todo[a])[1] = what
On(a) == Head(todo[a])[2]
Advance(a) == todo' = [todo EXCEPT ![a] = Tail(@)]

WaitStep(a) ==
    /\ Doing(a, "wait")
    /\ SemWaitAt(sem, On(a))
    /\ Advance(a)
    /\ UNCHANGED count

PostStep(a) ==
    /\ Doing(a, "post")
    /\ SemPostAt(sem, On(a))
    /\ Advance(a)
    /\ UNCHANGED count

CountStep(a) ==
    /\ Doing(a, "count")
    /\ count' = [count EXCEPT ![On(a)] = @ + 1]
    /\ Advance(a)
    /\ UNCHANGED sem

TestStep(a) ==
    /\ Doing(a, "test")
    /\ todo' = [todo EXCEPT ![a] = Chosen(On(a)) \o Tail(@)]
    /\ UNCHANGED <<sem, count>>

\* The end of the process is the end of its threads.
AtomStep(a) ==
    /\ main # "ended"
    /\ WaitStep(a) \/ PostStep(a) \/ CountStep(a) \/ TestStep(a)
    /\ UNCHANGED <<phase, created, last, main>>
------------------------------------------------------------------------------
(* main: i stays 0 in the loops that create the atoms, so that every handle *)
(* is stored in slot 0 and the others stay 0.  The join of slot 0 waits for *)
(* the atom created last; to join a handle that was never written is        *)
(* undefined: glibc crashes, others return ESRCH and main goes on.  After   *)
(* the last phase that is to the end of the process; sem_destroy, which the *)
(* phases end with, leaves the semaphores as they are.                      *)

\* The atoms of an element are alike, so they are created in the order of their numbers.
Create(a) ==
    /\ main = "creating"
    /\ a \notin created
    /\ \A k \in 1 .. a[2] - 1 : <<a[1], k>> \in created
    /\ created' = created \cup {a}
    /\ last' = a
    /\ main' = IF created' = Atoms THEN "joining" ELSE "creating"
    /\ UNCHANGED <<phase, sem, count, todo>>

Join ==
    /\ main = "joining"
    /\ todo[last] = <<>>
    /\ main' \in IF phase = "H2SO4" THEN {"ended"} ELSE {"ended", "next phase"}
    /\ UNCHANGED <<phase, sem, count, todo, created, last>>

\* A later phase ends the process, in its joins or by the return.  Nothing says when.
EndLater ==
    /\ main = "next phase"
    /\ main' = "ended"
    /\ UNCHANGED <<phase, sem, count, todo, created, last>>

MainStep == Join \/ \E a \in Atoms : Create(a)

Next == MainStep \/ EndLater \/ \E a \in Atoms : AtomStep(a)

Spec == Init /\ [][Next]_vars

FairSpec == Spec /\ WF_vars(MainStep) /\ WF_vars(\E a \in Atoms : AtomStep(a))
------------------------------------------------------------------------------
Binary == {"na_mutex", "cl_mutex", "h_sem", "o_sem", "h__sem", "o__sem", "s_sem"}

\* The type invariant; the semaphores that stand for a turn are never above 1.
TypeOK ==
    /\ phase \in Phases
    /\ \A s \in DOMAIN Initial :
          sem[s] \in 0 .. IF s \in Binary THEN 1 ELSE 3 * Amount[phase] + 2
    /\ \A c \in DOMAIN count : count[c] \in 0 .. 4 * Amount[phase]
    /\ created \subseteq Atoms
    /\ last \in created \cup {<<>>}
    /\ main \in {"creating", "joining", "next phase", "ended"}

\* How many atoms of element e have had their turn.
Begun(e) == Cardinality({a \in created : a[1] = e /\ todo[a] # Code[e]})

\* Atoms have their turns one at a time, which is what protects the counters, and in
\* the order of the recipe, whichever are created first: those that have had theirs are
\* the first atoms of the recipe, repeated.
AtCounter == {a \in created : Doing(a, "count") \/ Doing(a, "test")}
Order ==
    \E k \in 0 .. Cardinality(Atoms) : \A e \in Elements :
        Begun(e) = Cardinality({j \in 0 .. k - 1 : Recipe[(j % Len(Recipe)) + 1] = e})
InRecipeOrder == phase # "NaCl" => Cardinality(AtCounter) <= 1 /\ Order

Gone == {a \in created : todo[a] = <<>>}
Coupled(e) == Cardinality({a \in created : a[1] = e /\ Len(todo[a]) <= 1})

\* No molecule goes before it is complete.  Sodium and chlorine couple one to one;
\* h2o_mutex starts with 2 (line 158), so that two hydrogens of water may go early.
MoleculesComplete ==
    CASE phase = "NaCl" -> Coupled("Na") - Coupled("Cl") \in -1 .. 1
      [] phase = "H2O" ->
            Cardinality({a \in Gone : a[1] = "H"}) <= 2 * Begun("O") + 2
      [] phase = "H2SO4" -> Cardinality(Gone) <= Len(Recipe) * (Begun("O_") \div 4)

CanGo(a) == todo[a] # <<>> /\ (Doing(a, "wait") => sem[On(a)] > 0)

\* The atoms of every phase find partners, whatever the order they are created in: the
\* join of slot 0 returns, some atom can always go on, and only the end of the process,
\* which does not wait for the atoms, keeps them from all going.
EverybodyBonds ==
    /\ <>(main \notin {"creating", "joining"})
    /\ [](created = Atoms => Gone = Atoms \/ \E a \in Atoms : CanGo(a))
    /\ <>(main = "ended" \/ Gone = Atoms)
==============================================================================
