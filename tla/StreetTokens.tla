---------------------------- MODULE StreetTokens ----------------------------
(***************************************************************************)
(* Semaphores/l8_ex5.c: a traffic light hands a token to one street and    *)
(* then to the other; the cars of a street move while they hold its token. *)
(* The light takes the token back with the same sem_wait as the cars, who  *)
(* may be first every time: only safety is claimed.                        *)
(***************************************************************************)
EXTENDS Semaphore, FiniteSets

Streets == 1 .. 2

VARIABLES sems,         \* sem1 and sem2
          moving,       \* the streets whose cars are moving
          light,        \* what the traffic light does next
          created       \* how many threads main has created

vars == <<sems, moving, light, created>>

Init ==
    /\ sems = [s \in Streets |-> 0]
    /\ moving = {}
    /\ light = "post1"
    /\ created = 0

\* Thread 0 is the light, thread s is street s.
Move(s) ==
    /\ s < created
    /\ s \notin moving
    /\ SemWaitAt(sems, s)
    /\ moving' = moving \cup {s}
    /\ UNCHANGED <<light, created>>

Stop(s) ==
    /\ s \in moving
    /\ SemPostAt(sems, s)
    /\ moving' = moving \ {s}
    /\ UNCHANGED <<light, created>>

Green(s) ==
    /\ created > 0
    /\ light = <<"post1", "post2">>[s]
    /\ SemPostAt(sems, s)
    /\ light' = <<"wait1", "wait2">>[s]
    /\ UNCHANGED <<moving, created>>

\* Mutant of Red: the light takes no token back.
RedAtOnce(s) ==
    /\ light = <<"wait1", "wait2">>[s]
    /\ light' = <<"post2", "post1">>[s]
    /\ UNCHANGED <<sems, moving, created>>

Red(s) ==
    /\ light = <<"wait1", "wait2">>[s]
    /\ SemWaitAt(sems, s)
    /\ light' = <<"post2", "post1">>[s]
    /\ UNCHANGED <<moving, created>>

StreetStep(s) == Move(s) \/ Stop(s)
LightStep == \E s \in Streets : Green(s) \/ Red(s)

\* No thread returns, so that main stays in its first join.
MainStep ==
    /\ created < 3
    /\ created' = created + 1
    /\ UNCHANGED <<sems, moving, light>>

Next == MainStep \/ LightStep \/ \E s \in Streets : StreetStep(s)

Spec == Init /\ [][Next]_vars
------------------------------------------------------------------------------
\* The type invariant.
TypeOK ==
    /\ sems \in [Streets -> 0 .. 1]
    /\ moving \subseteq Streets
    /\ light \in {"post1", "wait1", "post2", "wait2"}
    /\ created \in 0 .. 3

\* The token of street s: in its semaphore or with its cars.
Tokens(s) == sems[s] + Cardinality(moving \cap {s})

\* The cars of a street move only while its light is green, although they go on for
\* themselves: there is a token in that street and none in the other, and none at all
\* while the light changes (lines 38, 41, 42 and 45).
OneStreetMoves ==
    \A s \in Streets : Tokens(s) = IF light = <<"wait1", "wait2">>[s] THEN 1 ELSE 0
=============================================================================
