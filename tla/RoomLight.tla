------------------------------ MODULE RoomLight ------------------------------
(***************************************************************************)
(* RoomLightController(Threads)/Lab10_ex1_room-light-controller.c: persons *)
(* pass a room once each.  The first of them announces itself to the light *)
(* controller and waits, the last one out reports back.                    *)
(*                                                                         *)
(* no_persons_inside changes under the mutex only.  The controller takes   *)
(* no mutex: it reads no_persons_who_left and uses the semaphores between  *)
(* any two steps of a person.                                              *)
(***************************************************************************)
EXTENDS Posix, Semaphore, FiniteSets

CONSTANT Persons

no_persons == Cardinality(Persons)

ASSUME RoomLightAssumption == IsFiniteSet(Persons) /\ Nobody \notin Persons

VARIABLES mutex,
          sem1,     \* somebody wants to enter the empty room
          sem2,     \* the barrier at the door
          sem3,     \* the room is empty again
          no_persons_inside, no_persons_who_left,
          light,
          pc,
          controller, main

room == <<no_persons_inside, no_persons_who_left>>
vars == <<mutex, sem1, sem2, sem3, room, light, pc, controller, main>>

\* arrive: at line 24; announce: at 25 with the mutex; barrier: at 29; repost: at
\* 30; enter: at 32; inside: at 39; leave: at 41 with the mutex; report: at 43.
Places == {"new", "arrive", "announce", "barrier", "repost", "enter", "inside",
           "leave", "report", "gone"}

\* check: at line 54; await: at 56; open: at 58; lit: at 60; reset: at 62.
ControllerPlaces == {"new", "check", "await", "open", "lit", "reset", "done"}

Init ==
    /\ mutex = Nobody
    /\ sem1 = 0 /\ sem2 = 0 /\ sem3 = 0
    /\ no_persons_inside = 0 /\ no_persons_who_left = 0
    /\ light = "OFF"
    /\ pc = [t \in Persons |-> "new"]
    /\ controller = "new"
    /\ main = "running"

Move(t, from, to) == pc[t] = from /\ pc' = [pc EXCEPT ![t] = to]
Control(from, to) == controller = from /\ controller' = to
------------------------------------------------------------------------------
(* person                                                                   *)

Empty == no_persons_inside = 0

LockDoor(t) ==
    /\ Move(t, "arrive", "announce") \/ Move(t, "inside", "leave")
    /\ Lock(mutex, t)
    /\ UNCHANGED <<sem1, sem2, sem3, room>>

Announce(t) ==
    /\ Move(t, "announce", "barrier")
    /\ IF Empty THEN SemPost(sem1) ELSE UNCHANGED sem1
    /\ UNCHANGED <<mutex, sem2, sem3, room>>

Barrier(t) ==
    /\ Move(t, "barrier", "repost")
    /\ SemWait(sem2)
    /\ UNCHANGED <<mutex, sem1, sem3, room>>

\* Mutant of Repost: the barrier stays closed behind the first person.
RepostForgotten(t) ==
    /\ Move(t, "repost", "enter")
    /\ UNCHANGED <<mutex, sem1, sem2, sem3, room>>

Repost(t) ==
    /\ Move(t, "repost", "enter")
    /\ SemPost(sem2)
    /\ UNCHANGED <<mutex, sem1, sem3, room>>

Enter(t) ==
    /\ Move(t, "enter", "inside")
    /\ no_persons_inside' = no_persons_inside + 1
    /\ Unlock(mutex, t)
    /\ UNCHANGED <<sem1, sem2, sem3, no_persons_who_left>>

Leave(t) ==
    /\ Move(t, "leave", "report")
    /\ no_persons_inside' = no_persons_inside - 1
    /\ no_persons_who_left' = no_persons_who_left + 1
    /\ UNCHANGED <<mutex, sem1, sem2, sem3>>

\* Mutant of Report: everybody who leaves reports.
ReportAlways(t) ==
    /\ Move(t, "report", "gone")
    /\ SemPost(sem3)
    /\ Unlock(mutex, t)
    /\ UNCHANGED <<sem1, sem2, room>>

Report(t) ==
    /\ Move(t, "report", "gone")
    /\ IF Empty THEN SemPost(sem3) ELSE UNCHANGED sem3
    /\ Unlock(mutex, t)
    /\ UNCHANGED <<sem1, sem2, room>>

PersonStep(t) ==
    /\ \/ LockDoor(t) \/ Announce(t) \/ Barrier(t) \/ Repost(t) \/ Enter(t)
       \/ Leave(t) \/ Report(t)
    /\ UNCHANGED <<light, controller, main>>
------------------------------------------------------------------------------
(* light_controller                                                         *)

SomebodyToCome == no_persons_who_left < no_persons

Check ==
    /\ controller = "check"
    /\ controller' = IF SomebodyToCome THEN "await" ELSE "done"
    /\ UNCHANGED <<sem1, sem2, sem3, light>>

LightOn ==
    /\ Control("await", "open")
    /\ SemWait(sem1)
    /\ light' = "ON"
    /\ UNCHANGED <<sem2, sem3>>

Open ==
    /\ Control("open", "lit")
    /\ SemPost(sem2)
    /\ UNCHANGED <<sem1, sem3, light>>

LightOff ==
    /\ Control("lit", "reset")
    /\ SemWait(sem3)
    /\ light' = "OFF"
    /\ UNCHANGED <<sem1, sem2>>

\* Mutant of Reset: the barrier is left open.
ResetForgotten ==
    /\ Control("reset", "check")
    /\ UNCHANGED <<sem1, sem2, sem3, light>>

Reset ==
    /\ Control("reset", "check")
    /\ SemWait(sem2)
    /\ UNCHANGED <<sem1, sem3, light>>

ControllerStep ==
    /\ Check \/ LightOn \/ Open \/ LightOff \/ Reset
    /\ UNCHANGED <<mutex, room, pc, main>>
------------------------------------------------------------------------------
(* main creates the controller, then the persons, one of whom is like the   *)
(* other, and joins them all.                                               *)

CreateController ==
    /\ Control("new", "check")
    /\ UNCHANGED <<mutex, sem1, sem2, sem3, room, light, pc, main>>

Create(t) ==
    /\ controller # "new"
    /\ Move(t, "new", "arrive")
    /\ UNCHANGED <<mutex, sem1, sem2, sem3, room, light, controller, main>>

JoinedAll ==
    /\ main = "running"
    /\ controller = "done"
    /\ \A t \in Persons : pc[t] = "gone"
    /\ main' = "done"
    /\ UNCHANGED <<mutex, sem1, sem2, sem3, room, light, pc, controller>>

MainStep == CreateController \/ JoinedAll \/ \E t \in Persons : Create(t)

Terminated == main = "done" /\ UNCHANGED vars

Next ==
    \/ MainStep \/ ControllerStep \/ Terminated
    \/ \E t \in Persons : PersonStep(t)

Spec == Init /\ [][Next]_vars

\* The scheduler runs every thread that can run.
FairSpec ==
    /\ Spec
    /\ WF_vars(MainStep) /\ WF_vars(ControllerStep)
    /\ \A t \in Persons : WF_vars(PersonStep(t))
------------------------------------------------------------------------------
\* The type invariant.
TypeOK ==
    /\ mutex \in Persons \cup {Nobody}
    /\ sem1 \in 0 .. no_persons
    /\ sem2 \in 0 .. 1
    /\ sem3 \in 0 .. no_persons
    /\ no_persons_inside \in 0 .. no_persons
    /\ no_persons_who_left \in 0 .. no_persons
    /\ light \in {"ON", "OFF"}
    /\ pc \in [Persons -> Places]
    /\ controller \in ControllerPlaces
    /\ main \in {"running", "done"}

At(places) == {t \in Persons : pc[t] \in places}
Bit(b) == IF b THEN 1 ELSE 0

\* Somebody is inside, or has announced a visit of the empty room, or has left it
\* empty and not reported yet.
Visited == ~Empty \/ At({"barrier", "repost", "enter", "report"}) # {}

\* The controller may lag behind by several visits, yet no visit is lost or counted
\* twice: announcements and reports pair up.
VisitsPairUp == sem1 + Bit(controller \in {"open", "lit"}) = sem3 + Bit(Visited)

\* The barrier is one token, given out by the controller and handed from person to
\* person, so the reset on line 62 never takes the token of a later round.
OneBarrierToken ==
    sem2 + Cardinality(At({"repost"})) = Bit(controller \in {"lit", "reset"})

\* Everybody visits the room and main joins everybody; the light is off at the end.
Termination == <>(main = "done" /\ light = "OFF" /\ sem2 = 0)

\* The light turns off and on "if room becomes empty in between" (line 16): nobody
\* is in the room in the dark.
LitWhileOccupied == no_persons_inside > 0 => light = "ON"
==============================================================================
