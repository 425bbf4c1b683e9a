-------------------------------- MODULE Posix --------------------------------
(***************************************************************************)
(* The pthread primitives that the programs of this repository call,       *)
(* modelled from how they call them.                                       *)
(*                                                                         *)
(*  - a mutex is the thread that holds it, or Nobody;                      *)
(*  - a condition variable is the set of threads asleep on it: a thread    *)
(*    whose pc is at a pthread_cond_wait and that is no longer in the set  *)
(*    has been woken and competes for the mutex like any other thread.     *)
(***************************************************************************)
EXTENDS Integers

CONSTANT Nobody     \* the owner of a free mutex; never a thread

\* pthread_mutex_lock by t: blocks until m is free, then m belongs to t.
Lock(m, t) == m = Nobody /\ m' = t

\* pthread_mutex_unlock by t, which holds m.
Unlock(m, t) == m = t /\ m' = Nobody

\* pthread_cond_wait by t: sleeps on q and gives m up in one step.
CondWait(q, m, t) == q' = q \cup {t} /\ Unlock(m, t)

\* pthread_cond_signal: one sleeper of q wakes, any of them; none when q is empty.
Signal(q) == IF q = {} THEN q' = {} ELSE \E t \in q : q' = q \ {t}

\* pthread_cond_broadcast: every sleeper of q wakes.
Broadcast(q) == q' = {}

\* POSIX lets pthread_cond_wait return although nobody signalled.
SpuriousWakeup(q) == \E t \in q : q' = q \ {t}
==============================================================================
