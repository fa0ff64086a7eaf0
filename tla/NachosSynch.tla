---------------------------- MODULE NachosSynch ----------------------------
(***************************************************************************)
(* The synchronisation primitives of threads/synch.cc on one processor:   *)
(* Semaphore, Lock (a semaphore of value 1 and an owner) and Condition    *)
(* (a queue of sleeping threads).  Each primitive runs with interrupts    *)
(* off, so one call is one atomic step of its caller.                     *)
(*                                                                         *)
(* The state of all primitives is one record                              *)
(*    [sem, sq, owner, cq]                                                 *)
(* and each operation is a pure operator from that record to the next:   *)
(* a client composes the calls one step makes, as the code does.  A      *)
(* thread is asleep while it is in a semaphore's or a condition's queue. *)
(* Semaphore::P is a loop: a V moves the first sleeper to the ready list  *)
(* and the sleeper retries P when it runs again (Mesa semantics), so a    *)
(* client that fails a P stays at the same step and retries it.          *)
(***************************************************************************)
EXTENDS Integers, Sequences
LOCAL INSTANCE SequencesExt

CONSTANTS
  Threads,    \* the threads
  Sems,       \* the semaphores, the ones inside locks included
  Locks,      \* the locks: each is also the name of its semaphore
  Conds,      \* the condition variables
  SemInit,    \* initial value of each semaphore (1 for a lock)
  NoThread    \* Owner == NULL

ASSUME /\ Locks \subseteq Sems
       /\ SemInit \in [Sems -> Nat]
       /\ \A l \in Locks : SemInit[l] = 1
       /\ NoThread \notin Threads

SynchState == [sem : [Sems -> Nat], sq : [Sems -> Seq(Threads)],
               owner : [Locks -> Threads \cup {NoThread}], cq : [Conds -> Seq(Threads)]]

\* The constructors: values as given, empty queues, no owner.
SynchInit == [sem |-> SemInit, sq |-> [s \in Sems |-> <<>>],
              owner |-> [l \in Locks |-> NoThread], cq |-> [c \in Conds |-> <<>>]]

\* Thread t sleeps in some queue.
Asleep(sy, t) ==
  \/ \E s \in Sems : t \in ToSet(sy.sq[s])
  \/ \E c \in Conds : t \in ToSet(sy.cq[c])

-----------------------------------------------------------------------------
(* Semaphore                                                               *)

\* One pass of P's loop succeeds: the value is positive.
Avail(sy, s) == sy.sem[s] > 0

\* Semaphore::P: take the value if it is positive, else append the caller
\* to the queue and sleep.
P(sy, t, s) ==
  IF Avail(sy, s) THEN [sy EXCEPT !.sem[s] = @ - 1]
  ELSE [sy EXCEPT !.sq[s] = Append(@, t)]

\* Semaphore::V: move the first sleeper, if any, to the ready list, and
\* increment the value.
V(sy, s) ==
  [sy EXCEPT !.sq[s] = IF @ = <<>> THEN @ ELSE Tail(@), !.sem[s] = @ + 1]

-----------------------------------------------------------------------------
(* Lock                                                                    *)

\* Lock::Acquire: P on the lock's semaphore, then Owner = currentThread.
Acquire(sy, t, l) ==
  IF Avail(sy, l) THEN [P(sy, t, l) EXCEPT !.owner[l] = t] ELSE P(sy, t, l)

\* Lock::Release: ASSERT(isHeldByCurrentThread()), Owner = NULL, V.
Release(sy, t, l) == V([sy EXCEPT !.owner[l] = NoThread], l)

HeldBy(sy, t, l) == sy.owner[l] = t

-----------------------------------------------------------------------------
(* Condition                                                               *)

\* Condition::Wait, with interrupts off throughout: release the lock,
\* append the caller to the wait queue and sleep.  Re-acquiring the lock
\* after the wake-up is the caller's next step.
Wait(sy, t, c, l) == [Release(sy, t, l) EXCEPT !.cq[c] = Append(@, t)]

\* Condition::Signal: wake the first waiter, if any.
Signal(sy, c) == [sy EXCEPT !.cq[c] = IF @ = <<>> THEN @ ELSE Tail(@)]

\* Condition::Broadcast: wake every waiter.
Broadcast(sy, c) == [sy EXCEPT !.cq[c] = <<>>]

=============================================================================
