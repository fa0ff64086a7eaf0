--------------------------- MODULE NachosBarrier ---------------------------
(***************************************************************************)
(* Barrier::ArriveAndWait of threads/synch.cc, run as Lab3Challenge1 of  *)
(* threadtest.cc does: every thread, main included, calls it Rounds      *)
(* times, and the barrier counts num_threads = all of them.              *)
(*                                                                         *)
(* ArriveAndWait runs with interrupts off, so a call is one step up to    *)
(* the point where the thread sleeps (on the mutex or on the condition), *)
(* and one more step once it is woken.                                    *)
(***************************************************************************)
EXTENDS Integers, FiniteSets, TLC

CONSTANTS BarThreads, Rounds, NoThread

ASSUME Rounds \in Nat \ {0}

VARIABLES sy, pc, numLeft, round
vars == <<sy, pc, numLeft, round>>

NumThreads == Cardinality(BarThreads)

S == INSTANCE NachosSynch WITH Threads <- BarThreads,
       Sems <- {"Mutex"}, Locks <- {"Mutex"}, Conds <- {"barrier"},
       SemInit <- ("Mutex" :> 1)

\* Bar = new Barrier(..., num_threads+1); the threads start at their first
\* call.  round counts the calls a thread has returned from.
Init ==
  /\ sy = S!SynchInit
  /\ pc = [t \in BarThreads |-> "Arrive"]
  /\ numLeft = NumThreads
  /\ round = [t \in BarThreads |-> 0]

\* Return from ArriveAndWait; the thread ends after Rounds calls.
Return(t) ==
  /\ round' = [round EXCEPT ![t] = @ + 1]
  /\ pc' = [pc EXCEPT ![t] = IF round[t] + 1 = Rounds THEN "done" ELSE "Arrive"]

\* Mutex->Acquire() finds the mutex held: the thread sleeps in P.
Blocked(t) ==
  /\ ~S!Avail(sy, "Mutex")
  /\ sy' = S!Acquire(sy, t, "Mutex")
  /\ UNCHANGED <<pc, numLeft, round>>

\* Mutant: the last-arrival test one too early (num_left == 1 after the
\* decrement).
ArriveAndWaitEarly(t) ==
  LET held == S!Acquire(sy, t, "Mutex") IN
  /\ pc[t] = "Arrive"
  /\ \/ Blocked(t)
     \/ /\ S!Avail(sy, "Mutex")
        /\ numLeft - 1 <= 1
        /\ sy' = S!Release(S!Broadcast(held, "barrier"), t, "Mutex")
        /\ numLeft' = NumThreads
        /\ Return(t)
     \/ /\ S!Avail(sy, "Mutex")
        /\ numLeft - 1 > 1
        /\ sy' = S!Wait(held, t, "barrier", "Mutex")
        /\ numLeft' = numLeft - 1
        /\ pc' = [pc EXCEPT ![t] = "Reacquire"]
        /\ UNCHANGED round

\* Mutex->Acquire(); num_left--; the last arrival broadcasts, resets
\* num_left and releases; any other waits on the condition.
ArriveAndWait(t) ==
  LET held == S!Acquire(sy, t, "Mutex") IN
  /\ pc[t] = "Arrive"
  /\ \/ Blocked(t)
     \/ /\ S!Avail(sy, "Mutex")
        /\ numLeft - 1 = 0
        /\ sy' = S!Release(S!Broadcast(held, "barrier"), t, "Mutex")
        /\ numLeft' = NumThreads
        /\ Return(t)
     \/ /\ S!Avail(sy, "Mutex")
        /\ numLeft - 1 # 0
        /\ sy' = S!Wait(held, t, "barrier", "Mutex")
        /\ numLeft' = numLeft - 1
        /\ pc' = [pc EXCEPT ![t] = "Reacquire"]
        /\ UNCHANGED round

\* Woken by the broadcast: Wait re-acquires the mutex, then
\* ArriveAndWait releases it and returns.
Reacquire(t) ==
  /\ pc[t] = "Reacquire"
  /\ \/ Blocked(t)
     \/ /\ S!Avail(sy, "Mutex")
        /\ sy' = S!Release(S!Acquire(sy, t, "Mutex"), t, "Mutex")
        /\ Return(t)
        /\ UNCHANGED numLeft

Step(t) == ~S!Asleep(sy, t) /\ (ArriveAndWait(t) \/ Reacquire(t))

Finished == \A t \in BarThreads : pc[t] = "done"
Halt == Finished /\ UNCHANGED vars

Next == (\E t \in BarThreads : Step(t)) \/ Halt

-----------------------------------------------------------------------------
(* Properties                                                              *)

TypeOK ==
  /\ sy \in S!SynchState
  /\ pc \in [BarThreads -> {"Arrive", "Reacquire", "done"}]
  /\ numLeft \in 1 .. NumThreads
  /\ round \in [BarThreads -> 0 .. Rounds]

\* The calls thread t has entered and passed num_left-- in.
Arrived(t) == round[t] + (IF pc[t] = "Reacquire" THEN 1 ELSE 0)

\* No thread returns from its k-th ArriveAndWait before every thread has
\* arrived at its k-th: the barrier holds in every round, although it is
\* reused and a woken thread may not yet have left the previous round
\* when the fastest threads arrive at the next one.
BarrierSync == \A t, u \in BarThreads : round[t] <= Arrived(u)

=============================================================================
