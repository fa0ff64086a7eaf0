----------------------------- MODULE ThreadTest -----------------------------
(***************************************************************************)
(* The synchronisation tests of threads/threadtest.cc as ThreadTest()     *)
(* runs them: the switch on testnum picks one test, the test builds its   *)
(* object and forks its threads, and the threads run to completion.      *)
(*                                                                         *)
(*   Lab3Test4_1     producers and consumers over class Buffer            *)
(*   Lab3Test4_2     producers and consumers over class BufferCnd         *)
(*   Lab3Challenge1  threads meeting at a Barrier                         *)
(*   Lab3Challenge2  readers and writers around a ReadWriteLock           *)
(*                                                                         *)
(* test is the test the run picked; the state of the other tests stays   *)
(* at its initial value.  Lab3Challenge2_1 forks the same threads in     *)
(* another order; the scheduler below runs any ready thread, so it is    *)
(* the same behaviours as Lab3Challenge2.                                 *)
(***************************************************************************)
EXTENDS Integers, TLC

CONSTANTS
  Tests,
  Producers, Consumers, BufIters, BufLen, Junk,
  BarThreads, Rounds,
  Readers, Writers, RWIters,
  NoThread

BufTests == {"Lab3Test4_1", "Lab3Test4_2"}
ASSUME Tests \subseteq BufTests \cup {"Lab3Challenge1", "Lab3Challenge2"}

VARIABLES test,
  bufImpl, bufSy, bufPc, bufLeft, count, list, item, took, consumed,
  barSy, barPc, numLeft, round,
  rwSy, rwPc, rwLeft, readerCnt

bufVars == <<bufImpl, bufSy, bufPc, bufLeft, count, list, item, took, consumed>>
barVars == <<barSy, barPc, numLeft, round>>
rwVars == <<rwSy, rwPc, rwLeft, readerCnt>>
vars == <<test, bufVars, barVars, rwVars>>

Buf == INSTANCE BoundedBuffer WITH
         impl <- bufImpl,
         Impls <- {"Buffer", "BufferCnd"}, Iters <- BufIters,
         sy <- bufSy, pc <- bufPc, left <- bufLeft
Bar == INSTANCE NachosBarrier WITH sy <- barSy, pc <- barPc
RW == INSTANCE RWLock WITH Iters <- RWIters, sy <- rwSy, pc <- rwPc, left <- rwLeft

\* Lab3Test4_1 builds a Buffer, Lab3Test4_2 a BufferCnd.
Init ==
  /\ test \in Tests
  /\ bufImpl = IF test = "Lab3Test4_1" THEN "Buffer" ELSE "BufferCnd"
  /\ Buf!Init /\ Bar!Init /\ RW!Init

\* A step of a thread of the test that runs.
BufStep(t) ==
  test \in BufTests /\ Buf!Step(t) /\ UNCHANGED <<test, barVars, rwVars>>
BarStep(t) ==
  test = "Lab3Challenge1" /\ Bar!Step(t) /\ UNCHANGED <<test, bufVars, rwVars>>
RWStep(t) ==
  test = "Lab3Challenge2" /\ RW!Step(t) /\ UNCHANGED <<test, bufVars, barVars>>

\* Every forked thread of the test has finished.
Finished ==
  \/ test \in BufTests /\ Buf!Finished
  \/ test = "Lab3Challenge1" /\ Bar!Finished
  \/ test = "Lab3Challenge2" /\ RW!Finished

\* The test's threads are done: no thread is ready, Nachos halts.
Halt == Finished /\ UNCHANGED vars

Next ==
  \/ \E t \in Buf!BufThreads : BufStep(t)
  \/ \E t \in BarThreads : BarStep(t)
  \/ \E t \in RW!RWThreads : RWStep(t)
  \/ Halt

\* Scheduler::FindNextToRun takes the head of a FIFO ready list and a
\* thread is appended to it whenever it is made ready or yields, so a
\* thread that stays ready is run within a round of the list.
Fairness ==
  /\ \A t \in Buf!BufThreads : WF_vars(BufStep(t))
  /\ \A t \in BarThreads : WF_vars(BarStep(t))
  /\ \A t \in RW!RWThreads : WF_vars(RWStep(t))

Spec == Init /\ [][Next]_vars /\ Fairness

-----------------------------------------------------------------------------
(* Properties                                                              *)

TypeOK == Buf!TypeOK /\ Bar!TypeOK /\ RW!TypeOK

\* The buffers implement a bounded stack (BoundedBuffer!BufferIsStack).
BufferIsStack == Buf!BufferIsStack

\* ArriveAndWait lets no thread through round k before all arrived at k.
BarrierSync == Bar!BarrierSync

\* ReadWriteLock admits a writer alone (RWLock!RWExclusion).
RWExclusion == RW!RWExclusion

\* Every thread the test forked returns: under the fair FIFO scheduler,
\* no thread sleeps forever on a semaphore, a lock or a condition.
AllFinish == <>Finished

\* ConsumeItem never prints an item twice (BoundedBuffer!ConsumedOnce).
ConsumedOnce == Buf!ConsumedOnce

=============================================================================
