------------------------------- MODULE RWLock -------------------------------
(***************************************************************************)
(* ReadWriteLock of threads/synch.cc, run as Lab3Challenge2 of           *)
(* threadtest.cc does: ReaderThread and WriterThread each loop Iters     *)
(* times around the lock and Yield inside it.                            *)
(*                                                                         *)
(* AcquireReaderLock and ReleaseReaderLock run with interrupts off: each *)
(* is one step up to the point where the thread sleeps on ReaderLock or *)
(* WriterLock, and one more once woken.  The writer's calls are a single *)
(* P or V.                                                                 *)
(***************************************************************************)
EXTENDS Integers, FiniteSets, TLC

CONSTANTS Readers, Writers, Iters, NoThread

ASSUME /\ Readers \cap Writers = {}
       /\ Iters \in Nat \ {0}

VARIABLES sy, pc, left, readerCnt
vars == <<sy, pc, left, readerCnt>>

RWThreads == Readers \cup Writers

S == INSTANCE NachosSynch WITH Threads <- RWThreads,
       Sems <- {"ReaderLock", "WriterLock"}, Locks <- {"ReaderLock"},
       Conds <- {}, SemInit <- ("ReaderLock" :> 1 @@ "WriterLock" :> 1)

Start(t) == IF t \in Readers THEN "AcquireR" ELSE "AcquireW"

Init ==
  /\ sy = S!SynchInit
  /\ pc = [t \in RWThreads |-> Start(t)]
  /\ left = [t \in RWThreads |-> Iters]
  /\ readerCnt = 0

Goto(t, l) == pc' = [pc EXCEPT ![t] = l]

NextIter(t) ==
  /\ left' = [left EXCEPT ![t] = @ - 1]
  /\ Goto(t, IF left[t] = 1 THEN "done" ELSE Start(t))

\* ReaderLock->Acquire() finds the lock held: the thread sleeps in P.
ReaderLockBlocked(t) ==
  /\ ~S!Avail(sy, "ReaderLock")
  /\ sy' = S!Acquire(sy, t, "ReaderLock")
  /\ UNCHANGED <<pc, left, readerCnt>>

\* WriterLock->P() by the first reader, with ReaderLock held: on success
\* ReaderLock is released and the reader is in; otherwise it sleeps,
\* still holding ReaderLock, and retries at "FirstReader".
FirstReaderP(t, s) ==
  IF S!Avail(s, "WriterLock")
  THEN /\ sy' = S!Release(S!P(s, t, "WriterLock"), t, "ReaderLock")
       /\ Goto(t, "Read")
  ELSE /\ sy' = S!P(s, t, "WriterLock")
       /\ Goto(t, "FirstReader")

\* Mutant: the first-reader test made before ReaderCnt++.
AcquireReaderLockSwapped(t) ==
  LET held == S!Acquire(sy, t, "ReaderLock") IN
  /\ pc[t] = "AcquireR"
  /\ \/ ReaderLockBlocked(t)
     \/ /\ S!Avail(sy, "ReaderLock")
        /\ readerCnt' = readerCnt + 1
        /\ IF readerCnt = 1
           THEN FirstReaderP(t, held)
           ELSE sy' = S!Release(held, t, "ReaderLock") /\ Goto(t, "Read")
        /\ UNCHANGED left

\* AcquireReaderLock: ReaderLock->Acquire(); ReaderCnt++; the first
\* reader takes WriterLock; ReaderLock->Release().
AcquireReaderLock(t) ==
  LET held == S!Acquire(sy, t, "ReaderLock") IN
  /\ pc[t] = "AcquireR"
  /\ \/ ReaderLockBlocked(t)
     \/ /\ S!Avail(sy, "ReaderLock")
        /\ readerCnt' = readerCnt + 1
        /\ IF readerCnt + 1 = 1
           THEN FirstReaderP(t, held)
           ELSE sy' = S!Release(held, t, "ReaderLock") /\ Goto(t, "Read")
        /\ UNCHANGED left

\* The first reader, woken by WriterLock->V(), retries its P.
FirstReader(t) ==
  /\ pc[t] = "FirstReader"
  /\ FirstReaderP(t, sy)
  /\ UNCHANGED <<left, readerCnt>>

\* Inside the lock: currentThread->Yield(), then read Buff.
ReadBuff(t) ==
  /\ pc[t] = "Read"
  /\ Goto(t, "ReleaseR")
  /\ UNCHANGED <<sy, left, readerCnt>>

\* ReleaseReaderLock: ReaderLock->Acquire(); ReaderCnt--; the last reader
\* gives WriterLock back; ReaderLock->Release().
ReleaseReaderLock(t) ==
  LET held == S!Acquire(sy, t, "ReaderLock") IN
  /\ pc[t] = "ReleaseR"
  /\ \/ ReaderLockBlocked(t)
     \/ /\ S!Avail(sy, "ReaderLock")
        /\ readerCnt' = readerCnt - 1
        /\ sy' = S!Release(IF readerCnt - 1 = 0 THEN S!V(held, "WriterLock") ELSE held,
                           t, "ReaderLock")
        /\ NextIter(t)

\* AcquireWriterLock: WriterLock->P().
AcquireWriterLock(t) ==
  /\ pc[t] = "AcquireW"
  /\ sy' = S!P(sy, t, "WriterLock")
  /\ Goto(t, IF S!Avail(sy, "WriterLock") THEN "Write" ELSE "AcquireW")
  /\ UNCHANGED <<left, readerCnt>>

\* Inside the lock: currentThread->Yield(), then Buff += num + i.
WriteBuff(t) ==
  /\ pc[t] = "Write"
  /\ Goto(t, "ReleaseW")
  /\ UNCHANGED <<sy, left, readerCnt>>

\* ReleaseWriterLock: WriterLock->V().
ReleaseWriterLock(t) ==
  /\ pc[t] = "ReleaseW"
  /\ sy' = S!V(sy, "WriterLock")
  /\ NextIter(t)
  /\ UNCHANGED readerCnt

Reader(t) ==
  AcquireReaderLock(t) \/ FirstReader(t) \/ ReadBuff(t) \/ ReleaseReaderLock(t)
Writer(t) == AcquireWriterLock(t) \/ WriteBuff(t) \/ ReleaseWriterLock(t)

Step(t) ==
  /\ pc[t] # "done"
  /\ ~S!Asleep(sy, t)
  /\ IF t \in Readers THEN Reader(t) ELSE Writer(t)

Finished == \A t \in RWThreads : pc[t] = "done"
Halt == Finished /\ UNCHANGED vars

Next == (\E t \in RWThreads : Step(t)) \/ Halt

-----------------------------------------------------------------------------
(* Properties                                                              *)

TypeOK ==
  /\ sy \in S!SynchState
  /\ left \in [RWThreads -> 0 .. Iters]
  /\ readerCnt \in 0 .. Cardinality(Readers)

Reading(t) == t \in Readers /\ pc[t] \in {"Read", "ReleaseR"}
Writing(t) == t \in Writers /\ pc[t] \in {"Write", "ReleaseW"}

\* A writer inside the lock excludes every other writer and every reader
\* that is inside: ReaderCnt, counted under ReaderLock, hands WriterLock
\* from the first reader in to the last reader out.
RWExclusion ==
  \A w \in Writers : Writing(w) =>
     /\ \A r \in Readers : ~Reading(r)
     /\ \A v \in Writers \ {w} : ~Writing(v)

=============================================================================
