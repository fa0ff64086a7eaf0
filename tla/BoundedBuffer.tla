--------------------------- MODULE BoundedBuffer ---------------------------
(***************************************************************************)
(* The producer/consumer tests of threads/threadtest.cc: Lab3Test4_1 runs *)
(* class Buffer (semaphores Empty and Full and a Lock), Lab3Test4_2 runs  *)
(* class BufferCnd (a Lock and the conditions Producer and Consumer).     *)
(* impl says which of the two the run builds.                             *)
(*                                                                         *)
(* One step of a thread runs from one interrupt-enable point to the next *)
(* (every synch.cc call restores the caller's level on return, and the   *)
(* loops of ProducerThread and ConsumerThread re-enable interrupts), or  *)
(* up to the point where it sleeps.  Items are identified by their        *)
(* producer and iteration, <<p, k>>; the value the code prints is data.  *)
(***************************************************************************)
EXTENDS Integers, Sequences, FiniteSets, TLC

CONSTANTS
  Producers, Consumers,  \* the threads Lab3Test4_x forks
  Iters,                 \* each thread's loop count (the Fork argument)
  BufLen,                \* BUF_LEN
  Impls,                 \* the implementations a run may build
  Junk,                  \* an Element slot never written
  NoThread

ASSUME /\ Producers \cap Consumers = {}
       /\ Iters \in [Producers \cup Consumers -> Nat \ {0}]
       /\ BufLen \in Nat \ {0}
       /\ Impls \subseteq {"Buffer", "BufferCnd"}

VARIABLES impl, sy, pc, left, count, list, item, took, consumed
vars == <<impl, sy, pc, left, count, list, item, took, consumed>>

BufThreads == Producers \cup Consumers
Items == UNION {{<<p, k>> : k \in 1 .. Iters[p]} : p \in Producers}
NoItem == -1
Slots == 0 .. BufLen - 1

S == INSTANCE NachosSynch WITH Threads <- BufThreads,
       Sems <- {"Empty", "Full", "Mutex"}, Locks <- {"Mutex"},
       Conds <- {"Producer", "Consumer"},
       SemInit <- ("Empty" :> BufLen @@ "Full" :> 0 @@ "Mutex" :> 1)

\* The first step of an iteration of each thread's loop.
Start(t) ==
  IF t \in Producers
  THEN IF impl = "Buffer" THEN "P_Empty" ELSE "Acquire"
  ELSE IF impl = "Buffer" THEN "P_Full" ELSE "Acquire"

\* Element item = ProduceItem(i+TID): the item of the current iteration.
Product(p) == <<p, Iters[p] - left[p] + 1>>

Init ==
  /\ impl \in Impls
  /\ sy = S!SynchInit
  /\ pc = [t \in BufThreads |-> Start(t)]
  /\ left = Iters
  /\ count = 0
  /\ list = [i \in Slots |-> Junk]
  /\ item = [c \in Consumers |-> NoItem]
  /\ took = [c \in Consumers |-> Junk]
  /\ consumed = <<>>

Runnable(t) == pc[t] # "done" /\ ~S!Asleep(sy, t)

Goto(t, l) == pc' = [pc EXCEPT ![t] = l]

\* The end of a loop iteration: i++, and the thread finishes after iters.
NextIter(t) ==
  /\ left' = [left EXCEPT ![t] = @ - 1]
  /\ Goto(t, IF left[t] = 1 THEN "done" ELSE Start(t))

\* A P, or a Lock::Acquire, as a whole step: on success the thread goes
\* on to l; otherwise it sleeps and retries the same step once woken.
PStep(t, s, l) ==
  /\ sy' = S!P(sy, t, s)
  /\ Goto(t, IF S!Avail(sy, s) THEN l ELSE pc[t])
AcquireStep(t, l) ==
  /\ sy' = S!Acquire(sy, t, "Mutex")
  /\ Goto(t, IF S!Avail(sy, "Mutex") THEN l ELSE pc[t])

-----------------------------------------------------------------------------
(* class Buffer                                                            *)

\* WriteBuffer: list[count++] = *product; Mutex->Release().
WriteBuffer(p) ==
  /\ list' = [list EXCEPT ![count] = Product(p)]
  /\ count' = count + 1
  /\ sy' = S!Release(sy, p, "Mutex")
  /\ Goto(p, "V_Full")

\* Mutant: ReadBuffer takes the element at the bottom, list[0], as a
\* queue would.
ReadBufferBottom(c) ==
  /\ item' = [item EXCEPT ![c] = 0]
  /\ took' = [took EXCEPT ![c] = list[0]]
  /\ count' = count - 1
  /\ sy' = S!Release(sy, c, "Mutex")
  /\ Goto(c, "V_Empty")

\* ReadBuffer: item = &list[count-1]; count--; Mutex->Release().  took is
\* a ghost: the element the pointer designates at this moment.
ReadBuffer(c) ==
  /\ item' = [item EXCEPT ![c] = count - 1]
  /\ took' = [took EXCEPT ![c] = list[count - 1]]
  /\ count' = count - 1
  /\ sy' = S!Release(sy, c, "Mutex")
  /\ Goto(c, "V_Empty")

\* ConsumeItem(item) prints item->value, read through the pointer now;
\* consumed is the printed log.
ConsumeItem(c) ==
  /\ consumed' = Append(consumed, list[item[c]])
  /\ item' = [item EXCEPT ![c] = NoItem]
  /\ took' = [took EXCEPT ![c] = Junk]
  /\ NextIter(c)
  /\ UNCHANGED <<sy, count, list>>

\* Everything but the synch state and pc: a step that only calls into
\* synch.cc leaves it alone.
data == <<left, count, list, item, took, consumed>>

\* ProducerThread over class Buffer: Empty->P, Mutex->Acquire, the
\* critical region and Release, Full->V, then the next iteration.
Producer(p) ==
  /\ impl = "Buffer"
  /\ \/ pc[p] = "P_Empty" /\ PStep(p, "Empty", "Acquire") /\ UNCHANGED data
     \/ pc[p] = "Acquire" /\ AcquireStep(p, "Write") /\ UNCHANGED data
     \/ pc[p] = "Write" /\ WriteBuffer(p) /\ UNCHANGED <<left, item, took, consumed>>
     \/ /\ pc[p] = "V_Full"
        /\ sy' = S!V(sy, "Full")
        /\ NextIter(p)
        /\ UNCHANGED <<count, list, item, took, consumed>>

\* ConsumerThread over class Buffer: Full->P, Mutex->Acquire, the
\* critical region and Release, Empty->V, then ConsumeItem.
Consumer(c) ==
  /\ impl = "Buffer"
  /\ \/ pc[c] = "P_Full" /\ PStep(c, "Full", "Acquire") /\ UNCHANGED data
     \/ pc[c] = "Acquire" /\ AcquireStep(c, "Read") /\ UNCHANGED data
     \/ pc[c] = "Read" /\ ReadBuffer(c) /\ UNCHANGED <<left, list, consumed>>
     \/ pc[c] = "V_Empty" /\ sy' = S!V(sy, "Empty") /\ Goto(c, "Consume") /\ UNCHANGED data
     \/ pc[c] = "Consume" /\ ConsumeItem(c)

-----------------------------------------------------------------------------
(* class BufferCnd                                                         *)

\* WriteBuffer, after Mutex->Acquire: while(count==BUF_LEN) Producer->Wait;
\* else the critical region and Consumer->Signal.  Wait releases the
\* mutex and sleeps; its re-acquire is the step at "Reacquire", and the
\* while loop then re-tests count.
WriteBufferCnd(p) ==
  \/ /\ count = BufLen
     /\ sy' = S!Wait(sy, p, "Producer", "Mutex")
     /\ Goto(p, "Reacquire")
     /\ UNCHANGED <<count, list>>
  \/ /\ count # BufLen
     /\ list' = [list EXCEPT ![count] = Product(p)]
     /\ count' = count + 1
     /\ sy' = S!Signal(sy, "Consumer")
     /\ Goto(p, "Release")

\* Mutant: ReadBuffer of BufferCnd without Producer->Signal.
ReadBufferCndNoSignal(c) ==
  \/ /\ count = 0
     /\ sy' = S!Wait(sy, c, "Consumer", "Mutex")
     /\ Goto(c, "Reacquire")
     /\ UNCHANGED <<count, item, took>>
  \/ /\ count # 0
     /\ item' = [item EXCEPT ![c] = count - 1]
     /\ took' = [took EXCEPT ![c] = list[count - 1]]
     /\ count' = count - 1
     /\ UNCHANGED sy
     /\ Goto(c, "Release")

\* ReadBuffer, after Mutex->Acquire: while(count==0) Consumer->Wait; else
\* item = &list[count-1], count-- and Producer->Signal.
ReadBufferCnd(c) ==
  \/ /\ count = 0
     /\ sy' = S!Wait(sy, c, "Consumer", "Mutex")
     /\ Goto(c, "Reacquire")
     /\ UNCHANGED <<count, item, took>>
  \/ /\ count # 0
     /\ item' = [item EXCEPT ![c] = count - 1]
     /\ took' = [took EXCEPT ![c] = list[count - 1]]
     /\ count' = count - 1
     /\ sy' = S!Signal(sy, "Producer")
     /\ Goto(c, "Release")

ProducerCnd(p) ==
  /\ impl = "BufferCnd"
  /\ \/ pc[p] \in {"Acquire", "Reacquire"} /\ AcquireStep(p, "Check") /\ UNCHANGED data
     \/ pc[p] = "Check" /\ WriteBufferCnd(p) /\ UNCHANGED <<left, item, took, consumed>>
     \/ /\ pc[p] = "Release"
        /\ sy' = S!Release(sy, p, "Mutex")
        /\ NextIter(p)
        /\ UNCHANGED <<count, list, item, took, consumed>>

ConsumerCnd(c) ==
  /\ impl = "BufferCnd"
  /\ \/ pc[c] \in {"Acquire", "Reacquire"} /\ AcquireStep(c, "Check") /\ UNCHANGED data
     \/ pc[c] = "Check" /\ ReadBufferCnd(c) /\ UNCHANGED <<left, list, consumed>>
     \/ pc[c] = "Release" /\ sy' = S!Release(sy, c, "Mutex") /\ Goto(c, "Consume") /\ UNCHANGED data
     \/ pc[c] = "Consume" /\ ConsumeItem(c)

-----------------------------------------------------------------------------

\* The scheduler runs any thread that is ready: under -rs the timer may
\* switch threads at every interrupt-enable point.
Step(t) ==
  /\ Runnable(t)
  /\ \/ t \in Producers /\ (Producer(t) \/ ProducerCnd(t))
     \/ t \in Consumers /\ (Consumer(t) \/ ConsumerCnd(t))
  /\ UNCHANGED impl

\* Every thread has returned from its function: Nachos idles and halts.
Finished == \A t \in BufThreads : pc[t] = "done"
Halt == Finished /\ UNCHANGED vars

Next == (\E t \in BufThreads : Step(t)) \/ Halt

-----------------------------------------------------------------------------
(* Properties                                                              *)

TypeOK ==
  /\ impl \in Impls
  /\ sy \in S!SynchState
  /\ count \in 0 .. BufLen
  /\ list \in [Slots -> Items \cup {Junk}]
  /\ item \in [Consumers -> Slots \cup {NoItem}]
  /\ took \in [Consumers -> Items \cup {Junk}]
  /\ left \in [BufThreads -> 0 .. 10]
  /\ consumed \in Seq(Items \cup {Junk})

\* The producer has stored its current item and not yet ended the
\* iteration.
Stored(p) ==
  \/ impl = "Buffer" /\ pc[p] = "V_Full"
  \/ impl = "BufferCnd" /\ pc[p] = "Release"

\* The buffer as a stack: the elements below count, with the pointer each
\* consumer holds read at the moment ReadBuffer took it.
Abs == INSTANCE AbstractBuffer WITH None <- Junk,
         stack <- [i \in 1 .. count |-> list[i - 1]],
         out <- took,
         next <- [p \in Producers |-> Iters[p] - left[p] + 1
                                        + (IF Stored(p) THEN 1 ELSE 0)]

\* WriteBuffer and ReadBuffer, with the semaphores or with the conditions,
\* implement a bounded stack: no element is lost, duplicated or
\* overwritten in the buffer, none is read beyond count, and count never
\* passes BUF_LEN, in any interleaving of the producers and consumers.
BufferIsStack == Abs!Spec

\* ConsumeItem prints each produced item at most once: the element the
\* pointer returned by ReadBuffer designates is still the one it took.
ConsumedOnce ==
  \A i, j \in 1 .. Len(consumed) : i # j => consumed[i] # consumed[j]

=============================================================================
