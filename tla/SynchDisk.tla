----------------------------- MODULE SynchDisk -----------------------------
(***************************************************************************)
(* filesys/synchdisk.cc and the file-system calls that run on it, with   *)
(* several threads:                                                       *)
(*   - ReadSector/WriteSector: lock->Acquire, the disk request,           *)
(*     semaphore->P until the disk interrupt's RequestDone V's it,       *)
(*     lock->Release;                                                      *)
(*   - PlusReader/MinusReader/PlusWriter/MinusWriter: the per-sector      *)
(*     readers/writer scheme (readerLock, readerCnt[], mutex[]);          *)
(*   - FileSystem::Open and FileSystem::Remove of filesys.cc, with        *)
(*     visitorCnt under numberLock.                                        *)
(* OpenFile is not in this tree: opening counts a visitor, closing        *)
(* uncounts it, and a read or write of a file's sector is a readers or    *)
(* writer session around ReadSector or WriteSector (spec section 4.5).   *)
(*                                                                         *)
(* Each thread runs a program, a sequence of those calls.  A thread's    *)
(* phase ph is where it is inside the current call: one step runs from   *)
(* one interrupt-enable point to the next or up to the point where the   *)
(* thread sleeps.  io holds the sector I/O in progress and the phase it  *)
(* returns to.  The disk is one file: its directory entry (dirEntry), the *)
(* bitmap's bits for its sectors (usedMap) and its visitor count.        *)
(***************************************************************************)
EXTENDS Integers, Sequences, FiniteSets, TLC

CONSTANTS
  Threads, Prog,        \* each thread's program: a sequence of Ops
  DirSec, MapSec,       \* the directory and bitmap files' sector
  HdrSec, DataSec,      \* the file's header and data sector
  NoThread

Ops == {"Open", "Close", "Remove", "RemoveRetry", "Read", "Write"}
Sectors == {DirSec, MapSec, HdrSec, DataSec}
FileSecs == {HdrSec, DataSec}
NoIO == [sec |-> DirSec, write |-> FALSE, ret |-> "none"]

ASSUME Prog \in [Threads -> Seq(Ops)]

VARIABLES sy, ip, ph, io, pending, readerCnt, visitorCnt,
          dirEntry, usedMap, dirCopy, mapCopy, handle
vars == <<sy, ip, ph, io, pending, readerCnt, visitorCnt,
          dirEntry, usedMap, dirCopy, mapCopy, handle>>

S == INSTANCE NachosSynch WITH
       Sems <- {"lock", "semaphore", "readerLock", "numberLock"} \cup Sectors,
       Locks <- {"lock", "readerLock", "numberLock"}, Conds <- {},
       SemInit <- [s \in {"lock", "semaphore", "readerLock", "numberLock"} \cup Sectors |->
                     IF s = "semaphore" THEN 0 ELSE 1]

\* The first phase of the call at program position i.
Entry(t, i) == IF i > Len(Prog[t]) THEN "done"
               ELSE CASE Prog[t][i] = "Read" -> "PlusReader"
                      [] Prog[t][i] = "Write" -> "PlusWriter"
                      [] Prog[t][i] = "RemoveRetry" -> "Remove"
                      [] OTHER -> Prog[t][i]

\* The SynchDisk constructor: semaphore 0, mutex[] 1, counts 0.  The file
\* exists and is closed.
Init ==
  /\ sy = S!SynchInit
  /\ ip = [t \in Threads |-> 1]
  /\ ph = [t \in Threads |-> Entry(t, 1)]
  /\ io = [t \in Threads |-> NoIO]
  /\ pending = {}
  /\ readerCnt = 0
  /\ visitorCnt = 0
  /\ dirEntry = TRUE
  /\ usedMap = FileSecs
  /\ dirCopy = [t \in Threads |-> FALSE]
  /\ mapCopy = [t \in Threads |-> {}]
  /\ handle = [t \in Threads |-> FALSE]

\* The disk's state, and the counts kept in SynchDisk.
disk == <<pending, dirEntry, usedMap, dirCopy, mapCopy>>
counts == <<readerCnt, visitorCnt, handle>>

Goto(t, l) == ph' = [ph EXCEPT ![t] = l] /\ UNCHANGED ip

\* The call returns: the thread goes on with the next call of its program.
Return(t) ==
  /\ ip' = [ip EXCEPT ![t] = @ + 1]
  /\ ph' = [ph EXCEPT ![t] = Entry(t, ip[t] + 1)]

\* Continue at phase l, or return from the call when l is "return".
Resume(t, l) == IF l = "return" THEN Return(t) ELSE Goto(t, l)

\* Call ReadSector (write = FALSE) or WriteSector on sector s; the thread
\* resumes at ret once it returns.
CallIO(t, s, write, ret) ==
  /\ io' = [io EXCEPT ![t] = [sec |-> s, write |-> write, ret |-> ret]]
  /\ Goto(t, "IOLock")

\* A P or Lock::Acquire as a whole step: on to l, or asleep and retry.
PStep(t, s, l) ==
  /\ sy' = S!P(sy, t, s)
  /\ Goto(t, IF S!Avail(sy, s) THEN l ELSE ph[t])
AcquireStep(t, lk, l) ==
  /\ sy' = S!Acquire(sy, t, lk)
  /\ Goto(t, IF S!Avail(sy, lk) THEN l ELSE ph[t])

-----------------------------------------------------------------------------
(* SynchDisk::ReadSector and SynchDisk::WriteSector                        *)

\* Mutant: ReadSector/WriteSector without lock->Acquire().
IOLockSkipped(t) ==
  /\ ph[t] = "IOLock"
  /\ Goto(t, "IORequest")
  /\ UNCHANGED <<sy, io, disk, counts>>

\* lock->Acquire(): only one disk I/O at a time.
IOLock(t) ==
  /\ ph[t] = "IOLock"
  /\ AcquireStep(t, "lock", "IORequest")
  /\ UNCHANGED <<io, disk, counts>>

\* disk->ReadRequest/WriteRequest, then semaphore->P() until the
\* interrupt.  The simulated disk moves the data when the request is made:
\* a read of the directory or bitmap sector fills the caller's copy, a
\* write of one stores it.
IORequest(t) ==
  LET s == io[t].sec IN
  /\ ph[t] = "IORequest"
  /\ pending' = pending \cup {t}
  /\ dirCopy' = IF s = DirSec /\ ~io[t].write THEN [dirCopy EXCEPT ![t] = dirEntry] ELSE dirCopy
  /\ mapCopy' = IF s = MapSec /\ ~io[t].write THEN [mapCopy EXCEPT ![t] = usedMap] ELSE mapCopy
  /\ dirEntry' = IF s = DirSec /\ io[t].write THEN dirCopy[t] ELSE dirEntry
  /\ usedMap' = IF s = MapSec /\ io[t].write THEN mapCopy[t] ELSE usedMap
  /\ sy' = S!P(sy, t, "semaphore")
  /\ Goto(t, IF S!Avail(sy, "semaphore") THEN "IOUnlock" ELSE "IOWait")
  /\ UNCHANGED <<io, counts>>

\* Woken by RequestDone: the P of the loop again.
IOWait(t) ==
  /\ ph[t] = "IOWait"
  /\ PStep(t, "semaphore", "IOUnlock")
  /\ UNCHANGED <<io, disk, counts>>

\* lock->Release(); the call returns to its caller.
IOUnlock(t) ==
  /\ ph[t] = "IOUnlock"
  /\ sy' = S!Release(sy, t, "lock")
  /\ Resume(t, io[t].ret)
  /\ io' = [io EXCEPT ![t] = NoIO]
  /\ UNCHANGED <<disk, counts>>

\* The disk interrupt: DiskRequestDone calls RequestDone, semaphore->V().
RequestDone ==
  /\ pending # {}
  /\ \E t \in pending : pending' = pending \ {t}
  /\ sy' = S!V(sy, "semaphore")
  /\ UNCHANGED <<ip, ph, io, dirEntry, usedMap, dirCopy, mapCopy, counts>>

-----------------------------------------------------------------------------
(* SynchDisk::PlusReader, MinusReader, PlusWriter, MinusWriter on the      *)
(* file's data sector, around a ReadSector or a WriteSector               *)

\* The readers session's steps, and the writer's, that leave the disk,
\* io and the visitor count alone.
Session(t) == UNCHANGED <<io, disk, visitorCnt, handle>>

\* PlusReader: readerLock->Acquire().
PlusReader(t) ==
  /\ ph[t] = "PlusReader"
  /\ AcquireStep(t, "readerLock", "PlusReaderCnt")
  /\ UNCHANGED readerCnt /\ Session(t)

\* readerCnt[sector]++; the first reader P's mutex[sector] (and returns
\* to release readerLock after it), any other releases readerLock and
\* goes on to ReadSector.
PlusReaderCnt(t) ==
  /\ ph[t] = "PlusReaderCnt"
  /\ readerCnt' = readerCnt + 1
  /\ IF readerCnt + 1 = 1
     THEN /\ sy' = S!P(sy, t, DataSec)
          /\ Goto(t, IF S!Avail(sy, DataSec) THEN "PlusReaderRelease" ELSE "PlusReaderP")
          /\ Session(t)
     ELSE /\ sy' = S!Release(sy, t, "readerLock")
          /\ CallIO(t, DataSec, FALSE, "MinusReader")
          /\ UNCHANGED <<disk, visitorCnt, handle>>

\* The first reader, woken on mutex[sector], retries its P.
PlusReaderP(t) ==
  /\ ph[t] = "PlusReaderP"
  /\ PStep(t, DataSec, "PlusReaderRelease")
  /\ UNCHANGED readerCnt /\ Session(t)

\* readerLock->Release(), then ReadSector.
PlusReaderRelease(t) ==
  /\ ph[t] = "PlusReaderRelease"
  /\ sy' = S!Release(sy, t, "readerLock")
  /\ CallIO(t, DataSec, FALSE, "MinusReader")
  /\ UNCHANGED <<disk, counts>>

\* MinusReader: readerLock->Acquire().
MinusReader(t) ==
  /\ ph[t] = "MinusReader"
  /\ AcquireStep(t, "readerLock", "MinusReaderCnt")
  /\ UNCHANGED readerCnt /\ Session(t)

\* Mutant: MinusReader V's the mutex while one reader is still in.
MinusReaderCntEarly(t) ==
  /\ ph[t] = "MinusReaderCnt"
  /\ readerCnt' = readerCnt - 1
  /\ IF readerCnt - 1 <= 1
     THEN sy' = S!V(sy, DataSec) /\ Goto(t, "MinusReaderRelease")
     ELSE sy' = S!Release(sy, t, "readerLock") /\ Return(t)
  /\ Session(t)

\* readerCnt[sector]--; the last reader V's mutex[sector]; then
\* readerLock->Release() (a step of its own after the V).
MinusReaderCnt(t) ==
  /\ ph[t] = "MinusReaderCnt"
  /\ readerCnt' = readerCnt - 1
  /\ IF readerCnt - 1 = 0
     THEN sy' = S!V(sy, DataSec) /\ Goto(t, "MinusReaderRelease")
     ELSE sy' = S!Release(sy, t, "readerLock") /\ Return(t)
  /\ Session(t)

MinusReaderRelease(t) ==
  /\ ph[t] = "MinusReaderRelease"
  /\ sy' = S!Release(sy, t, "readerLock")
  /\ Return(t)
  /\ UNCHANGED readerCnt /\ Session(t)

\* PlusWriter: mutex[sector]->P(), then WriteSector.
PlusWriter(t) ==
  /\ ph[t] = "PlusWriter"
  /\ sy' = S!P(sy, t, DataSec)
  /\ IF S!Avail(sy, DataSec)
     THEN CallIO(t, DataSec, TRUE, "MinusWriter")
     ELSE UNCHANGED <<ph, ip, io>>
  /\ UNCHANGED <<disk, counts>>

\* Mutant: MinusWriter that forgets mutex[sector]->V().
MinusWriterNoV(t) ==
  /\ ph[t] = "MinusWriter"
  /\ Return(t)
  /\ UNCHANGED <<sy, readerCnt>> /\ Session(t)

\* MinusWriter: mutex[sector]->V().
MinusWriter(t) ==
  /\ ph[t] = "MinusWriter"
  /\ sy' = S!V(sy, DataSec)
  /\ Return(t)
  /\ UNCHANGED readerCnt /\ Session(t)

-----------------------------------------------------------------------------
(* FileSystem::Open and FileSystem::Remove, and closing the open file      *)

\* The steps of Open, Close and Remove that leave the readers count and
\* the disk alone.
FileCall(t) == UNCHANGED <<readerCnt, disk>>

\* Open: directory->FetchFrom(directoryFile).
Open(t) ==
  /\ ph[t] = "Open"
  /\ CallIO(t, DirSec, FALSE, "OpenFind")
  /\ UNCHANGED sy /\ UNCHANGED counts /\ UNCHANGED disk

\* directory->Find(name): not found returns NULL; found makes the
\* OpenFile, which counts its visitor under numberLock.
OpenFind(t) ==
  /\ ph[t] = "OpenFind"
  /\ IF dirCopy[t]
     THEN AcquireStep(t, "numberLock", "OpenCount")
     ELSE Return(t) /\ UNCHANGED sy
  /\ UNCHANGED <<io, counts>> /\ FileCall(t)

\* visitorCnt[sector]++, numberLock->Release(), and the OpenFile fetches
\* the header: hdr->FetchFrom(sector).
OpenCount(t) ==
  /\ ph[t] = "OpenCount"
  /\ visitorCnt' = visitorCnt + 1
  /\ handle' = [handle EXCEPT ![t] = TRUE]
  /\ sy' = S!Release(sy, t, "numberLock")
  /\ CallIO(t, HdrSec, FALSE, "return")
  /\ FileCall(t)

\* Deleting the OpenFile: visitorCnt[sector]-- under numberLock.  A
\* program whose Open failed has nothing to close.
Close(t) ==
  /\ ph[t] = "Close"
  /\ IF handle[t]
     THEN AcquireStep(t, "numberLock", "CloseCount")
     ELSE Return(t) /\ UNCHANGED sy
  /\ UNCHANGED <<io, counts>> /\ FileCall(t)

CloseCount(t) ==
  /\ ph[t] = "CloseCount"
  /\ visitorCnt' = visitorCnt - 1
  /\ handle' = [handle EXCEPT ![t] = FALSE]
  /\ sy' = S!Release(sy, t, "numberLock")
  /\ Return(t)
  /\ UNCHANGED io /\ FileCall(t)

\* Remove returned FALSE.  "RemoveRetry" is the caller of fstest.cc's
\* ConcurrencyTest: while (!fileSystem->Remove(FileName)) Yield(), so it
\* calls Remove again; any other caller goes on.
RemoveFailedNoRetry(t) == Return(t)

RemoveFailed(t) ==
  IF Prog[t][ip[t]] = "RemoveRetry" THEN Goto(t, "Remove") ELSE Return(t)

\* Remove: directory->FetchFrom(directoryFile).
Remove(t) ==
  /\ ph[t] = "Remove"
  /\ CallIO(t, DirSec, FALSE, "RemoveFind")
  /\ UNCHANGED sy /\ UNCHANGED counts /\ UNCHANGED disk

\* directory->Find(name): -1 returns FALSE; else fileHdr->FetchFrom.
RemoveFind(t) ==
  /\ ph[t] = "RemoveFind"
  /\ IF dirCopy[t]
     THEN CallIO(t, HdrSec, FALSE, "RemoveCheck")
     ELSE RemoveFailed(t) /\ UNCHANGED io
  /\ UNCHANGED sy /\ UNCHANGED counts /\ UNCHANGED disk

\* synchDisk->numberLock->Acquire().
RemoveCheck(t) ==
  /\ ph[t] = "RemoveCheck"
  /\ AcquireStep(t, "numberLock", "RemoveCheckCnt")
  /\ UNCHANGED <<io, counts>> /\ FileCall(t)

\* if (visitorCnt[sector] != 0) release and return FALSE; else release
\* numberLock and freeMap->FetchFrom(freeMapFile).
RemoveCheckCnt(t) ==
  /\ ph[t] = "RemoveCheckCnt"
  /\ sy' = S!Release(sy, t, "numberLock")
  /\ IF visitorCnt # 0
     THEN RemoveFailed(t) /\ UNCHANGED io
     ELSE CallIO(t, MapSec, FALSE, "RemoveFree")
  /\ UNCHANGED counts /\ FileCall(t)

\* fileHdr->Deallocate(freeMap); freeMap->Clear(sector);
\* directory->Remove(name); freeMap->WriteBack(freeMapFile).
RemoveFree(t) ==
  /\ ph[t] = "RemoveFree"
  /\ mapCopy' = [mapCopy EXCEPT ![t] = @ \ FileSecs]
  /\ dirCopy' = [dirCopy EXCEPT ![t] = FALSE]
  /\ CallIO(t, MapSec, TRUE, "RemoveDir")
  /\ UNCHANGED <<sy, pending, dirEntry, usedMap, readerCnt>> /\ UNCHANGED counts

\* directory->WriteBack(directoryFile); Remove returns TRUE.
RemoveDir(t) ==
  /\ ph[t] = "RemoveDir"
  /\ CallIO(t, DirSec, TRUE, "return")
  /\ UNCHANGED sy /\ UNCHANGED counts /\ UNCHANGED disk

-----------------------------------------------------------------------------

Step(t) ==
  /\ ph[t] # "done"
  /\ ~S!Asleep(sy, t)
  /\ \/ IOLock(t) \/ IORequest(t) \/ IOWait(t) \/ IOUnlock(t)
     \/ PlusReader(t) \/ PlusReaderCnt(t) \/ PlusReaderP(t) \/ PlusReaderRelease(t)
     \/ MinusReader(t) \/ MinusReaderCnt(t) \/ MinusReaderRelease(t)
     \/ PlusWriter(t) \/ MinusWriter(t)
     \/ Open(t) \/ OpenFind(t) \/ OpenCount(t) \/ Close(t) \/ CloseCount(t)
     \/ Remove(t) \/ RemoveFind(t) \/ RemoveCheck(t) \/ RemoveCheckCnt(t)
     \/ RemoveFree(t) \/ RemoveDir(t)

\* Every program has ended and the disk is idle.
Finished == (\A t \in Threads : ph[t] = "done") /\ pending = {}
Halt == Finished /\ UNCHANGED vars

Next == (\E t \in Threads : Step(t)) \/ RequestDone \/ Halt

\* A step of t that gets it further: not a P or Acquire that finds the
\* value 0 and puts t back to sleep.
Progress(t) == Step(t) /\ ph' # ph

\* The ready list is FIFO, so a thread that stays ready runs; the disk
\* completes every request it was given (the simulated clock advances
\* while the CPU idles, and the interrupt was scheduled at the request).
\* A thread woken by a Release can lose the lock again to the releaser
\* (Semaphore::P re-tests the value); a releaser that keeps coming back
\* is ConcurrencyTest's Remove loop, whose Yield() puts it behind the
\* woken thread on the ready list while the lock is free, so a thread
\* that is woken again and again does get further.
Fairness ==
  /\ \A t \in Threads : WF_vars(Step(t)) /\ SF_vars(Progress(t))
  /\ WF_vars(RequestDone)

Spec == Init /\ [][Next]_vars /\ Fairness

-----------------------------------------------------------------------------
(* Properties                                                              *)

TypeOK ==
  /\ sy \in S!SynchState
  /\ pending \subseteq Threads
  /\ readerCnt \in 0 .. Cardinality(Threads)
  /\ visitorCnt \in 0 .. Cardinality(Threads)
  /\ dirEntry \in BOOLEAN /\ usedMap \subseteq FileSecs
  /\ handle \in [Threads -> BOOLEAN]

\* The call a thread is in.
Op(t) == Prog[t][ip[t]]

\* t is inside a readers session of the data sector: it has counted
\* itself and the readers hold mutex[sector], until its MinusReader
\* gives the mutex back.
Reading(t) ==
  /\ ph[t] # "done" /\ Op(t) = "Read"
  /\ ph[t] \notin {"PlusReader", "PlusReaderCnt", "PlusReaderP", "MinusReaderRelease"}

\* t holds mutex[sector] as a writer, from PlusWriter to MinusWriter.
Writing(t) == ph[t] # "done" /\ Op(t) = "Write" /\ ph[t] # "PlusWriter"

\* A writer of a sector is alone in it: no reader and no other writer is
\* inside a session of the same sector (spec 4.5: "multiple concurrent
\* logical readers of one sector but exclusive access to a writer").
SectorRW ==
  \A w \in Threads : Writing(w) =>
     \A t \in Threads \ {w} : ~Reading(t) /\ ~Writing(t)

\* The disk serves one request at a time, and ReadSector or WriteSector
\* returns only after its own request completed: the lock and the
\* completion semaphore pair each request with its interrupt.
IOSerial ==
  /\ Cardinality(pending) <= 1
  /\ \A t \in Threads : ph[t] = "IOUnlock" => t \notin pending

\* Every program runs to its end: no thread sleeps forever on readerLock,
\* a sector's mutex, the disk lock or the completion semaphore.
AllFinish == <>Finished

\* A file that a thread has open is never deallocated: Remove refuses a
\* file whose visitorCnt is not 0 (spec 4.6 and 8: Remove fails while
\* visitorCnt[sector] > 0, bitmap and directory unchanged).
OpenFileNotFreed == \A t \in Threads : handle[t] => FileSecs \subseteq usedMap

\* ConcurrencyTest's main thread, retrying Remove while readers hold the
\* file open, eventually removes it for good: once every reader has
\* closed (visitorCnt back to 0) a retry gets past the check, and from
\* then on the file is out of the directory and its sectors are free.
RemoveCompletes == <>[](~dirEntry /\ usedMap = {})

=============================================================================
