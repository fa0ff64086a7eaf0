----------------------------- MODULE NachosMain -----------------------------
(***************************************************************************)
(* One boot of Nachos runs one of its tests, chosen on the command line:  *)
(*   ThreadTest  the synchronisation tests of threads/threadtest.cc        *)
(*   SynchDisk   threads reading, writing, opening and removing a file     *)
(*               over filesys/synchdisk.cc                                 *)
(*   Dirs        file-system calls on the multi-level directories, one     *)
(*               after another on a disk that keeps its contents           *)
(*   PipeTest    fstest.cc's PipeTest: words written to and read from the  *)
(*               pipe file                                                 *)
(*   StartProcess a user program run with demand paging and a TLB          *)
(* boot is the test; the state of the others stays at its initial         *)
(* value.  ThreadTest, SynchDisk, DirTree, Pipe and Paging model the      *)
(* tests; this module picks one.                                           *)
(***************************************************************************)
EXTENDS Integers

CONSTANTS
  Boots,
  Tests, Producers, Consumers, BufIters, BufLen, Junk,
  BarThreads, Rounds, Readers, Writers, RWIters, NoThread,
  Threads, Prog, DirSec, MapSec, HdrSec, DataSec,
  Names, Sep, NumSectors, NumDirEntries, MapDataSectors, DirDataSectors,
  MaxDirDep, DirPaths, FilePaths,
  Chars, NUL, MaxLen, PipeRounds,
  NumPages, NumPhysPages, TLBSize, Policies, WriteVals, MaxAccesses, MaxSwitches

ASSUME Boots \subseteq {"ThreadTest", "SynchDisk", "Dirs", "PipeTest", "StartProcess"}

VARIABLES boot,
  test, bufImpl, bufSy, bufPc, bufLeft, count, list, item, took, consumed,
  barSy, barPc, numLeft, round, rwSy, rwPc, rwLeft, readerCnt,
  sy, ip, ph, io, pending, sdReaderCnt, visitorCnt,
  dirEntry, usedMap, dirCopy, mapCopy, handle,
  used, ext, data, entries,
  pipe, said, heard, pround, pstep,
  policy, pageTable, tlb, Index, freeFrames, mainMemory, vmFile, written,
  instr, accesses, switches

ttVars == <<test, bufImpl, bufSy, bufPc, bufLeft, count, list, item, took, consumed,
            barSy, barPc, numLeft, round, rwSy, rwPc, rwLeft, readerCnt>>
sdVars == <<sy, ip, ph, io, pending, sdReaderCnt, visitorCnt,
            dirEntry, usedMap, dirCopy, mapCopy, handle>>
dtVars == <<used, ext, data, entries>>
ppVars == <<pipe, said, heard, pround, pstep>>
pgVars == <<policy, pageTable, tlb, Index, freeFrames, mainMemory, vmFile, written,
            instr, accesses, switches>>
vars == <<boot, ttVars, sdVars, dtVars, ppVars, pgVars>>

TT == INSTANCE ThreadTest
SD == INSTANCE SynchDisk WITH readerCnt <- sdReaderCnt
DT == INSTANCE DirTree
PP == INSTANCE Pipe
PG == INSTANCE Paging

\* A boot not running ThreadTest leaves its test, and one not running a
\* user program its TLB policy, at one fixed value.
Init ==
  /\ boot \in Boots
  /\ TT!Init /\ (boot # "ThreadTest" => test = CHOOSE x \in Tests : TRUE)
  /\ SD!Init
  /\ DT!Init
  /\ PP!Init
  /\ PG!Init /\ (boot # "StartProcess" => policy = CHOOSE x \in Policies : TRUE)

\* A step of the test this boot runs.
InThreadTest(A) == boot = "ThreadTest" /\ A /\ UNCHANGED <<boot, sdVars, dtVars, ppVars, pgVars>>
InSynchDisk(A) == boot = "SynchDisk" /\ A /\ UNCHANGED <<boot, ttVars, dtVars, ppVars, pgVars>>
InDirs(A) == boot = "Dirs" /\ A /\ UNCHANGED <<boot, ttVars, sdVars, ppVars, pgVars>>
InPipeTest(A) == boot = "PipeTest" /\ A /\ UNCHANGED <<boot, ttVars, sdVars, dtVars, pgVars>>
InStartProcess(A) == boot = "StartProcess" /\ A /\ UNCHANGED <<boot, ttVars, sdVars, dtVars, ppVars>>

\* The threads of ThreadTest, SynchDisk, PipeTest and the user program
\* run to their end; the
\* calls on the directories can always go on.
Finished ==
  \/ boot = "ThreadTest" /\ TT!Finished
  \/ boot = "SynchDisk" /\ SD!Finished
  \/ boot = "PipeTest" /\ PP!PipeFinished
  \/ boot = "StartProcess" /\ PG!Done

Halt == Finished /\ UNCHANGED vars

Next ==
  \/ \E t \in TT!Buf!BufThreads : InThreadTest(TT!BufStep(t))
  \/ \E t \in BarThreads : InThreadTest(TT!BarStep(t))
  \/ \E t \in TT!RW!RWThreads : InThreadTest(TT!RWStep(t))
  \/ \E t \in Threads : InSynchDisk(SD!Step(t))
  \/ InSynchDisk(SD!RequestDone)
  \/ InDirs(DT!Next)
  \/ \E w \in PP!Words : InPipeTest(PP!WritePipe(w))
  \/ InPipeTest(PP!ReadPipe)
  \/ \E a \in PG!Accesses : InStartProcess(PG!Issue(a))
  \/ InStartProcess(PG!Execute)
  \/ InStartProcess(PG!Miss)
  \/ InStartProcess(PG!ContextSwitch)
  \/ Halt

\* The fairness of ThreadTest and SynchDisk (FIFO ready list, a disk that
\* answers every request, a woken thread that gets the lock it keeps
\* losing to Remove's retry loop: see SynchDisk!Fairness), of PipeTest's one thread and of the user
\* thread (the only one running user code); a caller of the directory
\* calls may stop calling.
Fairness ==
  /\ \A t \in TT!Buf!BufThreads : WF_vars(InThreadTest(TT!BufStep(t)))
  /\ \A t \in BarThreads : WF_vars(InThreadTest(TT!BarStep(t)))
  /\ \A t \in TT!RW!RWThreads : WF_vars(InThreadTest(TT!RWStep(t)))
  /\ \A t \in Threads : WF_vars(InSynchDisk(SD!Step(t)))
  /\ \A t \in Threads : SF_vars(InSynchDisk(SD!Progress(t)))
  /\ WF_vars(InSynchDisk(SD!RequestDone))
  /\ WF_vars(InPipeTest(PP!PipeNext))
  /\ WF_vars(InStartProcess(PG!Run))
  /\ WF_vars(\E a \in PG!Accesses : InStartProcess(PG!Issue(a)))

Spec == Init /\ [][Next]_vars /\ Fairness

-----------------------------------------------------------------------------
(* Properties: those of the three tests.                                   *)

\* The buffers of Lab3Test4 implement a bounded stack (BoundedBuffer).
BufferIsStack == TT!BufferIsStack

\* ArriveAndWait lets no thread through round k before all arrived at k.
BarrierSync == TT!BarrierSync

\* ReadWriteLock admits a writer alone (RWLock).
RWExclusion == TT!RWExclusion

\* A writer of a disk sector is alone in it (SynchDisk!SectorRW).
SectorRW == SD!SectorRW

\* One disk request at a time, each paired with its interrupt (SynchDisk).
IOSerial == SD!IOSerial

\* The bitmap marks exactly the reserved sectors and the headers and data
\* a path reaches, after any sequence of Create, Remove and RemoveDir.
SectorBitmap == DT!SectorBitmap

\* Every reachable header has one directory entry and its own sectors.
SingleOwner == DT!SingleOwner

\* ReadPipe returns the last word written to the pipe (Pipe).
PipeReadsLast == PP!PipeReadsLast

\* Every frame is free or held by exactly one valid page (Paging).
FrameOwnership == PG!FrameOwnership

\* A page has at most one valid TLB entry (Paging).
OneEntryPerPage == PG!OneEntryPerPage

\* ConcurrencyTest's Remove, retried while readers hold the file open,
\* eventually takes effect for good: the file leaves the directory and
\* its sectors are freed (SynchDisk).
RemoveDone == boot = "SynchDisk" => SD!RemoveCompletes

\* The threads of ThreadTest, SynchDisk and PipeTest all return: none
\* sleeps forever on a semaphore, lock, condition, sector mutex or the
\* disk's semaphore; and the user program completes every access, each
\* TLB miss and page fault followed by a retry that gets further.
AllFinish == boot \in {"ThreadTest", "SynchDisk", "PipeTest", "StartProcess"} => <>Finished

=============================================================================
