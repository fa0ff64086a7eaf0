# TLA+ models of the Nachos lab file system and system calls

These modules model the file system of `src/Nachos Lab/codes/filesys` and the
file-related system calls of `src/Nachos Lab/codes/userprog/exception.cc`:

- the multi-level indexed file header;
- format, Create, Remove and growth of a file by a write;
- the multi-level directories: Create of files and directories, Remove,
  RemoveDir, the path walk `FindDirSector` and `PathParser`;
- the pipe file, written and read by `fstest.cc`'s `PipeTest`;
- the per-process open-file table and the system calls that use it;
- the synchronisation primitives of `threads/synch.cc`, and the thread tests
  of `threads/threadtest.cc` that use them;
- `SynchDisk`'s blocking I/O and per-sector readers/writer protocol, with
  `Open` and `Remove` running in several threads;
- demand paging of a user program in `userprog/exception.cc` and
  `addrspace.cc`: the TLB miss and page-fault handlers, `ReplacePage`, and the
  FIFO, CLOCK and round-robin TLB policies.

TLC checks these models against safety properties and against an abstract
file store (by refinement). `PROJECT.json` lists the components, runs, mutants,
source map, findings and hazards in machine-readable form.

## The system's parts and how they interact

| Part | Source | Role |
|---|---|---|
| File header | `filesys/filehdr.cc`, `filehdr.h` | See below. |
| Free map | `BitMap` (not in this tree) | One bit per sector. `Find` marks and returns the lowest clear bit, or -1. `NumClear` counts the clear bits. |
| File system | `filesys/filesys.cc` | See below. |
| Directories | `filesys/filesys.cc:206-316, 370-665`, `filehdr.cc:69-93` | A directory is a file with extension `Dir_Ext` whose data is a `Directory` table. `FindDirSector` walks a path's components from the root. |
| Open-file table | `filesys/filesys.cc:711-856` | See below. |
| System calls | `userprog/exception.cc` | Open, Close, Read, Write, Exec, Fork and Exit call the table ops under `tableLock`. |
| SynchDisk | `filesys/synchdisk.cc` | Blocking sector I/O, per-sector reader/writer semaphores and `visitorCnt`. |
| Synch primitives | `threads/synch.cc` | Semaphore, Lock, Condition, Barrier and ReadWriteLock. |
| VM / TLB | `userprog/exception.cc:29-190, 608-622`, `addrspace.cc`, `progtest.cc` | Each address space pages to its own `VirtualMemory` file. A TLB miss loads the page-table entry into the TLB, first faulting the page in when it is invalid. `Machine::Translate` and `allocateMem` are not in this tree. |

**File header.** It has `numBytes`, `numSectors` and `dataSectors[NumDataSectors]`:

- `NumDirect` direct slots;
- slot `OneLevelIdx`, which holds a one-level index block;
- slot `TwoLevelIdx`, which holds a double-indirect block whose entries name second-level blocks.

Its operations are `Allocate`, `Deallocate`, `ByteToSector` and `ExpandFileSize`.

**File system.** Format marks sectors 0, 1 and 2 (bitmap, directory and pipe
headers) and allocates their data. `Create`, `Remove` and the others fetch the
bitmap and directory, change the in-memory copies, and write them back only on
success.

**Open-file table.** `OpenedFiles[2..MAX_FILE_NUMBER-1]` has slots `{valid, file, TID, ForkFileID}`.
Its operations are `AddNewFile`, `RemoveFile`, `GetFile`, `CloseAll` and `CopyFile`.

A write past the end of a file calls `ExpandFileSize` on the fetched bitmap.
Fork copies the parent's table slots to the child, tagged with the child's TID
and `ForkFileID` = the parent's index. The child's later `GetFile(id)` falls
back to the slot whose `ForkFileID` is `id`.

## Modules

### `FileHeader`: the header operations as pure operators

The state is an explicit header record, the free map and the disk:

- the free map is the set of used sectors;
- the disk maps every sector to its contents read as an index table of
  `LevelNum` entries;
- uninitialised memory is the model value `Junk`.

Every operation returns `[ok, hdr, used, disk]`. The caller commits or
discards the result, as `filesys.cc` does.

| Operator | Code |
|---|---|
| `Allocate` (`AllocDirect`, `AllocSingle`, `AllocDouble`) | `filehdr.cc:104-197`. Each branch has its own space check and the code's order of `Find` calls. |
| `Deallocate`, `DeallocOrder` | `filehdr.cc:207-265`. The order of clears. The ASSERT on `Test` becomes `ok`. |
| `ByteToSector` | `filehdr.cc:304-336` |
| `ExpandFileSize` (`ExpandDirect`, `Expand0to1`, `Expand1to1`, `Expand0to2`, `Expand1to2`, `Expand2to2Same`, `Expand2to2New`) | `filehdr.cc:451-674`. One operator per branch of the if/else-if chain, each with the code's own check. |
| `NumClear`, `FindN`, `FindFirst` | The bitmap's specified behaviour (its source is not in this tree). |

`FindN(used, k)` is the result of `k` successive `Find` calls: the `k` lowest
clear sectors, then -1s.

`IndexedSectors(n)` is a reference definition, written from the addressing
scheme rather than the code. It gives the sectors that a file of `n` data
sectors occupies, index blocks included.

### `FileStore`: the file system run by one thread

It EXTENDS `FileHeader`.

**Variables.**

- `dir`: name to header sector, or -1.
- `hdr`: each file's header.
- `used`: the bitmap on disk.
- `disk`: the index tables.

**`Init`.** This is the state after `FileSystem(format = TRUE)`. It marks
sectors 0-2 and then runs the three ASSERTed `Allocate`s, for the bitmap file,
the directory file and the empty pipe file.

**Actions.**

- `Create(name, size)`: `filesys.cc:206-316`, in the root directory. The header
  sector comes from `Find`, then the directory check, then `Allocate`.
  Failures are guards.
- `Remove(name)`: `filesys.cc:370-461`. `Deallocate`, then clear the header
  sector, then drop the entry.
- `Write(name, bytes)`: `OpenFile::WriteAt` past the end, which runs
  `ExpandFileSize` and commits on success.

**Refinement.** `AbstractFileStore` is what the store promises. Each file has a
length and a sequence of distinct sectors, one per `SectorSize` bytes, and no
sector is shared. Growth keeps the old sectors as a prefix of the new ones.

`FileStore` implements it under the mapping `AbsFiles`, which reads every file
through `ByteToSector`. The runs check `AbsSpec == Abs!Spec` as a PROPERTY.

**`MC_FileStore`.** It supplies the two format sizes from the code's formulas:

- `FreeMapFileSize = NumSectors / BitsInByte`;
- `DirectoryFileSize` is two bytes per directory entry.

It also adds a ghost counter of removes (`RemoveBound`) and a bound on the
total bytes held (`TotalBound`) as state constraints.

**`MC_FileStoreTiers`.** It instantiates `MC_FileStore` twice, with different
constants and its own variables. `tier` picks one disk at boot:

- `"single"`: files stay within the direct and single-indirect tiers;
- `"double"`: files grow through every tier.

The disk that was not picked keeps its initial state.

### `OpenFileTable`: the open-file table and the system calls that use it

**Variables.**

- `slot`: the table.
- `st`: each thread's state: unborn, ready, forking or done.
- `child`: the child a forking parent made.
- `held`: the ids each user program holds, mapped to the file it opened.
- `opens`: a bound on Open calls.
- `fault`: the ASSERT that halted Nachos, if any.
- `using`: the slot whose `OpenFile` a thread inside `Read`/`Write` holds, or
  `Freed` once a `RemoveFile` or `CloseAll` has deleted that object.

**Table operations.** These are pure operators: `AddNewFile`, `RemoveFile`
(with `Lookup`), `GetFile`, `CloseAll` and `CopyFile`.

`GetFile` is translated as written. Its fallback loop *assigns* the caller's
TID to every valid slot it passes. That condition is false for TID 0.

**Actions.** Every table access in `exception.cc` holds `tableLock`, so each
system call's table step is atomic.

- `Open`: `OpenHandler`.
- `Close`: `CloseHandler`. It ASSERTs `RemoveFile`.
- `ReadWrite`: `ReadHandler` and `WriteHandler` up to the release of
  `tableLock`. It ASSERTs that `GetFile` is non-NULL and keeps the pointer.
- `Transfer`: the rest of the handler, `file->Read` or `file->Write`. It
  waits for the disk, so other threads run between the two steps.
- `Exec`: `ExecHandler`. The new thread starts with no open files.
- `ForkSpawn` and `ForkCopy`: `ForkHandler`. It calls `Thread::Fork` before it
  takes `tableLock` to run `CopyFile`, so these are two steps of the parent,
  and other threads can run between them.
- `Exit`: `ExitHandler`. It runs `CloseAll`.

**`MC_OpenFileTable`.** It fixes the thread ids to `{0, 1, 2}` with 0 the main
thread. `ExecSpec` is `Next` restricted by `ExecOnly`, so that no thread
enters `ForkHandler`.

**`MC_OpenFileTableModes`.** It instantiates `MC_OpenFileTable` twice, each
with its own variables. `mode` picks one workload at boot:

- `"exec"`: `Next /\ ExecOnly`, with four Open calls;
- `"fork"`: all of `Next`, with three.

### Threads and preemption

`synch.cc` turns interrupts off inside every primitive and restores the
caller's level on return. A Nachos thread therefore loses the CPU only at an
interrupt-enable point, where the timer of `nachos -rs` may preempt it, or at
a point where it sleeps. Each step of a thread in the modules below runs from
one such point to the next, or up to where the thread sleeps. Any ready
thread may take the next step. This is the `-rs` behaviour. Without `-rs`,
threads switch only when they block or yield, and the schedules are a subset
of these.

### `NachosSynch`: semaphores, locks and condition variables

This module is a library of operators over one record `sy`:

- `sem`: the semaphore values;
- `sq`: their wait queues;
- `owner`: each lock's owner;
- `cq`: each condition's wait queue.

The operators work as follows:

- `P` decrements the value if it is positive, and otherwise appends the thread
  to the queue. The thread then sleeps and retries later: the Mesa `while`
  loop of `Semaphore::P`.
- `V` moves the head of the queue to the ready list and increments the value.
- A `Lock` is a semaphore with initial value 1 plus an owner.
- `Wait` releases the lock and appends the thread to the condition's queue.
  Its re-`Acquire` is the caller's next step once it is woken.
- `Signal` wakes the head of the queue; `Broadcast` wakes all of it.

A thread is asleep while it is in any queue.

### `BoundedBuffer`, `AbstractBuffer`: ThreadTest cases 11 and 12

Producers and consumers share one buffer of `BufLen` slots. `impl` selects
which class of `threadtest.cc` they use.

**`Buffer`** uses semaphores `Empty`, `Full` and lock `Mutex`:

- `WriteBuffer` writes `list[count++]`.
- `ReadBuffer` returns the pointer `&list[count-1]`.
- `ConsumeItem` prints the element through that pointer later.

**`BufferCnd`** uses lock `Mutex` and conditions `Producer` and `Consumer`,
with `while` loops around `Wait`.

The variables are:

- `list` and `count`;
- each consumer's index `item`, which stands for the pointer;
- a ghost `took`, the element the pointer designated when `ReadBuffer` took it;
- the printed log `consumed`.

`AbstractBuffer` is what the buffer promises: a stack of at most `BufLen`
elements, where each producer pushes its items in order and each consumer pops
the top. `BufferIsStack` is `AbstractBuffer`'s `Spec` under this mapping:

- `stack` is `list[0..count-1]`;
- `out` is `took`;
- each producer's next item counts the item written but not yet `V`'d.

### `NachosBarrier`: `Barrier::ArriveAndWait`, case 13

Every thread, `main` included, calls `ArriveAndWait` `Rounds` times. A call
is one step, because it runs with interrupts off, unless the thread sleeps:

- on the mutex;
- on the condition, until the last arrival broadcasts and resets `num_left`.

A woken thread re-acquires the mutex, releases it and returns.

### `RWLock`: `ReadWriteLock`, cases 14 and 15

Readers and writers loop around the lock and `Yield` inside it.

- The first reader P's `WriterLock` while it holds `ReaderLock`.
- The last reader out V's `WriterLock`.
- Writers P and V `WriterLock` directly.

Case 15 forks the same threads in another order. With free interleaving, that
gives the same behaviours.

### `ThreadTest`: the `testnum` switch

`test` is the case the run picked. The three modules above are instanced with
their variables renamed, and only the picked test's threads take steps.
`MC_NachosMain` gives the test its sizes:

- 2 producers making 2 and 1 items;
- 2 consumers taking 1 and 2;
- `BUF_LEN` 2;
- 4 barrier threads with 3 rounds;
- 2 readers and 2 writers with 2 iterations each.

### `SynchDisk`, `MC_SynchDisk`: `synchdisk.cc` with `Open` and `Remove`

Each thread runs a program of calls (`Open`, `Read`, `Write`, `Close`,
`Remove`) on one file. `ph` is where the thread is inside its current call.
The phases are:

- `ReadSector` and `WriteSector`: `IOLock`, `IORequest` (the request, then
  `semaphore->P()`), `IOWait` and `IOUnlock`. `RequestDone` is the disk
  interrupt's V.
- `PlusReader`, `MinusReader`, `PlusWriter` and `MinusWriter` around the I/O
  of the data sector. `OpenFile` is not in this tree, so these sessions are
  modelled from spec section 4.5.
- `Open`: fetch the directory, `Find`, then count a visitor under
  `numberLock` and fetch the header.
- `Remove` (`filesys.cc:370-461`):
  1. fetch the directory and the header;
  2. check `visitorCnt` under `numberLock`;
  3. fetch the bitmap;
  4. free the file's sectors;
  5. write back the bitmap, then the directory.

  A failed `Remove` goes back to `Remove` when the program says
  `RemoveRetry`: `fstest.cc`'s `ConcurrencyTest` calls
  `while (!fileSystem->Remove(FileName)) Yield()` (`RemoveFailed`).

The disk is reduced to the file's directory entry (`dirEntry`) and its bits in
the bitmap (`usedMap`). Each thread's in-memory copies are `dirCopy` and
`mapCopy`. A read request fills the copy and a write request stores it.
`MC_NachosMain` and `MC_SynchDisk` give four threads these programs:

- Open, Read, Close;
- Read;
- Write;
- RemoveRetry, that is `Remove` until it succeeds, as in `ConcurrencyTest`.

### `DirTree`, `MC_DirTree`: the multi-level directories

The disk is reduced to what these calls read and write:

- `used`: the bitmap;
- `ext`: each header's extension (`Dir_Ext`, another one, or none);
- `data`: each header's data sectors;
- `entries`: the `Directory` table that a `FetchFrom` of each header's file
  reads. For a regular file of size 0 that is the empty table.

`Init` is the disk as `FileSystem(TRUE)` formats it. `PathParser` takes a
path, a sequence of names and separators, to its depth, `DirArray` and
`Base`. `Walk`/`FindDirSector` fetch the table of the current sector and find
the next component, without looking at its extension. `Lowest` is
`BitMap::Find`. The `Directory` class is not in this tree: `DirFind`,
`DirFull` and `DirIsEmpty` come from spec section 4.3.

**Actions.** Each call fetches, checks and writes back with no other thread
in file-system code, so it is one step. A call that returns `FALSE`, or hits
`ASSERT(DirSector != -1)` in `Create`, writes nothing back and is a stutter.

- `Create(p, isDir)`: a file of size 0 or a directory (size -1).
- `Remove(p)`: a root name only, refused for a non-empty directory.
- `RemoveDir(p)`: any path, refused for a non-empty directory.

`MC_DirTree` has the path sets of the violation run: a file `f`, then a file
at `f/f`.

### `Pipe`: `WritePipe`, `ReadPipe` and `PipeTest`

`pipe` is the pipe file's bytes. Format gives it no data. `WritePipe(w)`
writes `w` and its NUL at position 0, growing the file when they are longer
(`OpenFile::Write`, modelled from the spec). The file never shrinks.
`ReadPipe` reads the whole file, puts a NUL after it and returns the string
up to the first NUL (`Strz`). `said` is the last word written and `heard` the
last string read. `PipeTest` alternates the two calls three times. Words are
sequences of model-value characters, at most `MaxLen` long in place of
`MAXLEN`.

### `Paging`: demand paging with a TLB

The build is `USE_TLB`, `USE_DISK` and `USE_BITMAP`. `Paging` models one
address space with `NumPages` pages, `NumPhysPages` frames and `TLBSize`
TLB entries. The TLB policy is picked at boot from `Policies`: FIFO
(`USE_FIFO`), CLOCK (`USE_CLOCK`) or round robin.

**Variables.**

- `pageTable` and `tlb`: the `valid`, `physicalPage`, `use` and `dirty` bits.
  A TLB entry also has its `virtualPage`.
- `Index`: the global hand of CLOCK and of round robin.
- `freeFrames`: the frames `allocateMem` can still hand out.
- `mainMemory` and `vmFile`: which page's contents each frame holds, and
  each page's contents in the `VirtualMemory` file. Page `v` of the
  executable holds `v`, and stores write values of `WriteVals`.
- `written`: the value the program last stored in each page (history).
- `instr`: the access of the instruction being run.

**`Init`.** This is the state the `AddrSpace` constructor leaves: every
entry is invalid and the program is in the `VirtualMemory` file.

**Actions.** `Issue` starts a load or store. `Execute` is `Translate` on a
TLB hit. `Miss` is `ExceptionHandler`'s call of `TLBMissHandler`, whole, so
it includes `PageFaultHandler`, `ReplacePage` and the insertion. The
instruction stays in `instr` and is retried. `ContextSwitch` is
`SaveState`, which clears the TLB, followed by `RestoreState`. It can fall
between a fault and the retry.

`Machine::Translate` is not in this tree. It is modelled as Nachos ships it:

- it takes the first valid TLB entry of the page;
- with none, it raises `PageFaultException`;
- on a hit, it sets `use`, and `dirty` for a store, in that TLB entry only.

`allocateMem` is modelled as taking the lowest free frame.

### `NachosMain`, `MC_NachosMain`: one test per boot

`main.cc` is not in this tree. A boot runs one test picked on the command
line: `ThreadTest`, the four threads over `SynchDisk`, calls on the
directories, `PipeTest`, or a user program under demand paging
(`StartProcess`). `boot` is the pick. The other tests' state stays at its initial
value, and their properties hold trivially in that boot. `MC_NachosMain` sets
the sizes of every test.

## Runs

All the runs are listed in `PROJECT.json`.

| Run | Expect | What it shows |
|---|---|---|
| `filestore_tiers` | pass | Two disks. The first has `NumDirect=2`, `LevelNum=2`, `SectorSize=2`, 16 sectors, creates of 0-8 bytes and writes of 1-8 bytes. On the second (`NumDirect=1`, `LevelNum=2`, `SectorSize=1`, 36 sectors), files grow by 1- and 3-byte writes through every tier to the two-level index, which covers every `ExpandFileSize` branch that succeeds. `TierSectorOwnership`: on both disks the bitmap is exactly the metadata plus the live files' sectors, and no sector has two owners. `SingleFitsIffSpace`: on the first disk, `Allocate` and `ExpandFileSize` succeed exactly when the free map holds `IndexedSectors` of the new size. `TierAbsSpec`: both disks refine `AbstractFileStore`. |
| `filestore_expand_nospace` | violation | The 0-to-2 check (`filehdr.cc:535`) lets a growth through without room, and -1 is stored as a sector. |
| `filestore_expand_check` | violation | The 1-to-2 check (`filehdr.cc:577`) refuses a growth that fits. |
| `filestore_expand_newblocks` | violation | The 2-to-2 check for new second-level blocks (`filehdr.cc:634`) counts one index block however many are added. |
| `table_modes` | pass | In the Exec-only workload, threads open, close, read and write and exit. `ExecHandlesResolve`: every id a live program holds resolves to its file. `ExecNoOrphanSlot`: no slot outlives its thread. In the Fork workload, with a table of 3 slots, `ForkCopyNeverOverflows`: `CopyFile`'s capacity check is exact, so the `ASSERT(fd != -1)` in its loop holds. |
| `table_forkrace` | violation | A forked child uses an inherited id before the parent's `CopyFile` and fails `ASSERT(file != NULL)`. |
| `table_getfile` | violation | `NoUseAfterFree`: a parent's `Read` waits for the disk with slot 2's `OpenFile`; the child's `Read(2)` re-tags slot 2 through the `=` in `GetFile` (`filesys.cc:779`), and the child's `Close(2)` deletes that `OpenFile`. |
| `nachos_main` | pass | Each boot runs one test. ThreadTest cases 11 to 14: `BufferIsStack`, both buffer classes refine a bounded stack, including Mesa wake-ups in `BufferCnd`; `BarrierSync`, no thread leaves round k before all have arrived at round k, although the barrier is reused; `RWExclusion`, a writer in the lock is alone. SynchDisk: `SectorRW`, a writer of the data sector is alone in it; `IOSerial`, at most one request is pending, and a thread leaves `ReadSector` only after its own interrupt. Directories: `SectorBitmap`, the bitmap is exactly the reserved sectors plus the headers a path reaches and their data; `SingleOwner`, each reachable header has one entry and its own sectors. SynchDisk, ConcurrencyTest: `RemoveDone`, `ConcurrencyTest`'s retried `Remove` eventually removes the file for good (it leaves the directory and its sectors are free), although readers hold it open and keep taking the locks it needs. PipeTest: `PipeReadsLast`, a read returns the last word written, although a longer earlier word is still in the file. StartProcess: `FrameOwnership`, every frame is free or held by exactly one valid page; `OneEntryPerPage`, no page has two valid TLB entries. `AllFinish`: every thread of ThreadTest, SynchDisk and PipeTest returns, and the user program completes every access. Each fault costs two misses, because `TLBMissHandler` installs the copy it took before the fault. |
| `synchdisk_removerace` | violation | `OpenFileNotFreed`: an `Open` that found the file before `Remove` wrote the directory back counts its visitor after `Remove`'s check, and `Remove` frees an open file's sectors. |
| `paging_stale` | violation | `TLBCoherent`: page 0 is loaded into the only frame. A fault on page 1 makes `ReplacePage` evict page 0, but page 0's TLB entry stays valid and names the frame that now holds page 1. |
| `paging_dirty` | violation | `MemoryKept`: a store to page 0 sets `dirty` in its TLB entry only. A fault on page 1 makes `ReplacePage` find page 0 clean, so the store is dropped without a write-back. |
| `dirtree_filepath` | violation | `SectorBitmap`: `Create("f", 0)`, `Create("f/f", 0)` writes the entry into the regular file `f`, and `Remove("f")` leaves the header of `f/f` used and unreachable. |

Every property of a passing run has a mutant in `PROJECT.json`. The mutant is
a plausible bug in the operator that models the code, and TLC finds that
property violated under the run's own configuration. For example:

- `Remove` that keeps the header sector;
- the one-level space check of `Allocate` without the index block;
- `Deallocate` that never frees the double-indirect block;
- `ByteToSector` reading the wrong slot, or with the double tier's indices swapped;
- `CloseAll` that frees every slot, or starts at slot 3;
- `CopyFile`'s capacity check off by one;
- `ReadBuffer` taking `list[0]`;
- `BufferCnd::ReadBuffer` without `Producer->Signal`;
- `ArriveAndWait` testing `num_left == 1`;
- `AcquireReaderLock` testing the count before `ReaderCnt++`;
- `ReadSector` without `lock->Acquire()`;
- `MinusReader` V'ing while one reader is left;
- `MinusWriter` without its V;
- `RemoveDir` without the `IsEmpty` check;
- `BitMap::Find` that does not test the bit;
- `WritePipe` writing the word without its NUL;
- `ReplacePage` that leaves the victim valid;
- a `ConcurrencyTest` caller that gives up after one failed `Remove`;
- `TLBFIFO`'s shift stopping one slot early;
- `PageFaultHandler` that leaves the loaded page invalid.

### Bounds and why they are enough

**`filestore_tiers`, first disk.**

- Direct and one-level files (up to 4 sectors) fit in the disk together with
  the metadata.
- Two names let the files' sectors interleave.
- One remove is enough to make holes that later allocations fill out of order.

**`filestore_tiers`, second disk.**

- The sizes are the smallest that give all three tiers and more than one
  second-level block (`1 + 2 + 4` data sectors).
- The 1- and 3-byte writes reach every boundary: within a tier, across one,
  and across two at once.

**The violation runs.** Each uses the smallest disk on which the failing check
is reached.

**The table runs.**

- 3 free slots and 3 threads are enough for a parent with open files to fork
  a child that opens more.
- They also fill the table exactly when `CopyFile` runs.

**`nachos_main`.**

- Two producers and two consumers with unequal counts let the buffer fill,
  so producers wait, and empty, so consumers wait.
- Four barrier threads over three rounds let a woken thread lag a round
  behind.
- Two of each kind at the RW lock let a second reader join a reader, and a
  second writer queue behind one.
- The four disk programs have two concurrent readers, a writer, and an
  `Open` racing a `Remove`.
- The directory calls use directories `d`, `e` and `d/e` and files `f`,
  `d/f` and `d/e/f` on 12 sectors, with tables of two entries. A directory
  costs two sectors and a file one, so the 7 free sectors and the tables both
  fill up. Paths two levels deep reach a non-empty directory inside a
  non-empty directory. `d` and `e` are only ever directories and `f` only a
  file, as `MakeDir`-style callers use them.

- Three pipe rounds with words of one and two characters write a shorter
  word after a longer one.
- The user program has four pages, two frames and three TLB entries, and
  makes four accesses. Two frames force `ReplacePage` after the second
  fault. Four pages are one more than the TLB holds, so FIFO's full-TLB shift
  and CLOCK's sweep are both reached. One context switch can fall between a
  fault and its retry.

**The paging violation runs.** Each uses one frame and two pages, so the
second fault evicts. `paging_dirty` has a one-entry TLB, so no TLB entry can
outlive its page, and the run shows only the lost dirty bit.

**`dirtree_filepath`.** One file name and the path through it, the shortest
sequence that shows the leak.

### Fairness

`nachos_main` checks `AllFinish` under weak fairness of every ThreadTest and
SynchDisk thread's step, of `PipeTest`, which runs alone, and of the user
program's `Issue` and `Run` steps. The user thread is the only one running
user code, and `Machine::Run` retries the faulting instruction. `Scheduler::FindNextToRun` takes the head of a FIFO ready list,
and a thread made ready or preempted goes to its tail. A thread that stays
ready is therefore run. A `SynchDisk` thread also has strong fairness of
`Progress`, a step that gets it further. `Semaphore::P` re-tests the value
after waking, so a thread woken by `Release` can lose the lock again to the
thread that released it. Under weak fairness, the retrying remover could take
the disk lock back at every pass, and the reader it woke would never get it.
In the code, the loop's `Yield()` puts the remover behind the woken thread
on the FIFO ready list while the lock is free. `SynchDisk` also has weak
fairness of `RequestDone`,
because the disk schedules its interrupt when the request is made. Both
modules keep deadlock checking on: `Halt` is the stutter step once every
thread has ended. The directory calls have no fairness, because a caller may
stop calling, and some call is always enabled (a `Remove` of what a `Create`
made).

The table runs set `CHECK_DEADLOCK FALSE` because Nachos does stop: every
thread exits, or an ASSERT halts the machine. The file-store runs check
deadlock. `Create`, `Write` or `Remove` is always enabled within the bounds.
The paging violation runs set `CHECK_DEADLOCK FALSE`, because the user
program stops after its last access.

## Findings

There are nine code bugs, each reproduced by a violation run. They are listed
under `findings` in `PROJECT.json`:

- the three `ExpandFileSize` space checks;
- `GetFile`'s assignment in a condition, which lets a child's `Close` delete
  the `OpenFile` its parent is reading through;
- `FindDirSector` walking into a regular file (`filesys.cc:542`);
- the Fork/CopyFile ordering;
- `ReplacePage` leaving the evicted page's TLB entry valid (`exception.cc:107`);
- `ReplacePage` reading a dirty bit that only the TLB entry has
  (`exception.cc:104`). This one depends on the stock `Machine::Translate`,
  which is not in this tree.
- `Remove`'s `visitorCnt` check (`filesys.cc:422`), made before the sectors
  are freed and not atomic with respect to `Open`. It needs a thread switch
  between the two, which happens under `-rs` or at the disk waits.

One more disagreement is not a run, because it is in test code.
`Buffer::ReadBuffer` returns `&list[count-1]` and releases the lock, so a
producer can overwrite the slot before `ConsumeItem` prints it. Checking
`ThreadTest`'s `ConsumedOnce` on the `Lab3Test4_1` boot makes TLC show a consumer printing an item that
another consumer also printed, in 12 steps.

## What is not modelled

**Concurrent allocation.** `Create` and growth fetch the bitmap and write it
back with no lock around the whole sequence. `SynchDisk` has one file, and
`Remove` is the only writer of its bitmap. Two concurrent `Create`s would need
`FileStore`'s allocation split at its disk I/O. At `FileStore`'s sizes, that
is beyond TLC's reach.

**Directories and threads.** `DirTree` runs one call at a time. `RemoveDir`
frees a file without the `visitorCnt` check of `Remove` (`filesys.cc:649`);
`SynchDisk`'s programs call `Remove` only, and the race is shown for `Remove`.
Paths are root-relative without a leading `/`: `Create` and `Remove` keep
the `/` in a depth-0 name, which would need names as strings. Files in
`DirTree` are created with size 0; sized files are `FileStore`'s. `OpenFile`
is not in this tree, so how a directory table written into a regular file
grows that file is not modelled: the table lands in its data.

**The pipe's buffer.** `ReadPipe` writes its NUL at `dst[FileLength()]`
(`filesys.cc:697`). After a word of `MAXLEN` characters that is one past
`ReadPipeTest`'s `char data[MAXLEN+1]`. `Pipe` has the length, but the check
has no run of its own, because every run slot is in use.

**Paging, partly.** `Paging` has one address space. With several spaces,
frames held by other spaces can leave `ReplacePage` with nothing to evict, so
it returns -1 (`exception.cc:148`). Modelling that needs `allocateMem` and
`freeMem`, which are in the machine code outside this tree. Also not
modelled, because they copy memory byte by byte and no property tells their
results apart:

- the `USE_BITMAP` and `INVERTED_PAGETABLE` loaders;
- Fork's copy of the `VirtualMemory` file, and `WriteBackAll`.

**Not modelled at all.**

- Byte transfer in Read and Write, and the time and extension attributes of
  headers: no property distinguishes them.
- ThreadTest cases 1 to 10: the Lab 1 and 2 scheduling demos.
- `fstest` and `progtest`. Their calls set the input sets: Create sizes 0,
  `MemorySize`, -1 and `MAXLEN`, and the syscall sequences of the user tests.
