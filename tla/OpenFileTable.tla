--------------------------- MODULE OpenFileTable ---------------------------
(***************************************************************************)
(* The open-file table of filesys/filesys.cc (OpenedFiles, AddNewFile,     *)
(* RemoveFile, GetFile, CloseAll, CopyFile) driven by the system calls of  *)
(* userprog/exception.cc that use it: Open, Close, Read/Write, Fork, Exec   *)
(* and Exit.  Every access to the table is made with tableLock held, so a  *)
(* table operation is one atomic step; the scheduler may run any ready     *)
(* thread between two steps.  ForkHandler starts the child with           *)
(* Thread::Fork before it takes tableLock to run CopyFile, so that is two  *)
(* steps of the parent, and the child may run in between.                  *)
(*                                                                         *)
(* ReadHandler and WriteHandler take the OpenFile pointer from GetFile   *)
(* under tableLock, release the lock, then call file->Read/Write, which    *)
(* waits for the disk: that is two steps, and `using` is the slot whose    *)
(* OpenFile the thread holds in between (Freed once that OpenFile has been *)
(* deleted by a RemoveFile or CloseAll).                                   *)
(*                                                                         *)
(* A thread's `held` is what its user program knows: the id it got from    *)
(* each Open, and after Fork the ids of the parent's variables.  A failed  *)
(* ASSERT halts Nachos: `fault` records which one, and no step follows.   *)
(***************************************************************************)
EXTENDS Integers
LOCAL INSTANCE FiniteSets
LOCAL INSTANCE SequencesExt

CONSTANTS
  Tids,           \* thread identifiers (integers; getTID())
  MainTid,        \* the thread running the first user program
  MaxFileNumber,  \* MAX_FILE_NUMBER; slots 0 and 1 are the console
  Files,          \* the files user programs open (model values)
  NoFile,         \* no file behind a slot or an id
  MaxOpens        \* bound on the number of Open system calls

ASSUME /\ Tids \subseteq Nat /\ MainTid \in Tids
       /\ MaxFileNumber \in Nat /\ MaxFileNumber > 2
       /\ MaxOpens \in Nat

Ids == 2 .. MaxFileNumber - 1
NoTid == -1
NoFork == -1
NotFound == -1
NoUse == 0
Freed == -2

Slot == [valid : BOOLEAN, file : Files \cup {NoFile}, tid : Tids \cup {NoTid}, fork : Ids \cup {NoFork}]
FreeSlot == [valid |-> FALSE, file |-> NoFile, tid |-> NoTid, fork |-> NoFork]

Faults == {"none", "OpenTableFull", "CloseFailed", "GetFileNull", "CopyFailed", "CopyAddFailed"}

VARIABLES
  slot,    \* OpenedFiles[2 .. MAX_FILE_NUMBER-1]
  st,      \* each thread: "unborn", "ready", "forking" (between Thread::Fork and CopyFile), "done"
  child,   \* the thread a forking parent created
  held,    \* each thread's user program: id -> the file it refers to
  opens,   \* Open system calls so far
  fault,   \* the ASSERT that failed, or "none"
  using    \* each thread: the slot whose OpenFile its Read/Write holds

vars == <<slot, st, child, held, opens, fault, using>>

Live == {t \in Tids : st[t] \in {"ready", "forking"}}
NoHandles == [i \in Ids |-> NoFile]

Init ==
  /\ slot = [i \in Ids |-> FreeSlot]
  /\ st = [t \in Tids |-> IF t = MainTid THEN "ready" ELSE "unborn"]
  /\ child = [t \in Tids |-> NoTid]
  /\ held = [t \in Tids |-> NoHandles]
  /\ opens = 0
  /\ fault = "none"
  /\ using = [t \in Tids |-> NoUse]

-----------------------------------------------------------------------------
(* The table operations, as pure operators on a table.                     *)

Owned(tbl, t) == {i \in Ids : tbl[i].valid /\ tbl[i].tid = t}
Free(tbl) == {i \in Ids : ~tbl[i].valid}

\* AddNewFile: lowest free slot, tagged with the caller (ForkFileID is left
\* as it is), or -1.
AddNewFile(tbl, t, f) ==
  IF Free(tbl) = {} THEN [id |-> NotFound, tbl |-> tbl]
  ELSE LET pos == Min(Free(tbl))
       IN [id |-> pos, tbl |-> [tbl EXCEPT ![pos] = [@ EXCEPT !.valid = TRUE, !.file = f, !.tid = t]]]

\* The slot an id names for thread t: its own slot of that index, else the
\* first of its slots copied from that index (the ForkFileID fallback).
Lookup(tbl, t, id) ==
  IF tbl[id].valid /\ tbl[id].tid = t THEN id
  ELSE LET c == {i \in Ids : tbl[i].valid /\ tbl[i].tid = t /\ tbl[i].fork = id}
       IN IF c = {} THEN NotFound ELSE Min(c)

\* RemoveFile: clear the slot Lookup finds.
RemoveFile(tbl, t, id) ==
  LET i == Lookup(tbl, t, id)
  IN [ok |-> i # NotFound, tbl |-> IF i = NotFound THEN tbl ELSE [tbl EXCEPT ![i] = FreeSlot]]

\* GetFile as written: the fallback loop's condition is
\*   valid && (TID = currentThread->getTID()) && ForkFileID == openFileID
\* with an assignment, so every valid slot the loop reaches is handed to
\* the caller, and when the caller's TID is 0 the condition is false and
\* the loop runs to the end.
GetFile(tbl, t, id) ==
  IF tbl[id].valid /\ tbl[id].tid = t THEN [id |-> id, tbl |-> tbl]
  ELSE LET hit == {i \in Ids : tbl[i].valid /\ t # 0 /\ tbl[i].fork = id}
           stop == IF hit = {} THEN MaxFileNumber ELSE Min(hit)
       IN [id  |-> IF hit = {} THEN NotFound ELSE stop,
           tbl |-> [i \in Ids |-> IF tbl[i].valid /\ i <= stop
                                  THEN [tbl[i] EXCEPT !.tid = t] ELSE tbl[i]]]

\* Mutant: CloseAll frees every valid slot, whoever owns it.
CloseAllValid(tbl, t) == [i \in Ids |-> IF tbl[i].valid THEN FreeSlot ELSE tbl[i]]

\* Mutant: CloseAll's loop starts at slot 3.
CloseAllFromThree(tbl, t) == [i \in Ids |-> IF i \in Owned(tbl, t) /\ i >= 3 THEN FreeSlot ELSE tbl[i]]

\* CloseAll: free every slot the caller owns.
CloseAll(tbl, t) == [i \in Ids |-> IF i \in Owned(tbl, t) THEN FreeSlot ELSE tbl[i]]

\* Mutant: the capacity check of CopyFile is off by one.
CopyFileOffByOne(tbl, t, newTid) ==
  LET Step(acc, i) ==
        LET a == AddNewFile(acc.tbl, t, acc.tbl[i].file)
        IN IF a.id = NotFound THEN [full |-> TRUE, tbl |-> acc.tbl]
           ELSE [full |-> acc.full,
                 tbl |-> [a.tbl EXCEPT ![a.id] = [@ EXCEPT !.fork = i, !.tid = newTid]]]
      r == FoldLeft(Step, [full |-> FALSE, tbl |-> tbl], SetToSortSeq(Owned(tbl, t), <))
  IN [ok |-> Cardinality(Free(tbl)) + 1 >= Cardinality(Owned(tbl, t)), full |-> r.full, tbl |-> r.tbl]

\* CopyFile: refuse if fewer slots are free than the caller owns; else, in
\* slot order, AddNewFile a copy of each owned slot, tagged with the new
\* thread and ForkFileID = the original's index.  `full` is the
\* ASSERT(fd != -1) inside the loop.
CopyFile(tbl, t, newTid) ==
  LET Step(acc, i) ==
        LET a == AddNewFile(acc.tbl, t, acc.tbl[i].file)
        IN IF a.id = NotFound THEN [full |-> TRUE, tbl |-> acc.tbl]
           ELSE [full |-> acc.full,
                 tbl |-> [a.tbl EXCEPT ![a.id] = [@ EXCEPT !.fork = i, !.tid = newTid]]]
      r == FoldLeft(Step, [full |-> FALSE, tbl |-> tbl], SetToSortSeq(Owned(tbl, t), <))
  IN [ok |-> Cardinality(Free(tbl)) >= Cardinality(Owned(tbl, t)), full |-> r.full, tbl |-> r.tbl]

-----------------------------------------------------------------------------
(* System calls.  Each is taken by a ready thread while no ASSERT failed.  *)

Running(t) == fault = "none" /\ st[t] = "ready" /\ using[t] = NoUse

\* `delete OpenedFiles[i]->file` in RemoveFile and CloseAll: a pointer a
\* Read/Write took from a slot the new table no longer has valid is freed.
Deleted(tbl) ==
  [u \in Tids |-> IF using[u] \in Ids /\ ~tbl[using[u]].valid THEN Freed ELSE using[u]]

\* OpenHandler: Open(name) (ASSERTed non-NULL), AddNewFile under
\* tableLock, ASSERT(id >= 2).
Open(t, f) ==
  LET a == AddNewFile(slot, t, f)
  IN /\ Running(t)
     /\ opens < MaxOpens
     /\ opens' = opens + 1
     /\ IF a.id = NotFound
        THEN fault' = "OpenTableFull" /\ UNCHANGED <<slot, held>>
        ELSE /\ slot' = a.tbl
             /\ held' = [held EXCEPT ![t][a.id] = f]
             /\ UNCHANGED fault
     /\ UNCHANGED <<st, child, using>>

\* CloseHandler: ASSERT(RemoveFile(id)) under tableLock.
Close(t, id) ==
  LET r == RemoveFile(slot, t, id)
  IN /\ Running(t)
     /\ held[t][id] # NoFile
     /\ IF r.ok
        THEN /\ slot' = r.tbl /\ held' = [held EXCEPT ![t][id] = NoFile]
             /\ using' = Deleted(r.tbl) /\ UNCHANGED fault
        ELSE fault' = "CloseFailed" /\ UNCHANGED <<slot, held, using>>
     /\ UNCHANGED <<st, child, opens>>

\* ReadHandler / WriteHandler on a file id, up to the transfer: GetFile
\* under tableLock, then ASSERT(file != NULL); the thread keeps the pointer.
ReadWrite(t, id) ==
  LET g == GetFile(slot, t, id)
  IN /\ Running(t)
     /\ held[t][id] # NoFile
     /\ slot' = g.tbl
     /\ IF g.id = NotFound
        THEN fault' = "GetFileNull" /\ UNCHANGED using
        ELSE using' = [using EXCEPT ![t] = g.id] /\ UNCHANGED fault
     /\ UNCHANGED <<st, child, held, opens>>

\* The rest of the handler: file->Read/Write on the pointer, which returns
\* once the disk has answered; the table is not touched.
Transfer(t) ==
  /\ fault = "none"
  /\ using[t] # NoUse
  /\ using' = [using EXCEPT ![t] = NoUse]
  /\ UNCHANGED <<slot, st, child, held, opens, fault>>

\* ExecHandler: Thread::Fork(ExecFunc) on a new thread with no open files.
Exec(t, u) ==
  /\ Running(t)
  /\ st[u] = "unborn"
  /\ st' = [st EXCEPT ![u] = "ready"]
  /\ UNCHANGED <<slot, child, held, opens, fault, using>>

\* ForkHandler, first part: Thread::Fork(ForkFunc) makes the child ready;
\* its program holds the parent's ids.
ForkSpawn(t, c) ==
  /\ Running(t)
  /\ st[c] = "unborn"
  /\ st' = [st EXCEPT ![t] = "forking", ![c] = "ready"]
  /\ child' = [child EXCEPT ![t] = c]
  /\ held' = [held EXCEPT ![c] = held[t]]
  /\ UNCHANGED <<slot, opens, fault, using>>

\* ForkHandler, second part: ASSERT(CopyFile(child)) under tableLock.
ForkCopy(t) ==
  LET r == CopyFile(slot, t, child[t])
  IN /\ fault = "none"
     /\ st[t] = "forking"
     /\ st' = [st EXCEPT ![t] = "ready"]
     /\ child' = [child EXCEPT ![t] = NoTid]
     /\ CASE ~r.ok  -> fault' = "CopyFailed" /\ UNCHANGED slot
          [] r.full -> fault' = "CopyAddFailed" /\ UNCHANGED slot
          [] OTHER  -> slot' = r.tbl /\ UNCHANGED fault
     /\ UNCHANGED <<held, opens, using>>

\* ExitHandler: CloseAll under tableLock, then Finish.
Exit(t) ==
  /\ Running(t)
  /\ slot' = CloseAll(slot, t)
  /\ st' = [st EXCEPT ![t] = "done"]
  /\ held' = [held EXCEPT ![t] = NoHandles]
  /\ using' = Deleted(CloseAll(slot, t))
  /\ UNCHANGED <<child, opens, fault>>

Next ==
  \/ \E t \in Tids :
       \/ \E f \in Files : Open(t, f)
       \/ \E id \in Ids : Close(t, id) \/ ReadWrite(t, id)
       \/ \E u \in Tids : Exec(t, u) \/ ForkSpawn(t, u)
       \/ ForkCopy(t)
       \/ Transfer(t)
       \/ Exit(t)

Spec == Init /\ [][Next]_vars

-----------------------------------------------------------------------------
(* Properties                                                              *)

TypeOK ==
  /\ slot \in [Ids -> Slot]
  /\ st \in [Tids -> {"unborn", "ready", "forking", "done"}]
  /\ child \in [Tids -> Tids \cup {NoTid}]
  /\ held \in [Tids -> [Ids -> Files \cup {NoFile}]]
  /\ opens \in 0 .. MaxOpens
  /\ fault \in Faults
  /\ using \in [Tids -> Ids \cup {NoUse, Freed}]

\* Every id a live thread's program holds names, through GetFile's own
\* slot / ForkFileID lookup, a valid slot of that thread for the file the
\* program opened under that id: no other thread's Open, Close or Exit
\* takes a handle away.
HandlesResolve ==
  \A t \in Live : \A id \in Ids :
    held[t][id] # NoFile =>
      LET i == Lookup(slot, t, id) IN i # NotFound /\ slot[i].file = held[t][id]

\* CloseAll at Exit leaves no slot behind: every valid slot belongs to a
\* thread that has not finished.
NoOrphanSlot == \A i \in Ids : slot[i].valid => slot[i].tid \in Live

\* CopyFile counts the free slots before it copies, so the
\* ASSERT(fd != -1) on each AddNewFile inside its loop never fails, even
\* when the table is nearly full (tableLock keeps other threads out).
CopyNeverOverflows == fault # "CopyAddFailed"

\* A Read or Write on an id the program holds never hits
\* ASSERT(file != NULL) after GetFile, in the parent or in a forked child.
ReadWriteNeverFails == fault # "GetFileNull"

\* The OpenFile a Read or Write took from GetFile under tableLock is still
\* allocated when file->Read/Write uses it after the lock is released: no
\* other thread's Close or Exit deletes it in between.
NoUseAfterFree == \A t \in Tids : using[t] # Freed

=============================================================================
