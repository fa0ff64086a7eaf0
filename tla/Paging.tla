------------------------------- MODULE Paging -------------------------------
(***************************************************************************)
(* Demand paging of one user address space (userprog/exception.cc and     *)
(* addrspace.cc, built with USE_TLB, USE_DISK and USE_BITMAP): the         *)
(* AddrSpace constructor leaves every page invalid and the program's pages *)
(* in its VirtualMemory file; a TLB miss runs TLBMissHandler, which on an  *)
(* invalid page runs PageFaultHandler, which takes a free frame from the   *)
(* bitmap (allocateMem) or one from ReplacePage; the missing entry goes    *)
(* into the TLB by FIFO (USE_FIFO), CLOCK (USE_CLOCK) or round robin; a    *)
(* context switch (SaveState) invalidates the TLB.                         *)
(*                                                                         *)
(* The machine emulation is not in this tree.  Machine::Translate is       *)
(* modelled as Nachos ships it: it looks for a valid TLB entry of the page *)
(* and raises PageFaultException when there is none; on a hit it sets the  *)
(* entry's use bit and, for a store, its dirty bit, in the TLB entry only. *)
(* The instruction is retried after the handler returns.  allocateMem      *)
(* takes the lowest clear bit of the frame bitmap, -1 when there is none.  *)
(*                                                                         *)
(* Data is abstracted to one value per page: page v of the executable      *)
(* holds v, and stores write values of WriteVals.                          *)
(***************************************************************************)
EXTENDS Integers, FiniteSetsExt

CONSTANTS
  NumPages,       \* numPages of the address space
  NumPhysPages,   \* frames of main memory
  TLBSize,        \* entries of machine->tlb
  Policies,       \* the TLB replacement builds checked: "FIFO", "CLOCK", "RR"
  WriteVals,      \* values user stores write
  MaxAccesses,    \* bound on the user program's memory accesses
  MaxSwitches     \* bound on context switches

VPNs == 0 .. NumPages - 1
Frames == 0 .. NumPhysPages - 1
Slots == 0 .. TLBSize - 1
NoFrame == -1
NoPage == -1

ASSUME /\ Policies \subseteq {"FIFO", "CLOCK", "RR"}
       /\ WriteVals \cap VPNs = {}
       /\ TLBSize > 0 /\ NumPhysPages > 0

\* A load or a store of one page by a user instruction.
Accesses == [op : {"load"}, vpn : VPNs, val : {NoPage}]
              \cup [op : {"store"}, vpn : VPNs, val : WriteVals]
NoAccess == [op |-> "none"]

VARIABLES
  policy,      \* the build: which TLB replacement is compiled in
  pageTable,   \* machine->pageTable: vpn -> [valid, ppn, use, dirty]
  tlb,         \* machine->tlb: slot -> [valid, vpn, ppn, use, dirty]
  Index,       \* the global Index of TLBClock and of round robin
  freeFrames,  \* frames whose bit allocateMem finds clear
  mainMemory,  \* the page value each frame holds
  vmFile,      \* the page value each page has in the VirtualMemory file
  written,     \* each page: the value the program last stored (history)
  instr,       \* the access of the instruction being run, or NoAccess
  accesses,    \* accesses issued so far
  switches     \* context switches so far

vars == <<policy, pageTable, tlb, Index, freeFrames, mainMemory, vmFile,
          written, instr, accesses, switches>>

\* AddrSpace::AddrSpace with USE_DISK: every entry invalid, use and dirty
\* clear; physicalPage is not set and never read while invalid.  The
\* executable is copied into the VirtualMemory file.  The Machine
\* constructor clears every TLB entry's valid bit.
Init ==
  /\ policy \in Policies
  /\ pageTable = [v \in VPNs |-> [valid |-> FALSE, ppn |-> NoFrame,
                                  use |-> FALSE, dirty |-> FALSE]]
  /\ tlb = [i \in Slots |-> [valid |-> FALSE, vpn |-> 0, ppn |-> NoFrame,
                             use |-> FALSE, dirty |-> FALSE]]
  /\ Index = 0
  /\ freeFrames = Frames
  /\ mainMemory = [f \in Frames |-> NoPage]
  /\ vmFile = [v \in VPNs |-> v]
  /\ written = [v \in VPNs |-> v]
  /\ instr = NoAccess
  /\ accesses = 0
  /\ switches = 0

-----------------------------------------------------------------------------
(* The replacement algorithms                                              *)

\* ReplacePage's choice: the first valid, unmodified page of the page
\* table, else the first valid one; -1 when no page is valid.
Victim(pt) ==
  LET clean == {i \in VPNs : pt[i].valid /\ ~pt[i].dirty}
      valid == {i \in VPNs : pt[i].valid}
  IN IF clean # {} THEN Min(clean) ELSE IF valid # {} THEN Min(valid) ELSE NoPage

\* Mutant: the victim keeps its valid bit.
ReplacePageKeepValid(pt) == [victim |-> Victim(pt), pt |-> pt]

\* ReplacePage: the victim's entry is invalidated and its frame reused (a
\* modified victim is written back by Evict).  No TLB entry is looked at.
ReplacePage(pt) ==
  LET i == Victim(pt)
  IN [victim |-> i, pt |-> IF i = NoPage THEN pt ELSE [pt EXCEPT ![i].valid = FALSE]]

\* Mutant: the shift stops one entry early, so two slots keep one entry.
TLBFIFOShortShift(e) ==
  LET free == {i \in Slots : ~tlb[i].valid}
  IN IF free # {} THEN [tlb EXCEPT ![Min(free)] = e]
     ELSE [i \in Slots |-> IF i < TLBSize - 2 THEN tlb[i + 1]
                           ELSE IF i = TLBSize - 1 THEN e ELSE tlb[i]]

\* TLBFIFO: the first invalid slot; when all are valid, every entry moves
\* down one slot, dropping the first, and the new one goes last.
TLBFIFO(e) ==
  LET free == {i \in Slots : ~tlb[i].valid}
  IN IF free # {} THEN [tlb EXCEPT ![Min(free)] = e]
     ELSE [i \in Slots |-> IF i < TLBSize - 1 THEN tlb[i + 1] ELSE e]

\* The loop of TLBClock: stop at an invalid slot or one whose use bit is
\* clear; clear the use bit of each slot passed over.
RECURSIVE ClockScan(_, _)
ClockScan(t, k) ==
  IF ~t[k].valid \/ ~t[k].use THEN [tlb |-> t, index |-> k]
  ELSE ClockScan([t EXCEPT ![k].use = FALSE], (k + 1) % TLBSize)

\* The entry goes into the TLB under the build's policy: FIFO, CLOCK (the
\* entry's use bit set, Index left on it), or round robin at Index.
Install(e) ==
  CASE policy = "FIFO"  -> [tlb |-> TLBFIFO(e), index |-> Index]
    [] policy = "CLOCK" -> LET r == ClockScan(tlb, Index)
                           IN [tlb |-> [r.tlb EXCEPT ![r.index] = [e EXCEPT !.use = TRUE]],
                               index |-> r.index]
    [] OTHER            -> [tlb |-> [tlb EXCEPT ![Index] = e],
                            index |-> (Index + 1) % TLBSize]

-----------------------------------------------------------------------------
(* The handlers                                                            *)

\* The frame PageFaultHandler gets: allocateMem's lowest clear bit, else
\* ReplacePage's victim's frame, with the page table and VirtualMemory file
\* after the eviction.  When ReplacePage finds no valid page it returns -1,
\* which becomes the page's physicalPage; the ReadAt into mainMemory
\* before the first frame is undefined, and here changes no frame.
Evict ==
  LET r == ReplacePage(pageTable)
      old == pageTable[r.victim]
  IN IF freeFrames # {} THEN [frame |-> Min(freeFrames), pt |-> pageTable, vm |-> vmFile]
     ELSE IF r.victim = NoPage THEN [frame |-> NoFrame, pt |-> pageTable, vm |-> vmFile]
     ELSE [frame |-> old.ppn, pt |-> r.pt,
           vm |-> IF old.dirty THEN [vmFile EXCEPT ![r.victim] = mainMemory[old.ppn]]
                  ELSE vmFile]

\* Load page v into frame f from the VirtualMemory file vm.
LoadPage(f, vm, v) ==
  IF f = NoFrame THEN mainMemory ELSE [mainMemory EXCEPT ![f] = vm[v]]

\* Mutant: the loaded page is left invalid.
PageFaultHandlerNoValid(v) ==
  LET ev == Evict
  IN /\ pageTable' = [ev.pt EXCEPT ![v] = [valid |-> FALSE, ppn |-> ev.frame,
                                           use |-> FALSE, dirty |-> FALSE]]
     /\ vmFile' = ev.vm
     /\ mainMemory' = LoadPage(ev.frame, ev.vm, v)
     /\ freeFrames' = freeFrames \ {ev.frame}

\* PageFaultHandler(vpn): the frame of Evict; the page is read from the
\* VirtualMemory file into it and its entry made valid, use and dirty clear.
PageFaultHandler(v) ==
  LET ev == Evict
  IN /\ pageTable' = [ev.pt EXCEPT ![v] = [valid |-> TRUE, ppn |-> ev.frame,
                                           use |-> FALSE, dirty |-> FALSE]]
     /\ vmFile' = ev.vm
     /\ mainMemory' = LoadPage(ev.frame, ev.vm, v)
     /\ freeFrames' = freeFrames \ {ev.frame}

\* TLBMissHandler(addr): copies pageTable[vpn] first, runs PageFaultHandler
\* when that copy is invalid, and installs the copy taken before the fault.
TLBMissHandler(v) ==
  LET page == pageTable[v]
      r == Install([valid |-> page.valid, vpn |-> v, ppn |-> page.ppn,
                    use |-> page.use, dirty |-> page.dirty])
  IN /\ IF page.valid THEN UNCHANGED <<pageTable, vmFile, mainMemory, freeFrames>>
                      ELSE PageFaultHandler(v)
     /\ tlb' = r.tlb
     /\ Index' = r.index

\* Machine::Translate's TLB search: the valid slots of the page.
HitSlots(v) == {i \in Slots : tlb[i].valid /\ tlb[i].vpn = v}

-----------------------------------------------------------------------------
(* The steps of the user thread                                            *)

\* The user program starts an instruction that loads or stores a page.
Issue(a) ==
  /\ instr = NoAccess
  /\ accesses < MaxAccesses
  /\ instr' = a
  /\ accesses' = accesses + 1
  /\ UNCHANGED <<policy, pageTable, tlb, Index, freeFrames, mainMemory, vmFile, written, switches>>

\* Translate finds a valid entry: the first one; its use bit, and for a
\* store its dirty bit, are set, and the frame it names is read or written.
Execute ==
  /\ instr # NoAccess
  /\ HitSlots(instr.vpn) # {}
  /\ LET i == Min(HitSlots(instr.vpn))
         store == instr.op = "store"
     IN /\ tlb' = [tlb EXCEPT ![i].use = TRUE, ![i].dirty = @ \/ store]
        /\ mainMemory' = IF store THEN [mainMemory EXCEPT ![tlb[i].ppn] = instr.val]
                         ELSE mainMemory
        /\ written' = IF store THEN [written EXCEPT ![instr.vpn] = instr.val] ELSE written
  /\ instr' = NoAccess
  /\ UNCHANGED <<policy, pageTable, Index, freeFrames, vmFile, accesses, switches>>

\* No valid entry: PageFaultException, handled by ExceptionHandler's call
\* of TLBMissHandler; the instruction stays to be retried.
Miss ==
  /\ instr # NoAccess
  /\ HitSlots(instr.vpn) = {}
  /\ TLBMissHandler(instr.vpn)
  /\ UNCHANGED <<policy, written, instr, accesses, switches>>

\* The scheduler switches to another thread and back, which may happen
\* between a fault and the retry: SaveState clears every TLB entry's valid
\* bit and RestoreState installs the same page table again.
ContextSwitch ==
  /\ switches < MaxSwitches
  /\ tlb' = [i \in Slots |-> [tlb[i] EXCEPT !.valid = FALSE]]
  /\ switches' = switches + 1
  /\ UNCHANGED <<policy, pageTable, Index, freeFrames, mainMemory, vmFile, written, instr, accesses>>

\* The processor running the user thread's current instruction.
Run == Execute \/ Miss

\* The program has issued all its accesses and finished the last one.
Done == instr = NoAccess /\ accesses = MaxAccesses

Next ==
  \/ \E a \in Accesses : Issue(a)
  \/ Run
  \/ ContextSwitch

\* The user thread is the only one that runs user code: it goes on while
\* it has an instruction.
Spec == Init /\ [][Next]_vars /\ WF_vars(Run) /\ WF_vars(\E a \in Accesses : Issue(a))

-----------------------------------------------------------------------------
(* Properties                                                              *)

Entry == [valid : BOOLEAN, vpn : VPNs, ppn : Frames \cup {NoFrame},
          use : BOOLEAN, dirty : BOOLEAN]

TypeOK ==
  /\ policy \in Policies
  /\ pageTable \in [VPNs -> [valid : BOOLEAN, ppn : Frames \cup {NoFrame},
                             use : BOOLEAN, dirty : BOOLEAN]]
  /\ tlb \in [Slots -> Entry]
  /\ Index \in Slots
  /\ freeFrames \subseteq Frames
  /\ instr \in Accesses \cup {NoAccess}

\* Every frame is either clear in the bitmap or the frame of exactly one
\* valid page-table entry: allocateMem and ReplacePage, over any sequence
\* of faults, context switches and retries, never give one frame to two
\* pages and never lose one.
FrameOwnership ==
  \A f \in Frames :
    Cardinality({v \in VPNs : pageTable[v].valid /\ pageTable[v].ppn = f})
      = IF f \in freeFrames THEN 0 ELSE 1

\* A page has at most one valid TLB entry, whatever the FIFO shifting,
\* the CLOCK hand and the round robin do, so Translate's choice of the
\* first match never matters.
OneEntryPerPage ==
  \A i, j \in Slots : i # j /\ tlb[i].valid /\ tlb[j].valid => tlb[i].vpn # tlb[j].vpn

\* Every valid TLB entry agrees with the page table: its page is resident
\* in the frame it names.  ReplacePage invalidates a page-table entry but
\* leaves a TLB entry of the page valid.
TLBCoherent ==
  \A i \in Slots : tlb[i].valid =>
    pageTable[tlb[i].vpn].valid /\ pageTable[tlb[i].vpn].ppn = tlb[i].ppn

\* No store is lost: each page holds, in its frame when resident and in
\* the VirtualMemory file otherwise, the value the program last stored.
\* Translate sets the dirty bit in the TLB entry only, and ReplacePage
\* reads it in the page table.
MemoryKept ==
  \A v \in VPNs :
    written[v] = IF pageTable[v].valid THEN mainMemory[pageTable[v].ppn] ELSE vmFile[v]

=============================================================================
