----------------------------- MODULE FileHeader -----------------------------
(***************************************************************************)
(* The multi-level indexed file header of filesys/filehdr.cc, as built    *)
(* with USE_INDIRECT: NumDirect direct slots, slot OneLevelIdx holding    *)
(* the sector of a single-indirect index block, slot TwoLevelIdx holding  *)
(* the sector of a double-indirect block whose entries name second-level  *)
(* index blocks.  An index block is a sector read as LevelNum integers.   *)
(*                                                                         *)
(* The operations are pure operators over an in-memory header, the free   *)
(* map (the set of used sectors) and the disk (what every sector holds    *)
(* when read as an index table).  Each returns a record                   *)
(*    [ok, hdr, used, disk]                                                *)
(* so a caller commits or discards the new bitmap exactly as filesys.cc   *)
(* does.  Uninitialised memory (a fresh `new FileHeader`, a local index   *)
(* array written back only partly filled) holds the model value Junk.     *)
(***************************************************************************)
EXTENDS Integers
LOCAL INSTANCE FiniteSets
LOCAL INSTANCE Sequences
LOCAL INSTANCE SequencesExt

CONSTANTS
  SectorSize,   \* bytes per sector
  NumDirect,    \* direct slots in the header
  LevelNum,     \* sector numbers per index block (SectorSize / sizeof(int))
  NumSectors,   \* sectors on the disk
  Junk          \* contents of uninitialised memory

ASSUME /\ SectorSize \in Nat \ {0}
       /\ NumDirect \in Nat \ {0}
       /\ LevelNum \in Nat \ {0, 1}
       /\ NumSectors \in Nat \ {0}

Sectors == 0 .. NumSectors - 1
NoSector == -1                       \* BitMap::Find's "no free sector"
SectorVal == Sectors \cup {NoSector, Junk}
OneLevelIdx == NumDirect
TwoLevelIdx == NumDirect + 1
Slots == 0 .. TwoLevelIdx            \* dataSectors[NumDataSectors]
Entries == 0 .. LevelNum - 1
MaxSectors == NumDirect + LevelNum + LevelNum * LevelNum

Table == [Entries -> SectorVal]
JunkTable == [j \in Entries |-> Junk]
Header == [numBytes : Nat, numSectors : Nat, dataSectors : [Slots -> SectorVal]]
JunkHeader == [numBytes |-> 0, numSectors |-> 0,
               dataSectors |-> [i \in Slots |-> Junk]]

DivRoundUp(n, s) == (n + s - 1) \div s

AfterSectors(after) == DivRoundUp(after, SectorSize)
LeftOf(n) == n - NumDirect - LevelNum          \* sectors in the double tier
SecondLevelOf(n) == DivRoundUp(LeftOf(n), LevelNum)

Result(ok, h, used, disk) == [ok |-> ok, hdr |-> h, used |-> used, disk |-> disk]

-----------------------------------------------------------------------------
(* The free map (bitmap.cc): Find marks and returns the lowest clear bit.  *)

NumClear(used) == Cardinality(Sectors \ used)

\* The clear sectors in increasing order.
ClearInOrder(used) == SelectSeq([i \in 1 .. NumSectors |-> i - 1], LAMBDA s : s \notin used)

FindFirst(used) == IF Sectors \subseteq used THEN NoSector ELSE Head(ClearInOrder(used))

\* The results of k successive calls of Find, in call order: each marks the
\* sector it returns, so they are the k lowest clear sectors, then -1s.
FindN(used, k) ==
  LET free == ClearInOrder(used)
  IN [i \in 1 .. k |-> IF i <= Len(free) THEN free[i] ELSE NoSector]

\* A sequence with no element twice (IsInjective, in linear time).
NoRepeats(seq) == Cardinality(ToSet(seq)) = Len(seq)

MarkAll(used, got) == used \cup (ToSet(got) \ {NoSector})

-----------------------------------------------------------------------------
(* Disk access: index tables are read and written whole.                   *)

ReadTable(disk, s) == IF s \in Sectors THEN disk[s] ELSE JunkTable

\* WriteSector of each <<sector, table>> pair in order; a write to a sector
\* number outside the disk changes nothing.
WriteSectors(disk, ws) ==
  FoldLeft(LAMBDA d, w : IF w[1] \in Sectors THEN [d EXCEPT ![w[1]] = w[2]] ELSE d,
           disk, ws)

\* Entries from .. to-1 of tbl set to got[start], got[start+1], ...
Fill(tbl, from, to, got, start) ==
  [j \in DOMAIN tbl |-> IF from <= j /\ j < to THEN got[start + j - from] ELSE tbl[j]]

\* Data sectors held by second-level block i when the double tier holds
\* left sectors in all.
LeavesIn(i, left) ==
  IF left - i * LevelNum < LevelNum THEN left - i * LevelNum ELSE LevelNum

\* The loop shared by Allocate and ExpandFileSize that allocates
\* second-level blocks from .. to-1: per block one Find for the block and
\* then one per leaf.  got[p0] is the result for block `from`.
SecondLevelBlocks(got, p0, from, to, left, twoTbl) ==
  LET pos(i) == p0 + (i - from) * (LevelNum + 1)
  IN [two    |-> [j \in Entries |-> IF from <= j /\ j < to THEN got[pos(j)] ELSE twoTbl[j]],
      writes |-> [k \in 1 .. to - from |->
                    LET i == from + k - 1
                    IN <<got[pos(i)], Fill(JunkTable, 0, LeavesIn(i, left), got, pos(i) + 1)>>]]

-----------------------------------------------------------------------------
(* FileHeader::Allocate: numBytes and numSectors are set first (a failed   *)
(* Allocate leaves them set), then one branch per tier, each with its own *)
(* space check.                                                            *)

Sized(h, fileSize) == [h EXCEPT !.numBytes = fileSize, !.numSectors = DivRoundUp(fileSize, SectorSize)]

Allocated(h, used, disk, fileSize, ds, got, ws) ==
  Result(TRUE, [Sized(h, fileSize) EXCEPT !.dataSectors = ds], MarkAll(used, got), WriteSectors(disk, ws))

\* Just need to use direct mapping.
AllocDirect(h, used, disk, fileSize) ==
  LET n == DivRoundUp(fileSize, SectorSize)
      got == FindN(used, n)
  IN Allocated(h, used, disk, fileSize, Fill(h.dataSectors, 0, n, got, 1), got, <<>>)

\* Mutant: the one-level check forgets the index block.
AllocSingleNoIndex(h, used, disk, fileSize) ==
  LET n == DivRoundUp(fileSize, SectorSize)
      got == FindN(used, n + 1)
  IN IF NumClear(used) < n THEN Result(FALSE, Sized(h, fileSize), used, disk)
     ELSE Allocated(h, used, disk, fileSize,
                    [Fill(h.dataSectors, 0, NumDirect, got, 1) EXCEPT ![OneLevelIdx] = got[NumDirect + 1]],
                    got,
                    << <<got[NumDirect + 1], Fill(JunkTable, 0, n - NumDirect, got, NumDirect + 2)>> >>)

\* One-level indirect mapping: the check reserves the index block.
AllocSingle(h, used, disk, fileSize) ==
  LET n == DivRoundUp(fileSize, SectorSize)
      got == FindN(used, n + 1)
  IN IF NumClear(used) < n + 1 THEN Result(FALSE, Sized(h, fileSize), used, disk)
     ELSE Allocated(h, used, disk, fileSize,
                    [Fill(h.dataSectors, 0, NumDirect, got, 1) EXCEPT ![OneLevelIdx] = got[NumDirect + 1]],
                    got,
                    << <<got[NumDirect + 1], Fill(JunkTable, 0, n - NumDirect, got, NumDirect + 2)>> >>)

\* Two-level indirect mapping: direct slots, the full one-level block, the
\* double-indirect block, then each second-level block and its leaves.
AllocDouble(h, used, disk, fileSize) ==
  LET n == DivRoundUp(fileSize, SectorSize)
      sln == SecondLevelOf(n)
      two == NumDirect + LevelNum + 2
      got == FindN(used, n + 2 + sln)
      sl == SecondLevelBlocks(got, two + 1, 0, sln, LeftOf(n), JunkTable)
  IN IF NumClear(used) < n + 1 + 1 + sln THEN Result(FALSE, Sized(h, fileSize), used, disk)
     ELSE Allocated(h, used, disk, fileSize,
                    [Fill(h.dataSectors, 0, NumDirect, got, 1)
                       EXCEPT ![OneLevelIdx] = got[NumDirect + 1], ![TwoLevelIdx] = got[two]],
                    got,
                    << <<got[NumDirect + 1], Fill(JunkTable, 0, LevelNum, got, NumDirect + 2)>> >>
                      \o sl.writes \o << <<got[two], sl.two>> >>)

Allocate(h, used, disk, fileSize) ==
  LET n == DivRoundUp(fileSize, SectorSize)
  IN CASE NumClear(used) < n -> Result(FALSE, Sized(h, fileSize), used, disk)
       [] n <= NumDirect -> AllocDirect(h, used, disk, fileSize)
       [] n <= LevelNum + NumDirect -> AllocSingle(h, used, disk, fileSize)
       [] n <= MaxSectors -> AllocDouble(h, used, disk, fileSize)

-----------------------------------------------------------------------------
(* FileHeader::Deallocate clears, in this order, the direct sectors, the   *)
(* single-indirect leaves and block, then per second-level block its      *)
(* leaves and the block, and the double-indirect block.  Every Clear is   *)
(* preceded by ASSERT(freeMap->Test(sector)).                             *)

DeallocOrder(h, disk) ==
  LET n == h.numSectors
      ds == h.dataSectors
      one == ReadTable(disk, ds[OneLevelIdx])
      two == ReadTable(disk, ds[TwoLevelIdx])
      left == n - NumDirect - LevelNum
      direct == [i \in 1 .. (IF n < NumDirect THEN n ELSE NumDirect) |-> ds[i - 1]]
      single == IF n > NumDirect
                THEN [i \in 1 .. (IF n - NumDirect < LevelNum THEN n - NumDirect ELSE LevelNum)
                        |-> one[i - 1]] \o <<ds[OneLevelIdx]>>
                ELSE <<>>
      double == IF n > NumDirect + LevelNum
                THEN FlattenSeq([b \in 1 .. DivRoundUp(left, LevelNum) |->
                       [j \in 1 .. LeavesIn(b - 1, left) |-> ReadTable(disk, two[b - 1])[j - 1]]
                         \o <<two[b - 1]>>]) \o <<ds[TwoLevelIdx]>>
                ELSE <<>>
  IN direct \o single \o double

\* Mutant: the double-indirect block itself is never cleared.
DeallocateKeepTwo(h, used, disk) ==
  LET order == DeallocOrder(h, disk)
  IN Result(NoRepeats(order) /\ ToSet(order) \subseteq used, h,
            used \ (ToSet(order) \ {h.dataSectors[TwoLevelIdx]}), disk)

Deallocate(h, used, disk) ==
  LET order == DeallocOrder(h, disk)
  IN Result(NoRepeats(order) /\ ToSet(order) \subseteq used, h, used \ ToSet(order), disk)

\* Every sector the header references, data and index blocks.
Referenced(h, disk) == ToSet(DeallocOrder(h, disk))

\* No reference is NoSector or Junk and no sector is referenced twice.
WellFormed(h, disk) ==
  /\ Referenced(h, disk) \subseteq Sectors
  /\ NoRepeats(DeallocOrder(h, disk))

-----------------------------------------------------------------------------
(* FileHeader::ByteToSector                                                *)

\* Mutant: the single-indirect tier reads the double-indirect slot.
ByteToSectorWrongSlot(h, disk, offset) ==
  LET directSize == NumDirect * SectorSize
      singleSize == directSize + LevelNum * SectorSize
      o == offset - singleSize
  IN CASE offset < directSize -> h.dataSectors[offset \div SectorSize]
       [] offset < singleSize ->
            ReadTable(disk, h.dataSectors[TwoLevelIdx])[(offset - directSize) \div SectorSize]
       [] OTHER ->
            ReadTable(disk, ReadTable(disk, h.dataSectors[TwoLevelIdx])[o \div (LevelNum * SectorSize)])
              [(o % (LevelNum * SectorSize)) \div SectorSize]

\* Mutant: the double tier swaps the block and the entry index.
ByteToSectorTransposed(h, disk, offset) ==
  LET directSize == NumDirect * SectorSize
      singleSize == directSize + LevelNum * SectorSize
      o == offset - singleSize
  IN CASE offset < directSize -> h.dataSectors[offset \div SectorSize]
       [] offset < singleSize ->
            ReadTable(disk, h.dataSectors[OneLevelIdx])[(offset - directSize) \div SectorSize]
       [] OTHER ->
            ReadTable(disk, ReadTable(disk, h.dataSectors[TwoLevelIdx])[(o % (LevelNum * SectorSize)) \div SectorSize])
              [o \div (LevelNum * SectorSize)]

ByteToSector(h, disk, offset) ==
  LET directSize == NumDirect * SectorSize
      singleSize == directSize + LevelNum * SectorSize
      o == offset - singleSize
  IN CASE offset < directSize -> h.dataSectors[offset \div SectorSize]
       [] offset < singleSize ->
            ReadTable(disk, h.dataSectors[OneLevelIdx])[(offset - directSize) \div SectorSize]
       [] OTHER ->
            ReadTable(disk, ReadTable(disk, h.dataSectors[TwoLevelIdx])[o \div (LevelNum * SectorSize)])
              [(o % (LevelNum * SectorSize)) \div SectorSize]

\* The file's data sectors in logical order, as ByteToSector sees them.
LogicalSectors(h, disk) ==
  [i \in 1 .. h.numSectors |-> ByteToSector(h, disk, (i - 1) * SectorSize)]

-----------------------------------------------------------------------------
(* FileHeader::ExpandFileSize: grow in place by expandBytes.  The branches *)
(* follow the code's if/else-if chain, each with its own space check and  *)
(* its own order of Find calls; only a successful branch commits the new  *)
(* numBytes and numSectors.  A branch is an operator of the header, the   *)
(* free map, the disk and the new byte count.                             *)

Fail(h, used, disk) == Result(FALSE, h, used, disk)

\* The successful end of ExpandFileSize: new sizes, the data-sector array
\* ds, the sectors Find returned marked, the index blocks written.
Grown(h, used, disk, after, ds, got, ws) ==
  Result(TRUE, [numBytes |-> after, numSectors |-> AfterSectors(after), dataSectors |-> ds],
         MarkAll(used, got), WriteSectors(disk, ws))

\* just need direct index
ExpandDirect(h, used, disk, after) ==
  LET got == FindN(used, AfterSectors(after) - h.numSectors)
  IN Grown(h, used, disk, after, Fill(h.dataSectors, h.numSectors, AfterSectors(after), got, 1), got, <<>>)

\* from 0 to 1
Expand0to1(h, used, disk, after) ==
  LET n == h.numSectors
      delta == AfterSectors(after) - n
      k == NumDirect - n
      got == FindN(used, delta + 1)
  IN IF delta + 1 > NumClear(used) THEN Fail(h, used, disk)
     ELSE Grown(h, used, disk, after,
                [Fill(h.dataSectors, n, NumDirect, got, 1) EXCEPT ![OneLevelIdx] = got[k + 1]], got,
                << <<got[k + 1], Fill(JunkTable, 0, AfterSectors(after) - NumDirect, got, k + 2)>> >>)

\* from 1 to 1
Expand1to1(h, used, disk, after) ==
  LET n == h.numSectors
      got == FindN(used, AfterSectors(after) - n)
      one == h.dataSectors[OneLevelIdx]
  IN Grown(h, used, disk, after, h.dataSectors, got,
           << <<one, Fill(ReadTable(disk, one), n - NumDirect, AfterSectors(after) - NumDirect, got, 1)>> >>)

\* from 0 to 2; the space check is the code's: numSectors + 1 + 1 + SecondLevelNum
Expand0to2(h, used, disk, after) ==
  LET n == h.numSectors
      m == AfterSectors(after)
      sln == SecondLevelOf(m)
      k == NumDirect - n
      two == k + LevelNum + 2
      got == FindN(used, m - n + 2 + sln)
      sl == SecondLevelBlocks(got, two + 1, 0, sln, LeftOf(m), JunkTable)
  IN IF NumClear(used) < n + 1 + 1 + sln THEN Fail(h, used, disk)
     ELSE Grown(h, used, disk, after,
                [Fill(h.dataSectors, n, NumDirect, got, 1)
                   EXCEPT ![OneLevelIdx] = got[k + 1], ![TwoLevelIdx] = got[two]], got,
                << <<got[k + 1], Fill(JunkTable, 0, LevelNum, got, k + 2)>> >>
                  \o sl.writes \o << <<got[two], sl.two>> >>)

\* from 1 to 2; the space check is the code's: numSectors + 1 + SecondLevelNum
Expand1to2(h, used, disk, after) ==
  LET n == h.numSectors
      m == AfterSectors(after)
      sln == SecondLevelOf(m)
      k == LevelNum - (n - NumDirect)
      one == h.dataSectors[OneLevelIdx]
      got == FindN(used, m - n + 1 + sln)
      sl == SecondLevelBlocks(got, k + 2, 0, sln, LeftOf(m), JunkTable)
  IN IF NumClear(used) < n + 1 + sln THEN Fail(h, used, disk)
     ELSE Grown(h, used, disk, after, [h.dataSectors EXCEPT ![TwoLevelIdx] = got[k + 1]], got,
                << <<one, Fill(ReadTable(disk, one), n - NumDirect, LevelNum, got, 1)>> >>
                  \o sl.writes \o << <<got[k + 1], sl.two>> >>)

\* from 2 to 2, the new sectors fit in the last second-level block
Expand2to2Same(h, used, disk, after) ==
  LET m == AfterSectors(after)
      lastBlk == ReadTable(disk, h.dataSectors[TwoLevelIdx])[SecondLevelOf(h.numSectors) - 1]
      got == FindN(used, m - h.numSectors)
  IN Grown(h, used, disk, after, h.dataSectors, got,
           << <<lastBlk, Fill(ReadTable(disk, lastBlk), LeftOf(h.numSectors) % LevelNum,
                              LeftOf(m) - (SecondLevelOf(m) - 1) * LevelNum, got, 1)>> >>)

\* from 2 to 2 with new second-level blocks: fill the last block, then
\* one Find per new block and per leaf; the check is deltaSectors + 1
Expand2to2New(h, used, disk, after) ==
  LET n == h.numSectors
      m == AfterSectors(after)
      twoTbl == ReadTable(disk, h.dataSectors[TwoLevelIdx])
      lastBlk == twoTbl[SecondLevelOf(n) - 1]
      j0 == LeftOf(n) % LevelNum
      k == IF j0 > 0 THEN LevelNum - j0 ELSE 0
      got == FindN(used, m - n + SecondLevelOf(m) - SecondLevelOf(n))
      sl == SecondLevelBlocks(got, k + 1, SecondLevelOf(n), SecondLevelOf(m), LeftOf(m), twoTbl)
  IN IF m - n + 1 > NumClear(used) THEN Fail(h, used, disk)
     ELSE Grown(h, used, disk, after, h.dataSectors, got,
                << <<lastBlk, Fill(ReadTable(disk, lastBlk), IF j0 > 0 THEN j0 ELSE LevelNum, LevelNum, got, 1)>> >>
                  \o sl.writes \o << <<h.dataSectors[TwoLevelIdx], sl.two>> >>)

ExpandFileSize(h, used, disk, expandBytes) ==
  LET n == h.numSectors
      after == h.numBytes + expandBytes
      m == AfterSectors(after)
  IN CASE expandBytes < 0 -> Fail(h, used, disk)
       [] m = n -> Result(TRUE, [h EXCEPT !.numBytes = after], used, disk)
       [] m - n > NumClear(used) -> Fail(h, used, disk)
       [] m <= NumDirect -> ExpandDirect(h, used, disk, after)
       [] n <= NumDirect /\ m <= NumDirect + LevelNum -> Expand0to1(h, used, disk, after)
       [] m <= NumDirect + LevelNum -> Expand1to1(h, used, disk, after)
       [] n <= NumDirect /\ m <= MaxSectors -> Expand0to2(h, used, disk, after)
       [] n <= NumDirect + LevelNum /\ m <= MaxSectors -> Expand1to2(h, used, disk, after)
       [] m <= MaxSectors /\ SecondLevelOf(m) = SecondLevelOf(n) -> Expand2to2Same(h, used, disk, after)
       [] m <= MaxSectors -> Expand2to2New(h, used, disk, after)

-----------------------------------------------------------------------------
(* Reference definition, from the addressing scheme rather than the code: *)
(* the data and index sectors a file of n data sectors occupies.          *)

IndexedSectors(n) ==
  n + (IF n > NumDirect THEN 1 ELSE 0)
    + (IF n > NumDirect + LevelNum
       THEN 1 + DivRoundUp(n - NumDirect - LevelNum, LevelNum) ELSE 0)

=============================================================================
