---------------------------- MODULE MC_FileStore ----------------------------
(* Model-checking instance of FileStore: the derived sizes of the format, *)
(* and a count of removes that bounds how fragmented the free map gets.   *)
EXTENDS FileStore, FiniteSets, Functions

BitsInByte == 8

MCFreeMapFileSize == NumSectors \div BitsInByte

\* sizeof(DirectoryEntry) scaled to the model: two bytes per entry.
MCDirectoryFileSize == 2 * NumDirEntries

\* Bound on the number of Remove steps explored (a state constraint): each
\* remove leaves holes in the free map that later allocations fill.
CONSTANT MaxRemoves

VARIABLE removes

MCInit == Init /\ removes = 0

MCNext ==
  /\ Next
  /\ removes' = removes + Cardinality({n \in Names : dir[n] # NoSector /\ dir'[n] = NoSector})

MCSpec == MCInit /\ [][MCNext]_<<vars, removes>>

RemoveBound == removes <= MaxRemoves

\* Bound on the bytes held by all live files together (a state
\* constraint): one file can reach the double tier while the other stays
\* small, and their sectors still interleave on the disk.
CONSTANT MaxTotalBytes

TotalBound ==
  FoldFunctionOnSet(LAMBDA x, acc : x + acc, 0, [n \in Names |-> hdr[n].numBytes], Live)
    <= MaxTotalBytes

=============================================================================
