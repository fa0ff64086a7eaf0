----------------------------- MODULE FileStore -----------------------------
(***************************************************************************)
(* The file system of filesys/filesys.cc (MULTI_LEVEL_DIR build, names in *)
(* the root directory) run by one thread: format, Create, Remove, and the *)
(* growth of a file by a write past its end.  Each operation fetches the  *)
(* free map, works on the in-memory copy, and writes the bitmap, the      *)
(* directory and the header back only when every step succeeded; a       *)
(* failing operation changes nothing, so its early returns are guards.    *)
(***************************************************************************)
EXTENDS FileHeader
LOCAL INSTANCE FiniteSets

CONSTANTS
  Names,              \* file names
  NumDirEntries,      \* directory capacity
  MaxBytes,           \* bound on a file's length in the model
  CreateSizes,        \* the initial sizes callers pass to Create
  WriteSizes,         \* the byte counts a write past the end may add
  FreeMapFileSize,    \* NumSectors / BitsInByte
  DirectoryFileSize,  \* sizeof(DirectoryEntry) * NumDirEntries
  NoFile              \* absent file in the abstract store

ASSUME /\ NumDirEntries \in Nat \ {0}
       /\ MaxBytes \in Nat
       /\ CreateSizes \subseteq 0 .. MaxBytes
       /\ WriteSizes \subseteq Nat \ {0}
       /\ DivRoundUp(MaxBytes, SectorSize) <= MaxSectors

VARIABLES
  dir,    \* directory: name -> header sector, NoSector if absent
  hdr,    \* header of each named file, as stored in its header sector
  used,   \* the free map on disk: the set of used sectors
  disk    \* every sector's contents read as an index table

vars == <<dir, hdr, used, disk>>

FreeMapSector == 0
DirectorySector == 1
PipeSector == 2

-----------------------------------------------------------------------------
(* FileSystem::FileSystem(format = TRUE): mark the three well-known header *)
(* sectors, then allocate the bitmap file, the directory file and the     *)
(* empty pipe file (each ASSERTed to succeed).                             *)

FormatSteps ==
  LET m == Allocate(JunkHeader, {FreeMapSector, DirectorySector, PipeSector},
                    [s \in Sectors |-> JunkTable], FreeMapFileSize)
      d == Allocate(JunkHeader, m.used, m.disk, DirectoryFileSize)
      p == Allocate(JunkHeader, d.used, d.disk, 0)
  IN <<m, d, p>>

ASSUME \A i \in 1 .. 3 : FormatSteps[i].ok

Formatted == FormatSteps[3]

\* Sectors of the metadata: the three headers and the data and index
\* sectors of the bitmap and directory files (the pipe file is empty).
\* Format's Find calls take the lowest clear sectors one after another, so
\* they are the sectors from 0 up; the ASSUME checks this against the
\* format steps once, and the invariants use the closed form.
MetaSectors ==
  0 .. 2 + IndexedSectors(DivRoundUp(FreeMapFileSize, SectorSize))
         + IndexedSectors(DivRoundUp(DirectoryFileSize, SectorSize))

ASSUME /\ MetaSectors = {FreeMapSector, DirectorySector, PipeSector}
                         \cup UNION {Referenced(FormatSteps[i].hdr, Formatted.disk) : i \in 1 .. 3}
       /\ MetaSectors = Formatted.used

Init ==
  /\ dir = [n \in Names |-> NoSector]
  /\ hdr = [n \in Names |-> JunkHeader]
  /\ used = Formatted.used
  /\ disk = Formatted.disk

-----------------------------------------------------------------------------

Live == {n \in Names : dir[n] # NoSector}

\* The header sector of n and every sector its header references.
FileSectors(n) == {dir[n]} \cup Referenced(hdr[n], disk)

\* FileSystem::Create: name not in the directory, a free header sector,
\* a free directory entry, and Allocate succeeding on the bitmap that
\* already has the header sector marked.
Create(name, initialSize) ==
  LET sector == FindFirst(used)
      r == Allocate(JunkHeader, used \cup {sector}, disk, initialSize)
  IN /\ dir[name] = NoSector
     /\ sector # NoSector
     /\ Cardinality(Live) < NumDirEntries
     /\ r.ok
     /\ dir' = [dir EXCEPT ![name] = sector]
     /\ hdr' = [hdr EXCEPT ![name] = r.hdr]
     /\ used' = r.used
     /\ disk' = r.disk

\* The disk with the contents of the sectors in fs forgotten.
Forget(d, fs) == [s \in Sectors |-> IF s \in fs THEN JunkTable ELSE d[s]]

\* Mutant: the header sector is not cleared in the free map.
RemoveKeepHeader(name) ==
  LET d == Deallocate(hdr[name], used, disk)
  IN /\ dir[name] # NoSector
     /\ d.ok
     /\ used' = d.used
     /\ dir' = [dir EXCEPT ![name] = NoSector]
     /\ hdr' = [hdr EXCEPT ![name] = JunkHeader]
     /\ disk' = Forget(disk, FileSectors(name))

\* FileSystem::Remove: Deallocate the data and index sectors (each Clear
\* ASSERTs the bit was set), clear the header sector, drop the entry.
\* The freed sectors keep their bytes on disk, but Allocate and
\* ExpandFileSize write every index block whole before linking it, so
\* those bytes are never read again: the model forgets them.
Remove(name) ==
  LET sector == dir[name]
      d == Deallocate(hdr[name], used, disk)
  IN /\ sector # NoSector
     /\ d.ok
     /\ used' = d.used \ {sector}
     /\ dir' = [dir EXCEPT ![name] = NoSector]
     /\ hdr' = [hdr EXCEPT ![name] = JunkHeader]
     /\ disk' = Forget(disk, FileSectors(name))

\* OpenFile::WriteAt past the end of the file: ExpandFileSize on the
\* fetched bitmap; on success the header and the bitmap are written back.
Write(name, bytes) ==
  LET r == ExpandFileSize(hdr[name], used, disk, bytes)
  IN /\ dir[name] # NoSector
     /\ r.ok
     /\ hdr' = [hdr EXCEPT ![name] = r.hdr]
     /\ used' = r.used
     /\ disk' = r.disk
     /\ UNCHANGED dir

Next ==
  \E n \in Names :
    \/ \E size \in CreateSizes : Create(n, size)
    \/ Remove(n)
    \/ \E bytes \in {b \in WriteSizes : hdr[n].numBytes + b <= MaxBytes} : Write(n, bytes)

Spec == Init /\ [][Next]_vars

-----------------------------------------------------------------------------
(* Properties                                                              *)

TypeOK ==
  /\ dir \in [Names -> Sectors \cup {NoSector}]
  /\ hdr \in [Names -> Header]
  /\ used \subseteq Sectors
  /\ disk \in [Sectors -> Table]

\* The bitmap invariant of the design: after any sequence of creates,
\* removes and writes, every live header references only real sectors,
\* each at most once; no sector belongs to two files or to a file and the
\* metadata; and a sector is marked used exactly when it is metadata or
\* belongs to a live file (no leak, no sector in use but clear).
SectorOwnership ==
  /\ \A n \in Live : WellFormed(hdr[n], disk) /\ dir[n] \notin Referenced(hdr[n], disk)
  /\ \A m, n \in Live : m # n => FileSectors(m) \cap FileSectors(n) = {}
  /\ \A n \in Live : FileSectors(n) \cap MetaSectors = {}
  /\ used = MetaSectors \cup UNION {FileSectors(n) : n \in Live}

\* Allocate and ExpandFileSize succeed exactly when the free map has room
\* for the new data sectors and the index blocks the new size needs
\* (checked on the bitmap of every reachable state, for every Create size
\* and every write the model can ask for).
FitsIffSpace ==
  /\ \A size \in CreateSizes :
       Allocate(JunkHeader, used, disk, size).ok
         <=> IndexedSectors(DivRoundUp(size, SectorSize)) <= Cardinality(Sectors \ used)
  /\ \A n \in Live : \A bytes \in {b \in WriteSizes : hdr[n].numBytes + b <= MaxBytes} :
       ExpandFileSize(hdr[n], used, disk, bytes).ok
         <=> IndexedSectors(DivRoundUp(hdr[n].numBytes + bytes, SectorSize))
               - IndexedSectors(hdr[n].numSectors) <= Cardinality(Sectors \ used)

\* Refinement: seen through ByteToSector, the headers implement the
\* abstract store, so a write that grows a file never moves a byte that
\* was already in it and never hands out a sector another file holds.
AbsFiles ==
  [n \in Names |-> IF dir[n] = NoSector THEN NoFile
                   ELSE [len |-> hdr[n].numBytes, secs |-> LogicalSectors(hdr[n], disk)]]

Abs == INSTANCE AbstractFileStore WITH files <- AbsFiles

AbsSpec == Abs!Spec

=============================================================================
