------------------------------ MODULE DirTree ------------------------------
(***************************************************************************)
(* The multi-level directories of filesys/filesys.cc (MULTI_LEVEL_DIR):    *)
(* Create of a file or, with size -1, of a directory; Remove of a name in  *)
(* the root; RemoveDir of a path; the path walk FindDirSector and the      *)
(* parser PathParser of filehdr.cc.  A directory is a file whose header    *)
(* has the extension Dir_Ext and whose data is a Directory table.          *)
(*                                                                         *)
(* The disk is abstracted to what these operations read and write: which  *)
(* sectors the bitmap marks used, the extension and data sectors of each   *)
(* header, and the Directory table that a FetchFrom of each header's file  *)
(* reads.  Each operation fetches, checks and writes back with no other    *)
(* thread running file-system code, so it is one step; SynchDisk models    *)
(* the interleavings of the disk layer.  The disk keeps its contents from  *)
(* one call to the next, so the calls come in any order.                   *)
(*                                                                         *)
(* Files are created with size 0 (the Create system call); the header      *)
(* tiers of a sized file are FileHeader's and FileStore's subject.         *)
(***************************************************************************)
EXTENDS Integers, Sequences, FiniteSets

CONSTANTS
  Names,           \* file and directory names (model values)
  Sep,             \* the separator '/'
  NumSectors,      \* sectors on the disk
  NumDirEntries,   \* capacity of a Directory table
  MapDataSectors,  \* data sectors of the bitmap file (FreeMapFileSize)
  DirDataSectors,  \* data sectors of a directory file (DirectoryFileSize)
  MaxDirDep,       \* MAX_DIR_DEP
  DirPaths,        \* paths the callers create directories at
  FilePaths        \* paths the callers create files at

Paths == DirPaths \cup FilePaths
Sectors == 0 .. NumSectors - 1
FreeMapSector == 0
DirectorySector == 1
PipeSector == 2
NoSector == -1
Exts == {"none", "meta", "dir", "file"}

\* A path is a sequence of names and separators, root-relative, with no
\* empty component.
WellFormed(p) ==
  /\ Len(p) % 2 = 1
  /\ \A i \in 1 .. Len(p) : (p[i] = Sep) <=> (i % 2 = 0)

ASSUME /\ Sep \notin Names
       /\ \A p \in Paths : p \in Seq(Names \cup {Sep}) /\ WellFormed(p)

VARIABLES
  used,     \* the bitmap: sectors marked used
  ext,      \* each header sector: Dir_Ext ("dir"), another extension, or none
  data,     \* each header sector: its data sectors
  entries   \* each header sector: the Directory table its file's data holds

vars == <<used, ext, data, entries>>

EmptyDir == [n \in Names |-> NoSector]

\* The file system as FileSystem(TRUE) formats it: headers of the bitmap,
\* the root directory and the pipe in sectors 0-2, then the data of the
\* bitmap and of the (empty) root directory in the next free sectors.
MapData == 3 .. 2 + MapDataSectors
RootData == 3 + MapDataSectors .. 2 + MapDataSectors + DirDataSectors

ASSUME NumSectors > 3 + MapDataSectors + DirDataSectors

Init ==
  /\ used = 0 .. 2 + MapDataSectors + DirDataSectors
  /\ ext = [s \in Sectors |-> IF s \in {FreeMapSector, DirectorySector, PipeSector}
                              THEN "meta" ELSE "none"]
  /\ data = [s \in Sectors |-> CASE s = FreeMapSector   -> MapData
                                 [] s = DirectorySector -> RootData
                                 [] OTHER               -> {}]
  /\ entries = [s \in Sectors |-> EmptyDir]

-----------------------------------------------------------------------------
(* PathParser: depth is the number of separators; DirArray the components *)
(* before the last (dirname, one basename at a time); Base the last.       *)

PathParser(p) ==
  LET comps == SelectSeq(p, LAMBDA x : x # Sep)
  IN [dirDep   |-> Len(p) - Len(comps),
      dirArray |-> SubSeq(comps, 1, Len(comps) - 1),
      base     |-> comps[Len(comps)]]

ASSUME \A p \in Paths : PathParser(p).dirDep <= MaxDirDep

\* Directory::Find, Add (fails when the table is full), Remove, IsEmpty.
DirFind(tbl, n) == tbl[n]
DirFull(tbl) == Cardinality({n \in Names : tbl[n] # NoSector}) >= NumDirEntries
DirIsEmpty(tbl) == \A n \in Names : tbl[n] = NoSector

\* FindDirSector: from the root, fetch the Directory of the current sector
\* and Find the next component; -1 as soon as one is missing.  Whether the
\* component is a directory is not looked at.
RECURSIVE Walk(_, _)
Walk(s, comps) ==
  IF comps = <<>> THEN s
  ELSE LET n == DirFind(entries[s], Head(comps))
       IN IF n = NoSector THEN NoSector ELSE Walk(n, Tail(comps))

FindDirSector(p) == Walk(DirectorySector, PathParser(p).dirArray)

\* Mutant: Find hands out sectors without testing their bit.
LowestIgnoringUsed(u, k) == {s \in Sectors : Cardinality({r \in Sectors : r < s}) < k}

\* BitMap::Find repeated k times: the k lowest clear sectors.
Lowest(u, k) == {s \in Sectors \ u : Cardinality({r \in Sectors \ u : r < s}) < k}

\* Free a header and its data (Deallocate and Clear(sector)) and drop its
\* name from the table of directory sector ds (Directory::Remove, WriteBack).
Delete(ds, name, s) ==
  /\ used' = used \ ({s} \cup data[s])
  /\ ext' = [ext EXCEPT ![s] = "none"]
  /\ data' = [data EXCEPT ![s] = {}]
  /\ entries' = [entries EXCEPT ![ds][name] = NoSector, ![s] = EmptyDir]

-----------------------------------------------------------------------------
(* The operations                                                          *)

\* Create(name, size), size 0 or -1 (isDir): the directory sector must be
\* found (ASSERT: Nachos aborts before writing anything); the base name
\* must be new, a header sector free, the table not full and Allocate must
\* find the data sectors.  Then the header gets its extension, a new
\* directory an empty table, and the table of the directory the path named
\* the new entry; all are written back with the bitmap.
Create(p, isDir) ==
  LET ds   == FindDirSector(p)
      name == PathParser(p).base
      k    == IF isDir THEN DirDataSectors ELSE 0
      hdr  == Lowest(used, 1)
  IN /\ ds # NoSector
     /\ DirFind(entries[ds], name) = NoSector
     /\ hdr # {}
     /\ ~DirFull(entries[ds])
     /\ Cardinality(Sectors \ used) - 1 >= k
     /\ \E h \in hdr :
          /\ used' = used \cup {h} \cup Lowest(used \cup {h}, k)
          /\ ext' = [ext EXCEPT ![h] = IF isDir THEN "dir" ELSE "file"]
          /\ data' = [data EXCEPT ![h] = Lowest(used \cup {h}, k)]
          /\ entries' = [entries EXCEPT ![h] = EmptyDir, ![ds][name] = h]

\* Remove(name): only a name of the root (depth 0); a directory must be
\* empty.  visitorCnt[sector] is 0: no other thread is reading or writing.
Remove(p) ==
  LET s == DirFind(entries[DirectorySector], p[1])
  IN /\ PathParser(p).dirDep = 0
     /\ s # NoSector
     /\ ext[s] = "dir" => DirIsEmpty(entries[s])
     /\ Delete(DirectorySector, p[1], s)

\* Mutant: RemoveDir without the IsEmpty check of a sub-directory.
RemoveDirNonEmpty(p) ==
  LET ds   == FindDirSector(p)
      name == PathParser(p).base
      s    == IF ds = NoSector THEN NoSector ELSE DirFind(entries[ds], name)
  IN /\ s # NoSector
     /\ Delete(ds, name, s)

\* RemoveDir(path): the directory FindDirSector finds, the base name in
\* its table, a directory must be empty; no visitor count is looked at.
RemoveDir(p) ==
  LET ds   == FindDirSector(p)
      name == PathParser(p).base
      s    == IF ds = NoSector THEN NoSector ELSE DirFind(entries[ds], name)
  IN /\ s # NoSector
     /\ ext[s] = "dir" => DirIsEmpty(entries[s])
     /\ Delete(ds, name, s)

\* A call that returns FALSE, or hits the ASSERT in Create, writes nothing
\* back: it is a stuttering step and not listed.
Next ==
  \/ \E p \in DirPaths : Create(p, TRUE)
  \/ \E p \in FilePaths : Create(p, FALSE)
  \/ \E p \in Paths : Remove(p) \/ RemoveDir(p)

Spec == Init /\ [][Next]_vars

-----------------------------------------------------------------------------
(* Properties                                                              *)

TypeOK ==
  /\ used \subseteq Sectors
  /\ ext \in [Sectors -> Exts]
  /\ data \in [Sectors -> SUBSET Sectors]
  /\ entries \in [Sectors -> [Names -> Sectors \cup {NoSector}]]

\* The headers a path walk can reach from the root through the tables of
\* the headers it passes.
Children(s) == {entries[s][n] : n \in Names} \ {NoSector}
RECURSIVE Closure(_)
Closure(S) ==
  LET next == S \cup UNION {Children(s) : s \in S}
  IN IF next = S THEN S ELSE Closure(next)
Reachable == Closure({DirectorySector})
Reserved == {FreeMapSector, DirectorySector, PipeSector} \cup MapData

\* The SectorBitmap invariant of the spec: a sector is marked used exactly
\* when it is reserved, or a header some path reaches, or data of one.
\* Create, Remove and RemoveDir each allocate or free a header, its data
\* and the entry naming it in one step; a freed directory that still had
\* entries, or an entry whose header was freed, breaks it.
SectorBitmap ==
  used = Reserved \cup Reachable \cup UNION {data[h] : h \in Reachable}

\* Each header a path reaches has one owner: it is named by exactly one
\* entry of one reachable table, and no two reachable headers share a
\* data sector or use a header sector as data.
SingleOwner ==
  /\ \A h \in Reachable \ {DirectorySector} :
       Cardinality({<<s, n>> \in Reachable \X Names : entries[s][n] = h}) = 1
  /\ \A h1, h2 \in Reachable :
       h1 # h2 => data[h1] \cap ({h2} \cup data[h2]) = {}

=============================================================================
