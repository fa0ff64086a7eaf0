------------------------- MODULE AbstractFileStore -------------------------
(***************************************************************************)
(* What the file store promises, with no index blocks and no bitmap: a    *)
(* named file is a byte length and the sequence of distinct sectors that  *)
(* hold its data, one sector per SectorSize bytes.  Growing a file keeps  *)
(* every existing byte where it was (the old sectors are a prefix of the  *)
(* new ones) and takes only sectors no other file holds.                  *)
(***************************************************************************)
EXTENDS Integers
LOCAL INSTANCE Sequences
LOCAL INSTANCE FiniteSets
LOCAL INSTANCE SequencesExt

CONSTANTS Names, Sectors, SectorSize, NoFile

VARIABLE files

HeldByOthers(n) ==
  UNION {ToSet(files[m].secs) : m \in {m \in Names \ {n} : files[m] # NoFile}}

\* f has one distinct sector of the disk per SectorSize bytes, none of them
\* held by another file.
Shaped(n, f) ==
  /\ ToSet(f.secs) \subseteq Sectors
  /\ Cardinality(ToSet(f.secs)) = Len(f.secs)
  /\ Len(f.secs) = (f.len + SectorSize - 1) \div SectorSize
  /\ ToSet(f.secs) \cap HeldByOthers(n) = {}

OthersUnchanged(n) == \A m \in Names \ {n} : files'[m] = files[m]

Create(n) ==
  /\ files[n] = NoFile
  /\ files'[n] # NoFile
  /\ Shaped(n, files'[n])
  /\ OthersUnchanged(n)

Grow(n) ==
  /\ files[n] # NoFile
  /\ files'[n] # NoFile
  /\ files'[n].len > files[n].len
  /\ IsPrefix(files[n].secs, files'[n].secs)
  /\ Shaped(n, files'[n])
  /\ OthersUnchanged(n)

Delete(n) ==
  /\ files[n] # NoFile
  /\ files' = [files EXCEPT ![n] = NoFile]

Init == files = [n \in Names |-> NoFile]

Next == \E n \in Names : Create(n) \/ Grow(n) \/ Delete(n)

Spec == Init /\ [][Next]_files

=============================================================================
