------------------------- MODULE MC_FileStoreTiers -------------------------
(***************************************************************************)
(* Two disks checked in one run.  tier picks one of them at boot and it    *)
(* never changes:                                                          *)
(*   "single": NumDirect 2, LevelNum 2, SectorSize 2, 16 sectors, creates  *)
(*             of 0-8 bytes and writes of 1-8 bytes, so files stay in the  *)
(*             direct and single-indirect tiers and two full files do not  *)
(*             fit: Create and Write fail for lack of space;               *)
(*   "double": NumDirect 1, LevelNum 2, SectorSize 1, 36 sectors, files    *)
(*             grown by 1- and 3-byte writes through every tier up to the  *)
(*             largest size the header addresses, with room to spare: each *)
(*             ExpandFileSize branch succeeds.                             *)
(* Each disk is an instance of MC_FileStore with its own variables.        *)
(***************************************************************************)
EXTENDS Naturals

CONSTANTS Junk, NoFile, Names

Tiers == {"single", "double"}

VARIABLES tier,
          sDir, sHdr, sUsed, sDisk, sRemoves,
          dDir, dHdr, dUsed, dDisk, dRemoves

sVars == <<sDir, sHdr, sUsed, sDisk, sRemoves>>
dVars == <<dDir, dHdr, dUsed, dDisk, dRemoves>>

S == INSTANCE MC_FileStore
       WITH SectorSize <- 2, NumDirect <- 2, LevelNum <- 2, NumSectors <- 16,
            NumDirEntries <- 2, MaxBytes <- 8, MaxRemoves <- 1, MaxTotalBytes <- 16,
            CreateSizes <- 0 .. 8, WriteSizes <- 1 .. 8,
            FreeMapFileSize <- 16 \div 8, DirectoryFileSize <- 2 * 2,
            dir <- sDir, hdr <- sHdr, used <- sUsed, disk <- sDisk, removes <- sRemoves

D == INSTANCE MC_FileStore
       WITH SectorSize <- 1, NumDirect <- 1, LevelNum <- 2, NumSectors <- 36,
            NumDirEntries <- 2, MaxBytes <- 6, MaxRemoves <- 1, MaxTotalBytes <- 7,
            CreateSizes <- {0}, WriteSizes <- {1, 3},
            FreeMapFileSize <- 36 \div 8, DirectoryFileSize <- 2 * 2,
            dir <- dDir, hdr <- dHdr, used <- dUsed, disk <- dDisk, removes <- dRemoves

TiersInit == tier \in Tiers /\ S!MCInit /\ D!MCInit

TiersNext ==
  \/ tier = "single" /\ S!MCNext /\ UNCHANGED <<tier, dVars>>
  \/ tier = "double" /\ D!MCNext /\ UNCHANGED <<tier, sVars>>

TiersSpec == TiersInit /\ [][TiersNext]_<<tier, sVars, dVars>>

\* The state constraints of each disk's bounds.
TiersBound ==
  /\ tier = "single" => S!RemoveBound
  /\ tier = "double" => D!RemoveBound /\ D!TotalBound

-----------------------------------------------------------------------------
\* On either disk, after any sequence of Create, Remove and writes past the
\* end (FileSystem::Create, Remove, ExpandFileSize), the bitmap is exactly
\* the metadata plus the live files' sectors and no sector has two owners.
TierSectorOwnership ==
  /\ tier = "single" => S!SectorOwnership
  /\ tier = "double" => D!SectorOwnership

\* On the disk without room for two full files, FileHeader::Allocate and
\* ExpandFileSize succeed exactly when the free map holds the sectors and
\* index blocks of the new size.
SingleFitsIffSpace == tier = "single" => S!FitsIffSpace

\* On either disk, the header's index (ByteToSector through every tier)
\* implements the abstract store of named byte sequences.  The disk that
\* was not booted keeps its initial state, which its AbsSpec allows.
TierAbsSpec == S!AbsSpec /\ D!AbsSpec

=============================================================================
