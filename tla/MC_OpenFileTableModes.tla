----------------------- MODULE MC_OpenFileTableModes -----------------------
(***************************************************************************)
(* Two user workloads checked in one run.  mode picks one at boot and it   *)
(* never changes:                                                          *)
(*   "exec": up to three user threads started by Exec (no Fork), four      *)
(*           Open calls: threads open, read, close and exit in every       *)
(*           interleaving and the table of three file slots fills up;      *)
(*   "fork": threads that Exec and Fork, three Open calls, so a fork can   *)
(*           find the table too full to copy into.                         *)
(* Each workload is an instance of MC_OpenFileTable with its own variables.*)
(***************************************************************************)
CONSTANTS Files, NoFile

Modes == {"exec", "fork"}

VARIABLES mode,
          eSlot, eSt, eChild, eHeld, eOpens, eFault, eUsing,
          fSlot, fSt, fChild, fHeld, fOpens, fFault, fUsing

eVars == <<eSlot, eSt, eChild, eHeld, eOpens, eFault, eUsing>>
fVars == <<fSlot, fSt, fChild, fHeld, fOpens, fFault, fUsing>>

E == INSTANCE MC_OpenFileTable
       WITH Tids <- {0, 1, 2}, MainTid <- 0, MaxFileNumber <- 5, MaxOpens <- 4,
            slot <- eSlot, st <- eSt, child <- eChild, held <- eHeld,
            opens <- eOpens, fault <- eFault, using <- eUsing

F == INSTANCE MC_OpenFileTable
       WITH Tids <- {0, 1, 2}, MainTid <- 0, MaxFileNumber <- 5, MaxOpens <- 3,
            slot <- fSlot, st <- fSt, child <- fChild, held <- fHeld,
            opens <- fOpens, fault <- fFault, using <- fUsing

ModesInit == mode \in Modes /\ E!Init /\ F!Init

ModesNext ==
  \/ mode = "exec" /\ E!Next /\ E!ExecOnly /\ UNCHANGED <<mode, fVars>>
  \/ mode = "fork" /\ F!Next /\ UNCHANGED <<mode, eVars>>

ModesSpec == ModesInit /\ [][ModesNext]_<<mode, eVars, fVars>>

-----------------------------------------------------------------------------
\* Without Fork, every id a live thread's program holds names, through
\* GetFile's lookup, a valid slot of that thread for the file it opened
\* under that id: no other thread's Open, Close or Exit takes it away.
ExecHandlesResolve == mode = "exec" => E!HandlesResolve

\* Without Fork, CloseAll at Exit leaves no slot behind: every valid slot
\* belongs to a thread that has not finished.
ExecNoOrphanSlot == mode = "exec" => E!NoOrphanSlot

\* With Fork, CopyFile counts the free slots before it copies, so the
\* ASSERT(fd != -1) on each AddNewFile inside its loop never fails, even
\* when the table is nearly full.
ForkCopyNeverOverflows == mode = "fork" => F!CopyNeverOverflows

=============================================================================
