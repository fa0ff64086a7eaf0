--------------------------- MODULE MC_SynchDisk ---------------------------
(* The programs the threads run.                                          *)
EXTENDS SynchDisk

CONSTANTS t1, t2, t3, t4

\* Two readers of the file, one of which opens it first, a writer of its
\* data sector, and a thread removing it the way ConcurrencyTest does,
\* calling Remove until it succeeds.
MCProg == (t1 :> <<"Open", "Read", "Close">> @@ t2 :> <<"Read">>
           @@ t3 :> <<"Write">> @@ t4 :> <<"RemoveRetry">>)
=============================================================================
