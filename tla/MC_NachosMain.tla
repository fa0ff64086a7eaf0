--------------------------- MODULE MC_NachosMain ---------------------------
(* The threads, programs and paths of the three tests, as model values.    *)
EXTENDS NachosMain, TLC

CONSTANTS p1, p2, c1, c2, t1, t2, t3, t4, d, e, f, sep

\* Lab3Test4_x forks two producers and two consumers whose loop counts
\* add up to the same number of items (7 + 3 = 2 + 8); here 2 + 1 = 1 + 2.
MCBufIters == (p1 :> 2 @@ p2 :> 1 @@ c1 :> 1 @@ c2 :> 2)

\* Two readers of the file, one of which opens it first, a writer of its
\* data sector, and a thread removing it the way ConcurrencyTest does,
\* calling Remove until it succeeds.
MCProg == (t1 :> <<"Open", "Read", "Close">> @@ t2 :> <<"Read">>
           @@ t3 :> <<"Write">> @@ t4 :> <<"RemoveRetry">>)

\* MakeDir-style callers: d and e are only ever directories and f only
\* ever a file, at the root and one and two levels down.
MCDirPaths == {<<d>>, <<e>>, <<d, sep, e>>}
MCFilePaths == {<<f>>, <<d, sep, f>>, <<d, sep, e, sep, f>>}
=============================================================================
