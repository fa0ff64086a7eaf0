------------------------- MODULE MC_OpenFileTable -------------------------
(* Model-checking instance of OpenFileTable. *)
EXTENDS OpenFileTable

\* Thread identifiers: the main thread and the threads it may create.
MCTids == {0, 1, 2}

\* For runs of user programs that never call Fork, only Exec: no step
\* takes a thread into ForkHandler.
ExecOnly == \A t \in Tids : st'[t] = "forking" => st[t] = "forking"

ExecSpec == Init /\ [][Next /\ ExecOnly]_vars

=============================================================================
