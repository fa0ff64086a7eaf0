--------------------------- MODULE AbstractBuffer ---------------------------
(***************************************************************************)
(* What threadtest.cc's buffers promise their threads: a stack of at most *)
(* BufLen elements.  Each producer puts its items in order, each consumer *)
(* takes the element on top into its hands and later lets it go.         *)
(***************************************************************************)
EXTENDS Integers, Sequences

CONSTANTS Producers, Consumers, Iters, BufLen, None

VARIABLES stack, out, next

Init ==
  /\ stack = <<>>
  /\ out = [c \in Consumers |-> None]
  /\ next = [p \in Producers |-> 1]

Put(p) ==
  /\ next[p] <= Iters[p]
  /\ Len(stack) < BufLen
  /\ stack' = Append(stack, <<p, next[p]>>)
  /\ next' = [next EXCEPT ![p] = @ + 1]
  /\ UNCHANGED out

Get(c) ==
  /\ out[c] = None
  /\ stack # <<>>
  /\ out' = [out EXCEPT ![c] = stack[Len(stack)]]
  /\ stack' = SubSeq(stack, 1, Len(stack) - 1)
  /\ UNCHANGED next

Drop(c) ==
  /\ out[c] # None
  /\ out' = [out EXCEPT ![c] = None]
  /\ UNCHANGED <<stack, next>>

Next ==
  \/ \E p \in Producers : Put(p)
  \/ \E c \in Consumers : Get(c) \/ Drop(c)

Spec == Init /\ [][Next]_<<stack, out, next>>

=============================================================================
