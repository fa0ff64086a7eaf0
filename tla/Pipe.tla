-------------------------------- MODULE Pipe --------------------------------
(***************************************************************************)
(* The pipe of filesys/filesys.cc and fstest.cc's PipeTest: three rounds  *)
(* of WritePipeTest (scanf a word, WritePipe it) and ReadPipeTest          *)
(* (ReadPipe into a buffer).  The pipe is the file whose header format    *)
(* puts in PipeSector, with no data.  WritePipe writes the word and its   *)
(* terminating NUL at the start of the file; a write past the end grows   *)
(* the file (OpenFile::WriteAt, not in this tree) and nothing shrinks it. *)
(* ReadPipe reads FileLength() bytes and returns the strlen of them.      *)
(***************************************************************************)
EXTENDS Integers, Sequences

CONSTANTS
  Chars,       \* the characters a word is made of (model values)
  NUL,         \* '\0'
  MaxLen,      \* MAXLEN: the words scanf reads are at most this long
  PipeRounds   \* the iterations of PipeTest's loop

ASSUME NUL \notin Chars /\ MaxLen \in Nat \ {0} /\ PipeRounds \in Nat

\* The words scanf("%s") can return within the buffer: non-empty.
Words == UNION {[1 .. n -> Chars] : n \in 1 .. MaxLen}

VARIABLES
  pipe,    \* the pipe file's bytes
  said,    \* the word WritePipeTest wrote last (none before the first)
  heard,   \* the string ReadPipe returned last
  pround,  \* iterations of PipeTest's loop begun
  pstep    \* "write" or "read": the call the loop makes next

pipeVars == <<pipe, said, heard, pround, pstep>>

Init ==
  /\ pipe = <<>>
  /\ said = <<>>
  /\ heard = <<>>
  /\ pround = 0
  /\ pstep = "write"

\* Mutant: WritePipe writes length bytes, without the terminator.
PipeBytesNoNul(w) == w

\* data[length] = '\0'; pipe->Write(data, length+1).
PipeBytes(w) == w \o <<NUL>>

\* OpenFile::Write at position 0 of a fresh OpenFile: the bytes replace the
\* start of the file and extend it if they are longer.
Overwrite(f, b) == b \o SubSeq(f, Len(b) + 1, Len(f))

\* The prefix of s up to its first NUL (strlen, and the string it ends).
RECURSIVE Strz(_)
Strz(s) == IF s = <<>> \/ Head(s) = NUL THEN <<>> ELSE <<Head(s)>> \o Strz(Tail(s))

\* WritePipeTest: scanf a word, WritePipe(data, strlen(data)).
WritePipe(w) ==
  /\ pstep = "write"
  /\ pround < PipeRounds
  /\ pipe' = Overwrite(pipe, PipeBytes(w))
  /\ said' = w
  /\ pround' = pround + 1
  /\ pstep' = "read"
  /\ UNCHANGED heard

\* ReadPipeTest: ReadPipe reads FileLength() bytes, puts '\0' after them,
\* and returns strlen.
ReadPipe ==
  /\ pstep = "read"
  /\ heard' = Strz(pipe \o <<NUL>>)
  /\ pstep' = "write"
  /\ UNCHANGED <<pipe, said, pround>>

PipeNext == (\E w \in Words : WritePipe(w)) \/ ReadPipe

PipeFinished == pround = PipeRounds /\ pstep = "write"

-----------------------------------------------------------------------------
(* Properties                                                              *)

\* ReadPipe returns the word of the last WritePipe, though a longer word
\* written before it is still in the file: WritePipe's NUL ends the string.
PipeReadsLast == pstep = "write" => heard = said

=============================================================================
