--------------------------- MODULE Tj3RunsProofs ---------------------------
(***************************************************************************)
(* For any number of workers, any pipe size and any output: what run_tj3() *)
(* hands to parse_diagnostics() is all that the worker's own tj3 wrote,    *)
(* and a run that is over leaves neither a process nor an open descriptor. *)
(*                                                                         *)
(* The argument: as long as its tj3 runs, a worker's pipe has a holder     *)
(* (tj3 itself), so the end of the file means that tj3 has exited, and it  *)
(* exits with nothing left to write; meanwhile what tj3 is still to write, *)
(* what is in the pipe and what was read add up to its output.             *)
(***************************************************************************)
EXTENDS Tj3Runs, TLAPS

\* The server has a pipe's write end open from pipe() to its close().
ServerEnd(w) == Server \in holders[w] <=> pc[w] \in {"piped", "forked"}

\* A worker has a child from fork() to waitpid(), gone when it is waited for.
ChildKnown(w) == /\ child[w] = "none" <=> pc[w] \in {"idle", "piped"}
                 /\ pc[w] = "reap" => child[w] = "zombie"

\* A running tj3 has its own stderr open, and only running ones hold a pipe.
HoldersRun(w) ==
    /\ child[w] = "running" => w \in holders[w]
    /\ \A v \in holders[w] : v # Server => child[v] = "running"

\* Nothing of tj3's output is lost or made up on its way.
Conserved(w) ==
    /\ pc[w] = "piped" => buf[w] = 0 /\ pipe[w] = 0
    /\ pc[w] \in {"forked", "drain", "reap"} => buf[w] + pipe[w] + left[w] = total[w]
    /\ child[w] = "zombie" => left[w] = 0
    /\ pc[w] = "reap" => pipe[w] = 0

RunInv ==
    /\ TypeOK
    /\ \A w \in Workers : ServerEnd(w) /\ ChildKnown(w) /\ HoldersRun(w) /\ Conserved(w)

-----------------------------------------------------------------------------
\* Each worker starts without a pipe and without a child.
LEMMA InitRuns == Init => RunInv
  BY Tj3RunsAssumption
     DEF Init, RunInv, TypeOK, ServerEnd, ChildKnown, HoldersRun, Conserved

\* pipe(): a worker without a child gets an empty pipe and an empty buffer.
LEMMA OpenPipeRuns ==
  ASSUME RunInv, NEW w \in Workers, OpenPipe(w) PROVE RunInv'
  BY Tj3RunsAssumption
     DEF RunInv, TypeOK, ServerEnd, ChildKnown, HoldersRun, Conserved, OpenPipe

\* fork() fails: the server's descriptor is closed, no child was made.
LEMMA ForkFailsRuns ==
  ASSUME RunInv, NEW w \in Workers, ForkFails(w) PROVE RunInv'
  BY Tj3RunsAssumption
     DEF RunInv, TypeOK, ServerEnd, ChildKnown, HoldersRun, Conserved, ForkFails

\* fork(): the child holds every pipe that the server holds, so its own too.
LEMMA ForkRuns ==
  ASSUME RunInv, NEW w \in Workers, NEW n \in 0..MaxOutput, Fork(w, n) PROVE RunInv'
  BY Tj3RunsAssumption
     DEF RunInv, TypeOK, ServerEnd, ChildKnown, HoldersRun, Conserved, Fork

\* close(): the server is never taken for a worker's tj3.
LEMMA CloseWriteEndRuns ==
  ASSUME RunInv, NEW w \in Workers, CloseWriteEnd(w) PROVE RunInv'
  BY Tj3RunsAssumption
     DEF RunInv, TypeOK, ServerEnd, ChildKnown, HoldersRun, Conserved, CloseWriteEnd

\* read(): a chunk moves from the pipe to the buffer.
LEMMA ReadRuns ==
  ASSUME RunInv, NEW w \in Workers, Read(w) PROVE RunInv'
  BY Tj3RunsAssumption
     DEF RunInv, TypeOK, ServerEnd, ChildKnown, HoldersRun, Conserved, Read, procVars

\* read() returns 0: nobody holds the pipe, so the worker's own tj3 has exited.
LEMMA EndOfFileRuns ==
  ASSUME RunInv, NEW w \in Workers, EndOfFile(w) PROVE RunInv'
  BY Tj3RunsAssumption
     DEF RunInv, TypeOK, ServerEnd, ChildKnown, HoldersRun, Conserved, EndOfFile, AtEof,
         procVars

\* waitpid(): only an exited child is reaped.
LEMMA ReapRuns ==
  ASSUME RunInv, NEW w \in Workers, Reap(w) PROVE RunInv'
  BY Tj3RunsAssumption
     DEF RunInv, TypeOK, ServerEnd, ChildKnown, HoldersRun, Conserved, Reap

\* tj3 writes: a chunk moves from its output to the pipe.
LEMMA WriteRuns ==
  ASSUME RunInv, NEW w \in Workers, Write(w) PROVE RunInv'
  BY Tj3RunsAssumption
     DEF RunInv, TypeOK, ServerEnd, ChildKnown, HoldersRun, Conserved, Write

\* tj3 exits: all that it inherited is closed.
LEMMA ExitRuns ==
  ASSUME RunInv, NEW w \in Workers, Exit(w) PROVE RunInv'
  BY Tj3RunsAssumption
     DEF RunInv, TypeOK, ServerEnd, ChildKnown, HoldersRun, Conserved, Exit

-----------------------------------------------------------------------------
\* The invariant holds in every state of every behaviour of run_tj3().
THEOREM RunsInvariance == SafeSpec => []RunInv
<1>1. Init => RunInv
  BY InitRuns
<1>2. RunInv /\ [Next]_vars => RunInv'
  <2>1. ASSUME RunInv, UNCHANGED vars PROVE RunInv'
    BY <2>1 DEF RunInv, TypeOK, ServerEnd, ChildKnown, HoldersRun, Conserved, vars
  <2>2. ASSUME RunInv, NEW w \in Workers, OpenPipe(w) \/ WorkerStep(w) \/ Write(w) \/ Exit(w)
        PROVE RunInv'
    BY <2>2, OpenPipeRuns, ForkFailsRuns, ForkRuns, CloseWriteEndRuns, ReadRuns,
       EndOfFileRuns, ReapRuns, WriteRuns, ExitRuns DEF WorkerStep
  <2>3. QED
    BY <2>1, <2>2 DEF Next
<1>3. QED
  BY <1>1, <1>2, PTL DEF SafeSpec

\* OutputComplete, for any number of workers: when read_fd_to_string() returns,
\* its buffer is the whole output of the worker's own tj3, although the write
\* ends of other workers' pipes leak into that tj3 and its own into theirs.
THEOREM OutputCompleteAlways == SafeSpec => []OutputComplete
<1>1. RunInv => OutputComplete
  BY Tj3RunsAssumption DEF RunInv, TypeOK, ChildKnown, Conserved, OutputComplete
<1>2. QED
  BY <1>1, RunsInvariance, PTL

\* RunsClean, for any number of workers: the state is of its types, and a run
\* that run_tj3() has left has no child and no descriptor open in the server,
\* whether fork() failed or tj3 ran to its end.
THEOREM RunsCleanAlways == SafeSpec => []RunsClean
<1>1. RunInv => RunsClean
  BY Tj3RunsAssumption
     DEF RunInv, TypeOK, ServerEnd, ChildKnown, HoldersRun, RunsClean, NothingLeftBehind
<1>2. QED
  BY <1>1, RunsInvariance, PTL
=============================================================================
