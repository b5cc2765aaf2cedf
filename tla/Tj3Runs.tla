------------------------------ MODULE Tj3Runs ------------------------------
(***************************************************************************)
(* run_tj3() (tj3.c), as several diagnostics workers execute it at once: a *)
(* pipe for tj3's stderr, fork and exec, reading the pipe to its end, and  *)
(* waitpid().                                                              *)
(*                                                                         *)
(* The pipe's write end is an inheritable descriptor of the whole server   *)
(* process, so a child also gets the write ends that other workers have    *)
(* open when it is forked.  A pipe ends only when nobody holds its write   *)
(* end.  The kernel (pipes, processes) is modelled from how tj3.c uses it. *)
(***************************************************************************)
EXTENDS Integers

CONSTANTS Workers,       \* the diagnostics workers
          PipeSize,      \* chunks that fit into a pipe
          MaxOutput,     \* bound on the chunks that one tj3 writes
          Server         \* the server process, as holder of a descriptor

ASSUME Tj3RunsAssumption ==
    /\ PipeSize \in Nat \ {0}
    /\ MaxOutput \in Nat
    /\ Server \notin Workers

VARIABLES
    pc,        \* each worker: "idle", "piped", "forked", "drain" or "reap"
    child,     \* each worker's tj3: "none", "running" or "zombie"
    holders,   \* who has the write end of each worker's pipe open
    pipe,      \* chunks in each worker's pipe
    left,      \* chunks that each worker's tj3 is still to write
    total,     \* history: chunks that each worker's tj3 writes in all
    buf        \* chunks that read_fd_to_string() has read

procVars == <<child, holders, left, total>>
vars == <<pc, child, holders, pipe, left, total, buf>>

Init ==
    /\ pc = [w \in Workers |-> "idle"]
    /\ child = [w \in Workers |-> "none"]
    /\ holders = [w \in Workers |-> {}]
    /\ pipe = [w \in Workers |-> 0]
    /\ left = [w \in Workers |-> 0]
    /\ total = [w \in Workers |-> 0]
    /\ buf = [w \in Workers |-> 0]

-----------------------------------------------------------------------------
(* Faulty variants of definitions below, to show that the properties can   *)
(* fail: the child waited for before its pipe is drained or not at all, an *)
(* empty pipe taken for the end of the file.                               *)

CloseWriteEndReapsFirst(w) ==
    /\ pc[w] = "forked"
    /\ child[w] = "zombie"
    /\ pc' = [pc EXCEPT ![w] = "drain"]
    /\ holders' = [holders EXCEPT ![w] = @ \ {Server}]
    /\ UNCHANGED <<child, pipe, left, total, buf>>

ReapNever(w) ==
    /\ pc[w] = "reap"
    /\ pc' = [pc EXCEPT ![w] = "idle"]
    /\ UNCHANGED <<procVars, pipe, buf>>

AtEofWhenEmpty(w) == pipe[w] = 0

-----------------------------------------------------------------------------
(* The worker.                                                             *)

\* pipe(errpipe); when it fails run_tj3() returns at once.
OpenPipe(w) ==
    /\ pc[w] = "idle"
    /\ pc' = [pc EXCEPT ![w] = "piped"]
    /\ holders' = [holders EXCEPT ![w] = {Server}]
    /\ pipe' = [pipe EXCEPT ![w] = 0]
    /\ buf' = [buf EXCEPT ![w] = 0]
    /\ UNCHANGED <<child, left, total>>

\* fork() fails and both ends are closed; a tj3 that inherited the write end
\* of this pipe still has it open.
ForkFails(w) ==
    /\ pc[w] = "piped"
    /\ pc' = [pc EXCEPT ![w] = "idle"]
    /\ holders' = [holders EXCEPT ![w] = @ \ {Server}]
    /\ UNCHANGED <<child, pipe, left, total, buf>>

\* fork(): the child inherits every write end the server has open; n is what
\* tj3 will write (nothing, if chdir, the sandbox or exec fails).
Fork(w, n) ==
    /\ pc[w] = "piped"
    /\ pc' = [pc EXCEPT ![w] = "forked"]
    /\ child' = [child EXCEPT ![w] = "running"]
    /\ holders' = [v \in Workers |-> IF Server \in holders[v]
                                     THEN holders[v] \cup {w} ELSE holders[v]]
    /\ left' = [left EXCEPT ![w] = n]
    /\ total' = [total EXCEPT ![w] = n]
    /\ UNCHANGED <<pipe, buf>>

\* The parent's close(errpipe[1])
CloseWriteEnd(w) ==
    /\ pc[w] = "forked"
    /\ pc' = [pc EXCEPT ![w] = "drain"]
    /\ holders' = [holders EXCEPT ![w] = @ \ {Server}]
    /\ UNCHANGED <<child, pipe, left, total, buf>>

\* read_fd_to_string()
Read(w) ==
    /\ pc[w] = "drain"
    /\ pipe[w] > 0
    /\ pipe' = [pipe EXCEPT ![w] = @ - 1]
    /\ buf' = [buf EXCEPT ![w] = @ + 1]
    /\ UNCHANGED <<pc, procVars>>

\* read() returns 0
AtEof(w) == pipe[w] = 0 /\ holders[w] = {}

EndOfFile(w) ==
    /\ pc[w] = "drain"
    /\ AtEof(w)
    /\ pc' = [pc EXCEPT ![w] = "reap"]
    /\ UNCHANGED <<procVars, pipe, buf>>

\* waitpid()
Reap(w) ==
    /\ pc[w] = "reap"
    /\ child[w] = "zombie"
    /\ pc' = [pc EXCEPT ![w] = "idle"]
    /\ child' = [child EXCEPT ![w] = "none"]
    /\ UNCHANGED <<holders, pipe, left, total, buf>>

-----------------------------------------------------------------------------
(* The child: tj3 writes to its stderr and exits.                          *)

Write(w) ==
    /\ child[w] = "running"
    /\ left[w] > 0
    /\ pipe[w] < PipeSize
    /\ pipe' = [pipe EXCEPT ![w] = @ + 1]
    /\ left' = [left EXCEPT ![w] = @ - 1]
    /\ UNCHANGED <<pc, child, holders, total, buf>>

Exit(w) ==
    /\ child[w] = "running"
    /\ left[w] = 0
    /\ child' = [child EXCEPT ![w] = "zombie"]
    /\ holders' = [v \in Workers |-> holders[v] \ {w}]
    /\ UNCHANGED <<pc, pipe, left, total, buf>>

-----------------------------------------------------------------------------
WorkerStep(w) == \/ ForkFails(w) \/ \E n \in 0..MaxOutput : Fork(w, n)
                 \/ CloseWriteEnd(w) \/ Read(w) \/ EndOfFile(w) \/ Reap(w)

Next == \E w \in Workers : OpenPipe(w) \/ WorkerStep(w) \/ Write(w) \/ Exit(w)

SafeSpec == Init /\ [][Next]_vars

\* Threads keep running and tj3 writes its output; whether it then ends is
\* said in the properties.
Fairness == \A w \in Workers : WF_vars(WorkerStep(w)) /\ WF_vars(Write(w))
Spec == SafeSpec /\ Fairness

-----------------------------------------------------------------------------
(* Properties.                                                             *)

TypeOK ==
    /\ pc \in [Workers -> {"idle", "piped", "forked", "drain", "reap"}]
    /\ child \in [Workers -> {"none", "running", "zombie"}]
    /\ holders \in [Workers -> SUBSET (Workers \cup {Server})]
    /\ pipe \in [Workers -> 0..PipeSize]
    /\ left \in [Workers -> 0..MaxOutput]
    /\ total \in [Workers -> 0..MaxOutput]
    /\ buf \in [Workers -> 0..MaxOutput]

\* The buffer that parse_diagnostics() gets is the whole output of the
\* worker's own tj3, whichever descriptors leaked into other children.
OutputComplete == \A w \in Workers : pc[w] = "reap" => buf[w] = total[w]

\* A run that is over leaves nothing behind: a worker between runs has no
\* child, running or unreaped, the server has no write end open for it, and if
\* its pipe still has a holder, that is the running tj3 of another worker.
NothingLeftBehind ==
    \A w \in Workers : pc[w] = "idle" =>
        /\ child[w] = "none"
        /\ \A v \in holders[w] : v # w /\ v \in Workers /\ child[v] = "running"

\* The state is of its types and every run cleans up after itself.
RunsClean == TypeOK /\ NothingLeftBehind

\* Every run ends if every tj3 does, also one that writes more than a pipe
\* holds: the pipe is drained before the child is waited for.
RunsEnd == (\A w \in Workers : WF_vars(Exit(w)))
             => \A w \in Workers : (pc[w] # "idle") ~> (pc[w] = "idle")

\* diag_worker.h: "A slow project never delays another project's diagnostics":
\* a run ends if its own tj3 does.
SlowRunIsolated == \A w \in Workers : WF_vars(Exit(w)) => ((pc[w] # "idle") ~> (pc[w] = "idle"))
=============================================================================
