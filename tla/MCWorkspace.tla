---------------------------- MODULE MCWorkspace ----------------------------
(* Instances of Workspace for TLC: a project root "p", a second root "q"   *)
(* and a library "l".  A text is written as the list of files it includes; *)
(* "under" puts the library below the task of the including project.       *)
EXTENDS Workspace

CONSTANT Parts  \* the situations of the run, chosen before the first step
VARIABLE part

MCUri  == {"p", "q", "l"}
MCText == {"none", "edited", "lib", "under", "cycle", "both"}
MCIncludes ==
  LET inc(to, prefix) == [to |-> to, prefix |-> prefix] IN
  [t \in MCText |-> CASE t = "lib"   -> <<inc("l", <<>>)>>
                      [] t = "under" -> <<inc("l", <<"p">>)>>
                      [] t = "cycle" -> <<inc("p", <<>>), inc("q", <<>>)>>
                      [] t = "both"  -> <<inc("l", <<>>), inc("q", <<>>), inc("l", <<>>)>>
                      [] OTHER       -> <<>>]

\* Include directives change, no prefixes: cycles, diamonds, two roots.
MCGraph == [u \in MCUri |-> CASE u = "p" -> {"none", "both"}
                              [] u = "q" -> {"none", "lib"}
                              [] u = "l" -> {"none", "cycle"}]
\* The root always includes the library, below its task or at top level.
MCStable == [u \in MCUri |-> CASE u = "p" -> {"under", "lib"}
                               [] u = "q" -> {"none", "edited"}
                               [] u = "l" -> {"none", "edited"}]
\* The root includes the library below its task, or not at all.
MCDropped == [MCStable EXCEPT !["p"] = {"under", "none"}]
\* Files and buffers differ; the library comes and goes.
MCFiles == [u \in MCUri |-> CASE u = "p" -> {"none", "lib"}
                              [] u = "l" -> {"none", "edited"}
                              [] u = "q" -> {"none"}]

MCDiskGraph    == [u \in MCUri |-> "none"]
MCDiskStable   == [u \in MCUri |-> IF u = "p" THEN "under" ELSE "none"]
MCOneRoot      == <<"p">>
MCCcFiles      == {<<"p">>, <<"p", "q">>}
MCCcGrows      == {<<"p", "q">>}

(***************************************************************************)
(* Situations.  "files", given by the cfg: buffers and files diverge, files *)
(* vanish and come back, their events arrive late.  "disk": two file events *)
(* in flight, renames included.  "graph": diamonds, cycles and two roots,   *)
(* edited in any order, while entries of compile_commands.json come and go. *)
(* "stable": the include stays and its prefix changes, the file gains an    *)
(* entry or does not parse for a while.                                     *)
(***************************************************************************)
Disk   == INSTANCE Workspace WITH Env <- {"write", "delete", "rename"}, MaxEvents <- 2
Graph  == INSTANCE Workspace WITH TextOf <- MCGraph, CcFiles <- MCCcFiles, Env <- {"edit", "cc", "ccbad"}
Stable == INSTANCE Workspace WITH TextOf <- MCStable, CcFiles <- MCCcGrows, Disk0 <- MCDiskStable,
                                  Env <- {"edit", "write", "cc", "ccbad"}

MCInit == /\ part \in Parts
          /\ IF part = "stable" THEN Stable!Init ELSE Init
MCNext == \/ part = "files" /\ Next /\ UNCHANGED part
          \/ part = "disk" /\ Disk!Next /\ UNCHANGED part
          \/ part = "graph" /\ Graph!Next /\ UNCHANGED part
          \/ part = "stable" /\ Stable!Next /\ UNCHANGED part
MCSpec == MCInit /\ [][MCNext]_<<part, vars>>

\* State kept from one handler to the next, where it follows its source.  An
\* included document has the prefix of a directive that names it, also when the
\* directive's prefix changes (follow_includes); the tracked entries of
\* compile_commands.json are roots, also after a phase in which it does not parse
\* (load_compile_entries), as long as no file is deleted; and g_cc_status is that
\* of compile_commands.json while it is not removed
\* (maybe_reload_compile_commands).  Where the code keeps state that has lost its
\* source, OrphanUnprefixed and RootsFromFile are refuted by runs of their own.
DerivedStateCurrent ==
  /\ IncludedPrefix
  /\ part \in {"graph", "stable"} => EntriesAreRoots
  /\ part # "files" => StatusTruthful
=============================================================================
