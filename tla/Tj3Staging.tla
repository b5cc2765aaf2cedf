----------------------------- MODULE Tj3Staging -----------------------------
(* tj3_collect_project() around the run of tj3 itself (module Tj3Runs): a  *)
(* project's documents are written to a temporary directory, tj3 runs      *)
(* there, and the lines of its stderr become diagnostics of the documents. *)
(*                                                                         *)
(* A path is the sequence of its components.  A line of stderr is a        *)
(* sequence of atoms: a path, ":", a number, the markers "Error" and       *)
(* "Warning" (for ": Error: " and ": Warning: ") and "text".               *)
EXTENDS Integers, Sequences, FiniteSets, SequencesExt

CONSTANTS
  Docs,       \* documents of the snapshot
  PathOf,     \* per document: its absolute path, <<>> if the URI names none; no
              \* two documents have the same
  Refs,       \* relative paths that include statements give
  Messages,   \* texts of tj3's messages, as sequences of atoms
  LineNos,    \* line numbers that tj3 reports
  MaxLines    \* bound: lines of stderr

VARIABLES
  phase,      \* "idle", "staged", "running" or "done"
  landlock,   \* whether the kernel offers Landlock
  members,    \* the project's documents that have a path
  staged,     \* those whose text was written
  tmp,        \* whether the temporary directory exists
  real,       \* real_tmp: its canonical path, <<>> for NULL
  mode,       \* of the run
  child,      \* tj3: [reports, confined]
  lines,      \* stderr so far: [atoms, truth], the latter what tj3 meant
  out,        \* diagnostics collected: [doc, line, severity]
  escaped     \* whether a report was written outside the directory

vars == <<phase, landlock, members, staged, tmp, real, mode, child, lines, out, escaped>>

(***************************************************************************)
(* Paths                                                                   *)
(***************************************************************************)
TmpDir == <<"tmp", "tjlsp">>
RealTmp == <<"private", "tmp", "tjlsp">>

Least(S) == CHOOSE i \in S : \A j \in S : i <= j
Greatest(S) == CHOOSE i \in S : \A j \in S : j <= i

\* Length of the longest directory that all paths share.
common_dir_len(paths) ==
  LET p == CHOOSE p \in paths : TRUE
  IN Greatest({k \in 0 .. Len(p) - 1 : \A q \in paths : k < Len(q) /\ SubSeq(q, 1, k) = SubSeq(p, 1, k)})

\* In error the last component.
FaultyRelpath(d, docs) == <<Last(PathOf[d])>>
relpath(d, docs) == SubSeq(PathOf[d], common_dir_len({PathOf[e] : e \in docs}) + 1, Len(PathOf[d]))

\* The path that a reference names from a directory.
Resolve(dir, ref) ==
  FoldLeft(LAMBDA acc, c : IF c = ".." THEN SubSeq(acc, 1, Len(acc) - 1) ELSE Append(acc, c), dir, ref)

StartsWith(p, prefix) == Len(prefix) < Len(p) /\ SubSeq(p, 1, Len(prefix)) = prefix
Without(p, n) == SubSeq(p, n + 1, Len(p))

SkipDots(p) ==
  Without(p, Greatest({n \in 0 .. Len(p) : \A i \in 1 .. n : p[i] = "."}))

\* The documents, at most one, that a reported path names.
map_reported_path(p) ==
  LET below == IF ~p.abs THEN p.comps
               ELSE IF StartsWith(p.comps, TmpDir) THEN Without(p.comps, Len(TmpDir))
               ELSE IF real # <<>> /\ StartsWith(p.comps, real) THEN Without(p.comps, Len(real))
               ELSE <<"/">> \o p.comps
  IN {d \in members : relpath(d, members) = SkipDots(below)}

(***************************************************************************)
(* A line of stderr                                                        *)
(***************************************************************************)
Positions(atoms, kinds) == {i \in DOMAIN atoms : atoms[i].kind \in kinds}

\* The diagnostics, at most one, of a line.  An "Error" anywhere is looked for
\* before a "Warning"; both markers contain colons.
parse_diagnostic_line(atoms) ==
  LET errors == Positions(atoms, {"Error"})
      found == IF errors # {} THEN errors ELSE Positions(atoms, {"Warning"})
      marker == Least(found)
      colons == {i \in Positions(atoms, {":", "Error", "Warning"}) : i < marker}
      colon == Greatest(colons)
  IN IF found = {} \/ colons = {} THEN {}
     ELSE IF atoms[colon].kind # ":" \/ marker # colon + 2 \/ atoms[colon + 1].kind # "number"
             \/ colon # 2 \/ atoms[1].kind # "path" THEN {}
     ELSE {[doc |-> d, line |-> IF atoms[colon + 1].n > 0 THEN atoms[colon + 1].n - 1 ELSE 0,
            severity |-> atoms[marker].kind] : d \in map_reported_path(atoms[1].path)}

Atom(kind) == [kind |-> kind]

\* The ways tj3 may write the path of a staged file.
Written(rel) ==
  {[abs |-> FALSE, comps |-> rel], [abs |-> FALSE, comps |-> <<".">> \o rel],
   [abs |-> TRUE, comps |-> TmpDir \o rel], [abs |-> TRUE, comps |-> TmpDir \o <<".">> \o rel]}
  \cup (IF real = <<>> THEN {} ELSE {[abs |-> TRUE, comps |-> RealTmp \o rel]})

\* Lines that name a document, and others that name none: without a line
\* number, of a file that is not a member, or mere text.
PlacedLine(d, p, n, sev, msg) ==
  [atoms |-> <<[kind |-> "path", path |-> p], Atom(":"), [kind |-> "number", n |-> n], Atom(sev)>> \o msg,
   truth |-> {[doc |-> d, line |-> IF n = 0 THEN 0 ELSE n - 1, severity |-> sev]}]
PlacedLines ==
  UNION {{PlacedLine(d, p, n, sev, msg) : p \in Written(relpath(d, members)), n \in LineNos,
                                          sev \in {"Error", "Warning"}, msg \in Messages} : d \in staged}

OtherLines ==
  {[atoms |-> a, truth |-> {}] : a \in
     {<<[kind |-> "path", path |-> [abs |-> FALSE, comps |-> <<"main">>]], Atom("Error"), Atom("text")>>,
      <<[kind |-> "path", path |-> [abs |-> TRUE, comps |-> <<"usr", "main">>]], Atom(":"),
        [kind |-> "number", n |-> 1], Atom("Error"), Atom("text")>>,
      <<Atom("text")>>}}

(***************************************************************************)
(* The run                                                                 *)
(***************************************************************************)
Idle == [reports |-> FALSE, confined |-> FALSE]

Init ==
  /\ phase = "idle"
  /\ landlock \in BOOLEAN
  /\ members = {} /\ staged = {} /\ tmp = FALSE /\ real = <<>>
  /\ mode = "TJ3_FULL" /\ child = Idle /\ lines = <<>> /\ out = {} /\ escaped = FALSE

\* Collect the members and write them to a new directory.  A file that
\* cannot be opened is left out silently.  Nothing happens if the root has no
\* path, tj3 is not installed or the directory cannot be made.
Stage(docs, root, m, written, canonical) ==
  /\ phase \in {"idle", "done"}
  /\ root \in docs
  /\ members' = {d \in docs : PathOf[d] # <<>>}
  /\ written \subseteq members'
  /\ mode' = m /\ lines' = <<>> /\ out' = {} /\ child' = Idle
  /\ \/ /\ root \in members'
        /\ phase' = "staged" /\ tmp' = TRUE /\ staged' = written
        /\ real' = IF canonical THEN RealTmp ELSE <<>>
     \/ phase' = "done" /\ staged' = {} /\ real' = <<>> /\ UNCHANGED tmp
  /\ UNCHANGED <<landlock, escaped>>

\* A full run writes reports if the kernel can confine it, and is given
\* --no-reports if not.
confine == mode = "TJ3_FULL" /\ landlock

\* The child starts tj3, once it is confined if it is to be.
Launch(confined) ==
  /\ phase = "staged"
  /\ confined = confine
  /\ phase' = "running"
  /\ child' = [reports |-> confine, confined |-> confined]
  /\ UNCHANGED <<landlock, members, staged, tmp, real, mode, lines, out, escaped>>

\* pipe(), fork(), chdir() or the confinement fails: there is no output.
NoRun ==
  /\ phase = "staged"
  /\ phase' = "done"
  /\ tmp' = FALSE
  /\ UNCHANGED <<landlock, members, staged, real, mode, child, lines, out, escaped>>

\* tj3 writes a line to stderr.
Report(line) ==
  /\ phase = "running"
  /\ Len(lines) < MaxLines
  /\ lines' = Append(lines, line)
  /\ UNCHANGED <<phase, landlock, members, staged, tmp, real, mode, child, out, escaped>>

\* tj3 writes a report where the project says, if the kernel lets it.
WriteReport(inside) ==
  /\ phase = "running" /\ child.reports
  /\ inside \/ ~child.confined
  /\ escaped' = (escaped \/ ~inside)
  /\ UNCHANGED <<phase, landlock, members, staged, tmp, real, mode, child, lines, out>>

parse_diagnostics == UNION {parse_diagnostic_line(lines[i].atoms) : i \in DOMAIN lines}

\* tj3 has ended and its output is read: parse it, remove the directory.
Finish ==
  /\ phase = "running"
  /\ phase' = "done"
  /\ out' = parse_diagnostics
  /\ tmp' = FALSE
  /\ UNCHANGED <<landlock, members, staged, real, mode, child, lines, escaped>>

Next ==
  \/ \E docs \in SUBSET Docs : \E root \in docs, m \in {"TJ3_FULL", "TJ3_SYNTAX_ONLY"},
        written \in SUBSET docs, canonical \in BOOLEAN : Stage(docs, root, m, written, canonical)
  \/ \E confined \in BOOLEAN : Launch(confined)
  \/ NoRun
  \/ \E line \in PlacedLines \cup OtherLines : Report(line)
  \/ \E inside \in BOOLEAN : WriteReport(inside)
  \/ Finish

Spec == Init /\ [][Next]_vars

(***************************************************************************)
(* Properties                                                              *)
(***************************************************************************)
Dir(p) == SubSeq(p, 1, Len(p) - 1)
\* A reference that stays below the common directory on the way.
StaysBelow(dir, ref) ==
  \A k \in 1 .. Len(ref) : Cardinality({i \in 1 .. k : ref[i] = ".."})
                             <= Len(dir) + Cardinality({i \in 1 .. k : ref[i] # ".."})

\* An include from one member to another names in the staging directory the
\* copy of what it names on disk, whatever references cross directories.
IncludesResolve ==
  \A d, e \in members, r \in Refs :
    /\ Resolve(Dir(PathOf[d]), r) = PathOf[e]
    /\ StaysBelow(Dir(relpath(d, members)), r)
    => Resolve(TmpDir \o Dir(relpath(d, members)), r) = TmpDir \o relpath(e, members)

\* The diagnostics are those of tj3: each with its document, line and
\* severity, however tj3 wrote the path, and none from other lines.
DiagnosticsFaithful ==
  phase = "done" => out = UNION {lines[i].truth : i \in DOMAIN lines}

\* tj3_collect_project() leaves no directory behind, also if tj3 did not run.
NothingStagedLeft == phase \in {"idle", "done"} => ~tmp

\* No report is written outside the staging directory, with Landlock or
\* without, also if the confinement fails.
ReportsStayInside == ~escaped
=============================================================================
