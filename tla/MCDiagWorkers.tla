--------------------------- MODULE MCDiagWorkers ---------------------------
(***************************************************************************)
(* Two projects: p1 with an editor document and a disk-only include, p2    *)
(* with one editor document.  They come and go, change mode, gain and lose *)
(* diagnostics; a document's project never changes.                        *)
(***************************************************************************)
EXTENDS DiagWorkers, TLC

CONSTANTS p1, p2, u1, u2, u3

MCProjects == {p1, p2}
MCUris == {u1, u2, u3}

OwnerOf(u) == IF u = u3 THEN p2 ELSE p1

\* The snapshot with projects ps, of which full are in compile_commands.json,
\* with u1 and u3 open while their project is there (u1 is cleared again when
\* it is closed, p2 disappears with its worker alone to clear u3), with
\* tj3 complaining of bad and compile_commands.json missed in cc.
Snap(ps, full, bad, cc) ==
    [projects |-> ps, full |-> full,
     project_index |-> [u \in MCUris |-> IF OwnerOf(u) \in ps THEN OwnerOf(u)
                                                              ELSE NoProject],
     editor |-> IF p2 \in ps THEN {u1, u3} ELSE {u1},
     faulty |-> bad, cc_missed |-> cc]

MCSnapshots ==
    { Snap({p1, p2}, {p1}, {u1, u2, u3}, {}),
      Snap({p1, p2}, {p1}, {u2}, {}),
      Snap({p1, p2}, {}, {u3}, {u1, u2}),
      Snap({p2}, {}, {u3}, {}),
      Snap({p1}, {p1}, {u1, u2}, {}) }

\* A fragment u1 open on its own is its own project p1, until p2 of
\* compile_commands.json includes it and claims it.
MCMoving ==
    { [projects |-> {p1}, full |-> {},
       project_index |-> (u1 :> p1 @@ u2 :> NoProject @@ u3 :> NoProject),
       editor |-> {u1}, faulty |-> {u1}, cc_missed |-> {}],
      [projects |-> {p2}, full |-> {p2},
       project_index |-> (u1 :> p2 @@ u2 :> NoProject @@ u3 :> p2),
       editor |-> {u1, u3}, faulty |-> {u1}, cc_missed |-> {}] }
=============================================================================
