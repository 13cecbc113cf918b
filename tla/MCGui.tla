------------------------------- MODULE MCGui -------------------------------
(* Two handlers pending at once are enough for a START while another START   *)
(* or a download is being started.  Handlers are interchangeable, and so are *)
(* devices; the runs of temporal properties do without the symmetry.         *)
EXTENDS Gui, TLC

Symmetry == Permutations(Handlers) \cup Permutations(Nodes)

(* Bound: a second device is in sight, of the window or of a warning, only   *)
(* while one handler is pending at most and jobs are left to start.          *)
InSight == ({first, picked, shown} \cup UNION {{hnd[h].dst, hnd[h].named} : h \in Handlers}) \ {None}
Pending == {h \in Handlers : hnd[h].at # "idle"}
TwoOfEither == Cardinality(InSight) <= 1 \/ (Cardinality(Pending) <= 1 /\ next < MaxJobs)
=============================================================================
