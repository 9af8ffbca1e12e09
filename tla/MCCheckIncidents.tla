-------------------------- MODULE MCCheckIncidents --------------------------
(***************************************************************************)
(* Small instances of CheckIncidents for TLC.                              *)
(***************************************************************************)
EXTENDS CheckIncidents, TLC

\* Processes of one kind run the same code, and identifiers are random UUIDs.
Symmetry == Permutations(Incident) \cup Permutations(Recorder)
            \cup Permutations(Editor) \cup Permutations(Releaser)
=============================================================================
