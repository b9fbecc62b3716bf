---------------------------- MODULE MCProjectFile ----------------------------
(* Instance of ProjectFile for TLC; the windows are alike.                 *)
EXTENDS ProjectFile, TLC

Alike == Permutations(Editors)

=============================================================================
