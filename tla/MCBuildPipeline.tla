--------------------------- MODULE MCBuildPipeline ---------------------------
(* Instance of BuildPipeline for TLC: editors, assets and inode numbers    *)
(* are alike.                                                              *)
EXTENDS BuildPipeline, TLC

Alike ==
    Permutations(Editors) \cup Permutations(Assets) \cup Permutations(Inodes)

=============================================================================
