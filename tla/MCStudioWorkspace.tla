-------------------------- MODULE MCStudioWorkspace --------------------------
(* Instances of StudioWorkspace for TLC.                                   *)
EXTENDS StudioWorkspace

CONSTANTS A, B \* two game images

=============================================================================
