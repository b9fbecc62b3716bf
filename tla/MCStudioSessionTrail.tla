------------------------- MODULE MCStudioSessionTrail -------------------------
(* The instances of MCStudioSession with the history variable.             *)
EXTENDS StudioSessionTrail, MCStudioSession

=============================================================================
