--------------------------- MODULE MCStudioSession ---------------------------
(* Instances of StudioSession for TLC: which editor owns which asset, and  *)
(* the saved projects that can be opened.                                  *)
EXTENDS StudioSession

CONSTANTS v1, v2, c1, s1, a1, a2, k1, v, w, t1, q1

MCSourceOf ==
    [x \in Assets |-> CASE x \in {v1, v2} -> "visual"
                        [] x = c1 -> "crib"
                        [] x = s1 -> "stadium"
                        [] x \in {a1, a2} -> "audio"]

(* A saved project with an edit of every file-backed asset.                *)
MCArchives ==
    {[edits |-> [x \in Assets |-> v], texts |-> NoTexts, notes |-> NoNotes]}

=============================================================================
