---------------------------- MODULE MCApfSession ----------------------------
(* Instance of ApfSession for TLC: a text cell, a rating cell and two      *)
(* sounds that share one physical range, and a project with an edit of     *)
(* each.                                                                   *)
EXTENDS ApfSession

CONSTANTS r1, t1, s1, s2, v, w

MCKindOf ==
    [a \in Assets |-> CASE a = r1 -> "rating" [] a = t1 -> "text" [] OTHER -> "audio"]

MCOwners == [a \in Assets |-> Sounds]

MCArchives == {[mods |-> [a \in Assets |-> v], notes |-> NoNotes]}

=============================================================================
