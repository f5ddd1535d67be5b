----------------------------- MODULE MCSchoolYear -----------------------------
(* Three terms, so that two can be activated at once over a third; one student and two  *)
(* classes, one of which may be removed; one lesson and the homeroom; two requests at    *)
(* once.                                                                                *)
EXTENDS SchoolYear, TLC

MCSymmetry == Permutations(Terms) \cup Permutations(Classes) \cup Permutations(Workers)
=============================================================================
