------------------------------ MODULE MCHomeroom ------------------------------
(* Two classes, teachers, years and assignment rows, and two requests at once: one can   *)
(* replace, end or move the row that the other still remembers, and a letter can find     *)
(* an active assignment of the other year.                                               *)
EXTENDS Homeroom, TLC

MCSymmetry ==
    Permutations(Rows) \cup Permutations(Classes) \cup Permutations(Teachers)
      \cup Permutations(Years) \cup Permutations(Workers)
=============================================================================
