---------------------------------- MODULE Sums ---------------------------------
(***************************************************************************)
(* Sums of figures, for the properties that say of a page or a dashboard   *)
(* that its rows add up.                                                   *)
(***************************************************************************)
EXTENDS Integers, FiniteSets

\* What the rows of a table stand for, a row k of f[k] by f[k] pairs.
Tally(f) == UNION {{k} \X (1..f[k]) : k \in DOMAIN f}

\* The sum of the values of f, natural numbers: the size of its tally.
SumOf(f) == Cardinality(Tally(f))
=============================================================================
