---------------------------- MODULE MCRegistration ----------------------------
(* Three applications and two invoices in two academic years, two requests at once:    *)
(* the third application can be numbered after one of the first two has left the year. *)
EXTENDS Registration, TLC

\* Two years that begin alike, as "2026" and "2026-2027" do; and two that do not.
MCStartAlike == [y \in Years |-> "2026"]
MCStartApart == [y \in Years |-> y]

MCSymmetry ==
    Permutations(Apps) \cup Permutations(Years) \cup
    Permutations(Workers) \cup Permutations(InvoiceIds)
=============================================================================
