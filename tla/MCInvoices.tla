------------------------------ MODULE MCInvoices ------------------------------
(* One invoice of three units, paid in parts of zero to two or in full, with three    *)
(* payments being recorded at once: two stale ones can follow a full payment.          *)
(* Invoices do not share state.                                                        *)
EXTENDS Invoices, TLC

CONSTANT inv

MCInvoices == {inv}
MCTotal == [i \in MCInvoices |-> 3]
MCAmounts == {0, 1, 2}
MCSymmetry == Permutations(Workers)
=============================================================================
