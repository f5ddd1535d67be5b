------------------------------- MODULE Invoices -------------------------------
(***************************************************************************)
(* Admission invoices: src/src/admissions/invoices.service.ts, and the     *)
(* payment claims of the parent portal (ppdb.service.ts).                  *)
(*                                                                         *)
(* recordPayment reads the invoice, adds the amount to the paid amount it  *)
(* read, and writes the sum with the status that follows from it; the      *)
(* write names the invoice by id only. It is therefore two actions. The    *)
(* other handlers write a constant after reading only whether the invoice  *)
(* exists.                                                                 *)
(*                                                                         *)
(* History variables, never read by the actions: credited is what the      *)
(* invoice would have received if every payment had been added to the      *)
(* current amount; clean is the set of invoices no payment was written to  *)
(* from a stale read.                                                      *)
(***************************************************************************)
EXTENDS Integers, Requests

CONSTANTS
    Invoices,       \* invoice rows
    Total,          \* [Invoices -> Nat], the sum of the items, fixed at creation
    Amounts,        \* partial amounts the finance staff records
    InFull          \* a payment without an amount: pays the rest

ASSUME InvoicesAssumption ==
    /\ Total \in [Invoices -> Nat]
    /\ Amounts \subseteq Nat
    /\ InFull \notin Nat

VARIABLES
    invoice,    \* [Invoices -> InvoiceRow]
    credited,   \* history: [Invoices -> Nat]
    clean       \* history: SUBSET Invoices

vars == <<invoice, req, credited, clean>>

-----------------------------------------------------------------------------
\* "none" is a row that is not inserted yet; create inserts it as sent.
InvoiceStatus == {"none", "sent", "paid", "cancelled"}

InvoiceRow == [status: InvoiceStatus, paid: Nat, paidAt: BOOLEAN, claimed: BOOLEAN,
               deleted: BOOLEAN]

EmptyInvoice == [status |-> "none", paid |-> 0, paidAt |-> FALSE, claimed |-> FALSE,
                 deleted |-> FALSE]

\* seen is the paid amount the handler read.
Payment == [invoice: Invoices, amount: Amounts \cup {InFull}, seen: Nat, fresh: BOOLEAN]

ASSUME NoPaymentAssumption == NoRequest \notin Payment

Found(i) == invoice[i].status # "none" /\ ~invoice[i].deleted

AtMost(limit, amount) == IF amount <= limit THEN amount ELSE limit

\* Mutant: the amount is taken off.
PaidAfterSubtracted(i, paid, amount) == IF amount = InFull THEN Total[i] ELSE paid - amount

PaidAfter(i, paid, amount) ==
    IF amount = InFull THEN Total[i] ELSE AtMost(Total[i], paid + amount)

\* Mutant: a partial payment leaves the old payment date and status.
SettledRowKeepsPaid(row, i, paid) ==
    [row EXCEPT !.paid = paid,
                !.status = IF paid >= Total[i] THEN "paid" ELSE @,
                !.paidAt = @ \/ paid >= Total[i]]

\* The three columns recordPayment writes.
SettledRow(row, i, paid) ==
    [row EXCEPT !.paid = paid,
                !.status = IF paid >= Total[i] THEN "paid" ELSE "sent",
                !.paidAt = paid >= Total[i]]

-----------------------------------------------------------------------------
create(i) ==
    /\ invoice[i].status = "none"
    /\ invoice' = [invoice EXCEPT ![i].status = "sent"]
    /\ UNCHANGED <<req, credited, clean>>

\* Mutant: cancelled invoices may be paid.
PayableCancelled(i) == Found(i)

Payable(i) == Found(i) /\ invoice[i].status # "cancelled"

BeginPayment(w, i, amount) ==
    /\ Payable(i)
    /\ Begin(w, [invoice |-> i, amount |-> amount, seen |-> invoice[i].paid, fresh |-> TRUE])
    /\ UNCHANGED <<invoice, credited, clean>>

\* Every other payment of i that is being recorded is out of date.
Outdated(w, i) ==
    [v \in Workers |->
        IF v = w THEN NoRequest
        ELSE IF req[v] # NoRequest /\ req[v].invoice = i
             THEN [req[v] EXCEPT !.fresh = FALSE]
             ELSE req[v]]

\* Mutant: the payment replaces what was paid before.
AlreadyPaidIgnored(p) == 0

AlreadyPaid(p) == p.seen

CommitPayment(w) ==
    LET p == req[w]
        i == p.invoice
    IN  /\ p # NoRequest
        /\ invoice' = [invoice EXCEPT ![i] =
                         SettledRow(@, i, PaidAfter(i, AlreadyPaid(p), p.amount))]
        /\ req' = Outdated(w, i)
        /\ credited' = [credited EXCEPT ![i] =
                          IF p.amount = InFull THEN Total[i] ELSE AtMost(Total[i], @ + p.amount)]
        /\ clean' = IF p.fresh THEN clean ELSE clean \ {i}

\* cancel has no guard on the status: a paid invoice can be cancelled.
cancel(i) ==
    /\ Found(i)
    /\ invoice' = [invoice EXCEPT ![i].status = "cancelled"]
    /\ req' = [v \in Workers |->
                     IF req[v] # NoRequest /\ req[v].invoice = i
                     THEN [req[v] EXCEPT !.fresh = FALSE] ELSE req[v]]
    /\ UNCHANGED <<credited, clean>>

remove(i) ==
    /\ Found(i)
    /\ invoice' = [invoice EXCEPT ![i].deleted = TRUE]
    /\ UNCHANGED <<req, credited, clean>>

\* The parent reports a payment; nothing else is touched.
claimPayment(i) ==
    /\ Found(i)
    /\ invoice' = [invoice EXCEPT ![i].claimed = TRUE]
    /\ UNCHANGED <<req, credited, clean>>

\* The write fails, or the process dies: the payment is not recorded.
FailPayment(w) ==
    /\ req[w] # NoRequest
    /\ Done(w)
    /\ UNCHANGED <<invoice, credited, clean>>

-----------------------------------------------------------------------------
Init ==
    /\ invoice = [i \in Invoices |-> EmptyInvoice]
    /\ req = Idle
    /\ credited = [i \in Invoices |-> 0]
    /\ clean = Invoices

Next ==
    \/ \E i \in Invoices : create(i) \/ cancel(i) \/ remove(i) \/ claimPayment(i)
    \/ \E w \in Workers, i \in Invoices, amount \in Amounts \cup {InFull} :
          BeginPayment(w, i, amount)
    \/ \E w \in Workers : CommitPayment(w) \/ FailPayment(w)

Spec == Init /\ [][Next]_vars

-----------------------------------------------------------------------------
(* Properties *)

TypeOK ==
    /\ invoice \in [Invoices -> InvoiceRow]
    /\ req \in [Workers -> Payment \cup {NoRequest}]
    /\ credited \in [Invoices -> Nat]
    /\ clean \subseteq Invoices

\* Amount, status and payment date never contradict each other, whatever order payments
\* and cancellations are written in: never more than the total, paid exactly when it is
\* all there, and no payment date on less.
LedgerCoherent ==
    \A i \in Invoices :
        LET row == invoice[i] IN
        /\ row.paid <= Total[i]
        /\ row.status = "paid" => row.paid = Total[i] /\ row.paidAt
        /\ row.paidAt => row.paid = Total[i] /\ row.status \in {"paid", "cancelled"}

\* No payment is counted twice; one that was written from a stale read can be lost, and
\* only on an invoice with such a write is the paid amount short of what was recorded.
PaymentsCounted ==
    \A i \in Invoices :
        /\ invoice[i].paid <= credited[i]
        /\ i \in clean => invoice[i].paid = credited[i]

\* Money and decisions stand: unless a payment is written from a stale read, the paid
\* amount never decreases, a paid invoice stays paid or is cancelled, and a cancelled
\* invoice stays cancelled.
SettledStays ==
    [][\A i \in clean' :
          /\ invoice'[i].paid >= invoice[i].paid
          /\ invoice[i].status = "paid" => invoice'[i].status \in {"paid", "cancelled"}
          /\ invoice[i].status = "cancelled" => invoice'[i].status = "cancelled"]_vars
=============================================================================
