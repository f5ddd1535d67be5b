---------------------------- MODULE InvoicesProofs ----------------------------
(***************************************************************************)
(* Proofs about Invoices: the paid amount, the status and the payment date *)
(* agree, no payment is counted twice, and what is settled stays settled,  *)
(* for any invoices, amounts and concurrent payments.  And about           *)
(* Registration: the numbers of invoices and applications are given once   *)
(* in the year they are counted in, for any rows, years and requests.      *)
(***************************************************************************)
EXTENDS Invoices, Registration, FiniteSetTheorems, TLAPS

\* What a payment being recorded may still rely on: the amount it read was really
\* credited, and as long as nobody else wrote the invoice it is still the paid amount
\* of an invoice that is not cancelled.
PaymentInv(w) ==
    req[w] # NoRequest =>
        LET p == req[w] IN
        /\ p.seen <= credited[p.invoice]
        /\ p.fresh => /\ p.seen = invoice[p.invoice].paid
                      /\ invoice[p.invoice].status # "cancelled"

\* The inductive invariant.
IInv ==
    /\ TypeOK
    /\ LedgerCoherent
    /\ PaymentsCounted
    /\ \A i \in Invoices : credited[i] <= Total[i]
    /\ \A w \in Workers : PaymentInv(w)

-----------------------------------------------------------------------------
(* What recordPayment computes *)

\* The paid amount recordPayment writes is a number between the total and the amount it
\* read, whichever payment it is.
LEMMA PaidAfterBounded ==
    ASSUME NEW i \in Invoices, NEW paid \in Nat, NEW amount \in Amounts \cup {InFull},
           paid <= Total[i]
    PROVE  /\ PaidAfter(i, paid, amount) \in Nat
           /\ PaidAfter(i, paid, amount) <= Total[i]
           /\ paid <= PaidAfter(i, paid, amount)
  <1>1. Total[i] \in Nat
    BY InvoicesAssumption
  <1>2. CASE amount = InFull
    BY <1>1, <1>2 DEF PaidAfter
  <1>3. CASE amount # InFull
    <2>1. amount \in Nat
      BY <1>3, InvoicesAssumption
    <2>2. QED
      BY <1>1, <1>3, <2>1 DEF PaidAfter, AtMost
  <1>4. QED
    BY <1>2, <1>3

\* A payment read from the smaller amount does not end above one read from the larger.
LEMMA PaidAfterMonotone ==
    ASSUME NEW i \in Invoices, NEW a \in Nat, NEW b \in Nat,
           NEW amount \in Amounts \cup {InFull},
           a <= b
    PROVE  PaidAfter(i, a, amount) <= PaidAfter(i, b, amount)
  <1>1. Total[i] \in Nat
    BY InvoicesAssumption
  <1>2. CASE amount = InFull
    BY <1>1, <1>2 DEF PaidAfter
  <1>3. CASE amount # InFull
    <2>1. amount \in Nat
      BY <1>3, InvoicesAssumption
    <2>2. QED
      BY <1>1, <1>3, <2>1 DEF PaidAfter, AtMost
  <1>4. QED
    BY <1>2, <1>3

-----------------------------------------------------------------------------
(* The inductive invariant *)

\* Before any invoice exists the invariant holds.
LEMMA InitEstablishes == Init => IInv
  <1>1. EmptyInvoice \in InvoiceRow
    BY DEF EmptyInvoice, InvoiceRow, InvoiceStatus
  <1>2. Init => TypeOK
    BY <1>1 DEF Init, Idle, TypeOK
  <1>3. ASSUME Init, NEW i \in Invoices
        PROVE  /\ invoice[i].paid = 0
               /\ invoice[i].status = "none"
               /\ invoice[i].paidAt = FALSE
               /\ credited[i] = 0
               /\ 0 <= Total[i]
    BY <1>3, InvoicesAssumption DEF Init, Idle, EmptyInvoice
  <1>4. Init => LedgerCoherent
    BY <1>3, InvoicesAssumption DEF LedgerCoherent
  <1>5. ASSUME Init, NEW i \in Invoices
        PROVE  /\ invoice[i].paid <= credited[i]
               /\ invoice[i].paid = credited[i]
               /\ credited[i] <= Total[i]
    <2>1. invoice[i].paid = 0 /\ credited[i] = 0 /\ 0 <= Total[i]
      BY <1>3, <1>5
    <2>2. QED
      BY <2>1
  <1>6. Init => PaymentsCounted
    BY <1>5, Zenon DEF PaymentsCounted
  <1>7. Init => \A w \in Workers : PaymentInv(w)
    BY DEF Init, Idle, PaymentInv
  <1>8. QED
    BY <1>2, <1>4, <1>5, <1>6, <1>7 DEF IInv

\* A handler that changes no amount and turns no status into paid, nor takes an invoice
\* away from under a payment that still counts as fresh.
LEMMA QuietStep ==
    ASSUME IInv, NEW i \in Invoices,
           NEW row \in InvoiceRow,
           row.paid = invoice[i].paid,
           row.paidAt = invoice[i].paidAt,
           row.status # "paid" \/ row.status = invoice[i].status,
           row.paidAt => row.status \in {"paid", "cancelled"},
           row.status = "cancelled" => invoice[i].status = "cancelled",
           invoice' = [invoice EXCEPT ![i] = row],
           UNCHANGED <<req, credited, clean>>
    PROVE  IInv'
  <1> USE DEF IInv
  <1>1. TypeOK'
    BY DEF TypeOK
  <1>2. LedgerCoherent'
    BY DEF LedgerCoherent, TypeOK
  <1>3. PaymentsCounted'
    BY DEF PaymentsCounted, TypeOK
  <1>4. ASSUME NEW w \in Workers
        PROVE  PaymentInv(w)'
    BY DEF PaymentInv, TypeOK, Payment
  <1>5. QED
    BY <1>1, <1>2, <1>3, <1>4

\* create keeps the invariant.
LEMMA CreatePreserves == ASSUME IInv, NEW i \in Invoices, create(i) PROVE IInv'
  <1> PICK row : row = [invoice[i] EXCEPT !.status = "sent"]
    OBVIOUS
  <1>1. invoice[i] \in InvoiceRow
    BY DEF IInv, TypeOK
  <1>2. row \in InvoiceRow
    BY <1>1 DEF InvoiceRow, InvoiceStatus
  <1>3. ~invoice[i].paidAt
    BY DEF create, IInv, LedgerCoherent
  <1>4. invoice' = [invoice EXCEPT ![i] = row]
    BY DEF create
  <1>5. row.paid = invoice[i].paid /\ row.paidAt = invoice[i].paidAt /\ row.status = "sent"
    BY <1>1 DEF InvoiceRow
  <1>6. QED
    BY <1>2, <1>3, <1>4, <1>5, QuietStep DEF create

\* remove keeps the invariant.
LEMMA RemovePreserves == ASSUME IInv, NEW i \in Invoices, remove(i) PROVE IInv'
  <1> PICK row : row = [invoice[i] EXCEPT !.deleted = TRUE]
    OBVIOUS
  <1>1. invoice[i] \in InvoiceRow
    BY DEF IInv, TypeOK
  <1>2. row \in InvoiceRow
    BY <1>1 DEF InvoiceRow
  <1>3. invoice[i].paidAt => invoice[i].status \in {"paid", "cancelled"}
    BY DEF IInv, LedgerCoherent
  <1>4. invoice' = [invoice EXCEPT ![i] = row]
    BY DEF remove
  <1>5. /\ row.paid = invoice[i].paid
        /\ row.paidAt = invoice[i].paidAt
        /\ row.status = invoice[i].status
    BY <1>1 DEF InvoiceRow
  <1>6. QED
    BY <1>2, <1>3, <1>4, <1>5, QuietStep DEF remove

\* claimPayment keeps the invariant.
LEMMA ClaimPreserves == ASSUME IInv, NEW i \in Invoices, claimPayment(i) PROVE IInv'
  <1> PICK row : row = [invoice[i] EXCEPT !.claimed = TRUE]
    OBVIOUS
  <1>1. invoice[i] \in InvoiceRow
    BY DEF IInv, TypeOK
  <1>2. row \in InvoiceRow
    BY <1>1 DEF InvoiceRow
  <1>3. invoice[i].paidAt => invoice[i].status \in {"paid", "cancelled"}
    BY DEF IInv, LedgerCoherent
  <1>4. invoice' = [invoice EXCEPT ![i] = row]
    BY DEF claimPayment
  <1>5. /\ row.paid = invoice[i].paid
        /\ row.paidAt = invoice[i].paidAt
        /\ row.status = invoice[i].status
    BY <1>1 DEF InvoiceRow
  <1>6. QED
    BY <1>2, <1>3, <1>4, <1>5, QuietStep DEF claimPayment

\* cancel keeps the invariant: it makes every payment being recorded stale.
LEMMA CancelPreserves == ASSUME IInv, NEW i \in Invoices, cancel(i) PROVE IInv'
  <1> USE DEF IInv
  <1>1. invoice[i] \in InvoiceRow
    BY DEF TypeOK
  <1>2. [invoice[i] EXCEPT !.status = "cancelled"] \in InvoiceRow
    BY <1>1 DEF InvoiceRow, InvoiceStatus
  <1>3. invoice' \in [Invoices -> InvoiceRow]
    BY <1>2 DEF cancel, TypeOK
  <1>4. ASSUME NEW w \in Workers, req[w] # NoRequest
        PROVE  [req[w] EXCEPT !.fresh = FALSE] \in Payment
    BY <1>4 DEF TypeOK, Payment
  <1>5. req' \in [Workers -> Payment \cup {NoRequest}]
    BY <1>4 DEF cancel, TypeOK
  <1>6. TypeOK'
    BY <1>3, <1>5 DEF cancel, TypeOK
  <1>7. /\ \A j \in Invoices : invoice'[j].paid = invoice[j].paid
        /\ \A j \in Invoices : invoice'[j].paidAt = invoice[j].paidAt
        /\ \A j \in Invoices : j # i => invoice'[j] = invoice[j]
        /\ invoice'[i].status = "cancelled"
    BY <1>1 DEF cancel, TypeOK, InvoiceRow
  <1>8. LedgerCoherent'
    BY <1>7 DEF LedgerCoherent
  <1>9. PaymentsCounted'
    BY <1>7 DEF cancel, PaymentsCounted
  <1>10. ASSUME NEW w \in Workers
         PROVE  PaymentInv(w)'
    <2> SUFFICES ASSUME req'[w] # NoRequest
                 PROVE  PaymentInv(w)'
      BY DEF PaymentInv
    <2>1. req[w] # NoRequest /\ PaymentInv(w)
      BY DEF cancel
    <2>2. req[w] \in Payment
      BY <2>1 DEF TypeOK
    <2>3. CASE req[w].invoice = i
      <3>1. req'[w] = [req[w] EXCEPT !.fresh = FALSE]
        BY <2>1, <2>3 DEF cancel
      <3>2. /\ req'[w].fresh = FALSE
            /\ req'[w].seen = req[w].seen
            /\ req'[w].invoice = i
        BY <2>2, <2>3, <3>1 DEF Payment
      <3>3. QED
        BY <2>1, <2>3, <3>2 DEF PaymentInv, cancel
    <2>4. CASE req[w].invoice # i
      <3>1. req'[w] = req[w]
        BY <2>1, <2>4 DEF cancel
      <3>2. invoice'[req[w].invoice] = invoice[req[w].invoice]
        BY <1>7, <2>2, <2>4 DEF Payment
      <3>3. QED
        BY <2>1, <3>1, <3>2 DEF PaymentInv, cancel
    <2>5. QED
      BY <2>3, <2>4
  <1>11. QED
    BY <1>6, <1>8, <1>9, <1>10 DEF cancel

\* Reading an invoice in recordPayment keeps the invariant.
LEMMA BeginPreserves ==
    ASSUME IInv, NEW w \in Workers, NEW i \in Invoices,
           NEW amount \in Amounts \cup {InFull}, BeginPayment(w, i, amount)
    PROVE  IInv'
  <1> USE DEF IInv
  <1> PICK p : p = [invoice |-> i, amount |-> amount, seen |-> invoice[i].paid, fresh |-> TRUE]
    OBVIOUS
  <1>1. invoice[i].paid \in Nat
    BY DEF TypeOK, InvoiceRow
  <1>2. p \in Payment
    BY <1>1 DEF Payment
  <1>3. req' = [req EXCEPT ![w] = p]
    BY DEF BeginPayment, Begin
  <1>4. TypeOK'
    BY <1>2, <1>3 DEF BeginPayment, Begin, TypeOK
  <1>5. LedgerCoherent' /\ PaymentsCounted'
    BY DEF BeginPayment, Begin, LedgerCoherent, PaymentsCounted
  <1>6. invoice[i].paid <= credited[i] /\ invoice[i].status # "cancelled"
    BY DEF BeginPayment, Begin, Payable, PaymentsCounted
  <1>7. ASSUME NEW v \in Workers
        PROVE  PaymentInv(v)'
    <2>1. CASE v = w
      <3>1. req'[v] = p
        BY <1>3, <2>1 DEF TypeOK
      <3>2. QED
        BY <1>6, <3>1 DEF PaymentInv, BeginPayment, Begin
    <2>2. CASE v # w
      <3>1. req'[v] = req[v] /\ PaymentInv(v)
        BY <1>3, <2>2 DEF TypeOK
      <3>2. QED
        BY <3>1 DEF PaymentInv, BeginPayment, Begin
    <2>3. QED
      BY <2>1, <2>2
  <1>8. QED
    BY <1>4, <1>5, <1>7 DEF BeginPayment, Begin

\* A payment that is not recorded keeps the invariant.
LEMMA FailPreserves == ASSUME IInv, NEW w \in Workers, FailPayment(w) PROVE IInv'
  <1> USE DEF IInv
  <1>1. TypeOK'
    BY DEF FailPayment, Done, TypeOK
  <1>2. LedgerCoherent' /\ PaymentsCounted'
    BY DEF FailPayment, Done, LedgerCoherent, PaymentsCounted
  <1>3. ASSUME NEW v \in Workers
        PROVE  PaymentInv(v)'
    BY DEF FailPayment, Done, PaymentInv, TypeOK
  <1>4. QED
    BY <1>1, <1>2, <1>3 DEF FailPayment, Done

\* What writing payment p, as the amount new, does to invoice i and to the history.
CommitFacts(w, p, i, new) ==
    /\ p = req[w] /\ i = p.invoice /\ new = PaidAfter(i, p.seen, p.amount)
    /\ new <= Total[i] /\ p.seen <= new
    /\ invoice' = [invoice EXCEPT ![i] = SettledRow(invoice[i], i, new)]
    /\ SettledRow(invoice[i], i, new) \in InvoiceRow
    /\ invoice'[i].paid = new
    /\ new >= Total[i] => invoice'[i].status = "paid" /\ invoice'[i].paidAt = TRUE
    /\ ~(new >= Total[i]) => invoice'[i].status = "sent" /\ invoice'[i].paidAt = FALSE
    /\ \A j \in Invoices : j # i => invoice'[j] = invoice[j]
    /\ credited' = [credited EXCEPT ![i] = PaidAfter(i, credited[i], p.amount)]
    /\ clean' = IF p.fresh THEN clean ELSE clean \ {i}

\* Every write of a recorded payment does that.
LEMMA CommitEffect ==
    ASSUME IInv, NEW w \in Workers, CommitPayment(w)
    PROVE  \E p \in Payment, i \in Invoices, new \in Nat :
              CommitFacts(w, p, i, new)
  <1> PICK p : p = req[w]
    OBVIOUS
  <1> PICK i : i = p.invoice
    OBVIOUS
  <1> PICK new : new = PaidAfter(i, p.seen, p.amount)
    OBVIOUS
  <1> USE DEF IInv
  <1>1. p # NoRequest
    BY DEF CommitPayment
  <1>2. p \in Payment
    BY <1>1 DEF TypeOK
  <1>3. i \in Invoices /\ p.seen \in Nat /\ p.amount \in Amounts \cup {InFull}
    BY <1>2 DEF Payment
  <1>4. p.seen <= credited[i]
    BY <1>1 DEF PaymentInv
  <1>5. credited[i] \in Nat /\ Total[i] \in Nat /\ credited[i] <= Total[i]
    BY <1>3, InvoicesAssumption DEF TypeOK
  <1>6. p.seen <= Total[i]
    BY <1>3, <1>4, <1>5
  <1>7. new \in Nat /\ new <= Total[i] /\ p.seen <= new
    BY <1>3, <1>6, PaidAfterBounded
  <1>8. invoice' = [invoice EXCEPT ![i] = SettledRow(invoice[i], i, new)]
    BY DEF CommitPayment, AlreadyPaid
  <1>9. invoice[i] \in InvoiceRow
    BY <1>3 DEF TypeOK
  <1>10. ASSUME new >= Total[i]
         PROVE  /\ SettledRow(invoice[i], i, new) \in InvoiceRow
                /\ SettledRow(invoice[i], i, new).paid = new
                /\ SettledRow(invoice[i], i, new).status = "paid"
                /\ SettledRow(invoice[i], i, new).paidAt = TRUE
    <2>2. SettledRow(invoice[i], i, new)
            = [invoice[i] EXCEPT !.paid = new, !.status = "paid", !.paidAt = TRUE]
      BY <1>10 DEF SettledRow
    <2>3. QED
      BY <1>7, <1>9, <2>2 DEF InvoiceRow, InvoiceStatus
  <1>11. ASSUME ~(new >= Total[i])
         PROVE  /\ SettledRow(invoice[i], i, new) \in InvoiceRow
                /\ SettledRow(invoice[i], i, new).paid = new
                /\ SettledRow(invoice[i], i, new).status = "sent"
                /\ SettledRow(invoice[i], i, new).paidAt = FALSE
    <2>1. (new >= Total[i]) = FALSE
      BY <1>11
    <2>2. SettledRow(invoice[i], i, new)
            = [invoice[i] EXCEPT !.paid = new, !.status = "sent", !.paidAt = FALSE]
      BY <1>11, <2>1, Zenon DEF SettledRow
    <2>3. QED
      BY <1>7, <1>9, <2>2 DEF InvoiceRow, InvoiceStatus
  <1>12. invoice'[i] = SettledRow(invoice[i], i, new)
    BY <1>3, <1>8 DEF TypeOK
  <1>13. \A j \in Invoices : j # i => invoice'[j] = invoice[j]
    BY <1>8 DEF TypeOK
  <1>14. credited' = [credited EXCEPT ![i] = PaidAfter(i, credited[i], p.amount)]
    BY DEF CommitPayment, PaidAfter
  <1>15. clean' = IF p.fresh THEN clean ELSE clean \ {i}
    BY DEF CommitPayment
  <1> USE <1>2, <1>3, <1>7
  <1> WITNESS p \in Payment, i \in Invoices, new \in Nat
  <1>16. QED
    BY <1>8, <1>10, <1>11, <1>12, <1>13, <1>14, <1>15 DEF CommitFacts

\* The write of recordPayment keeps the invariant.
LEMMA CommitPreserves == ASSUME IInv, NEW w \in Workers, CommitPayment(w) PROVE IInv'
  <1> USE DEF IInv
  <1>0. PICK p \in Payment, i \in Invoices, new \in Nat : CommitFacts(w, p, i, new)
    BY CommitEffect
  <1>1. /\ p \in Payment /\ i \in Invoices /\ new \in Nat
        /\ p = req[w] /\ i = p.invoice /\ new = PaidAfter(i, p.seen, p.amount)
        /\ new <= Total[i] /\ p.seen <= new
        /\ invoice' = [invoice EXCEPT ![i] = SettledRow(invoice[i], i, new)]
        /\ SettledRow(invoice[i], i, new) \in InvoiceRow
        /\ invoice'[i].paid = new
        /\ new >= Total[i] => invoice'[i].status = "paid" /\ invoice'[i].paidAt = TRUE
        /\ ~(new >= Total[i]) => invoice'[i].status = "sent" /\ invoice'[i].paidAt = FALSE
        /\ \A j \in Invoices : j # i => invoice'[j] = invoice[j]
        /\ credited' = [credited EXCEPT ![i] = PaidAfter(i, credited[i], p.amount)]
        /\ clean' = IF p.fresh THEN clean ELSE clean \ {i}
    BY <1>0 DEF CommitFacts
  <1>2. /\ p.seen \in Nat /\ p.amount \in Amounts \cup {InFull}
        /\ p.seen <= credited[i]
        /\ p.fresh => p.seen = invoice[i].paid /\ invoice[i].status # "cancelled"
        /\ p # NoRequest
    BY <1>1, NoPaymentAssumption DEF Payment, PaymentInv
  <1>3. credited[i] \in Nat /\ Total[i] \in Nat /\ credited[i] <= Total[i]
    BY <1>1, InvoicesAssumption DEF TypeOK
  <1>4. /\ credited'[i] \in Nat /\ credited'[i] <= Total[i]
        /\ credited[i] <= credited'[i]
        /\ new <= credited'[i]
        /\ \A j \in Invoices : j # i => credited'[j] = credited[j]
    <2>1. credited'[i] = PaidAfter(i, credited[i], p.amount)
      BY <1>1 DEF TypeOK
    <2>2. new <= PaidAfter(i, credited[i], p.amount)
      BY <1>1, <1>2, <1>3, PaidAfterMonotone
    <2>3. /\ PaidAfter(i, credited[i], p.amount) \in Nat
          /\ PaidAfter(i, credited[i], p.amount) <= Total[i]
          /\ credited[i] <= PaidAfter(i, credited[i], p.amount)
      BY <1>1, <1>2, <1>3, PaidAfterBounded
    <2>4. \A j \in Invoices : j # i => credited'[j] = credited[j]
      BY <1>1 DEF TypeOK
    <2>5. QED
      BY <2>1, <2>2, <2>3, <2>4
  <1>5. req' = Outdated(w, i)
    <2>1. req' = Outdated(w, req[w].invoice)
      BY DEF CommitPayment
    <2>2. QED
      BY <1>1, <2>1
  <1>6. TypeOK'
    <2>1. invoice' \in [Invoices -> InvoiceRow]
      BY <1>1 DEF TypeOK
    <2>2. ASSUME NEW v \in Workers, req[v] # NoRequest
          PROVE  [req[v] EXCEPT !.fresh = FALSE] \in Payment
      BY <2>2 DEF TypeOK, Payment
    <2>3. req' \in [Workers -> Payment \cup {NoRequest}]
      BY <1>5, <2>2 DEF Outdated, TypeOK
    <2>4. credited' \in [Invoices -> Nat]
      BY <1>1, <1>2, <1>3, PaidAfterBounded DEF TypeOK
    <2>5. clean' \subseteq Invoices
      BY <1>1 DEF TypeOK
    <2>6. QED
      BY <2>1, <2>3, <2>4, <2>5 DEF TypeOK
  <1>7. LedgerCoherent'
    <2>1. ASSUME NEW j \in Invoices
          PROVE  /\ invoice'[j].paid <= Total[j]
                 /\ invoice'[j].status = "paid" =>
                      invoice'[j].paid = Total[j] /\ invoice'[j].paidAt
                 /\ invoice'[j].paidAt =>
                      invoice'[j].paid = Total[j] /\ invoice'[j].status \in {"paid", "cancelled"}
      <3>1. CASE j = i
        <4>1. CASE new >= Total[i]
          BY <1>1, <1>3, <3>1, <4>1
        <4>2. CASE ~(new >= Total[i])
          BY <1>1, <1>3, <3>1, <4>2
        <4>3. QED
          BY <4>1, <4>2
      <3>2. CASE j # i
        <4>1. invoice'[j] = invoice[j]
          BY <1>1, <3>2
        <4>2. QED
          BY <4>1 DEF LedgerCoherent
      <3>3. QED
        BY <3>1, <3>2
    <2>2. QED
      BY <2>1 DEF LedgerCoherent
  <1>8. PaymentsCounted'
    <2>1. i \in clean' => new = credited'[i]
      <3>1. CASE p.fresh /\ i \in clean
        <4>1. p.seen = credited[i]
          BY <1>1, <1>2, <3>1 DEF PaymentsCounted
        <4>2. QED
          BY <1>1, <4>1 DEF TypeOK
      <3>2. CASE ~(p.fresh /\ i \in clean)
        BY <1>1, <3>2
      <3>3. QED
        BY <3>1, <3>2
    <2>2. ASSUME NEW j \in Invoices
          PROVE  /\ invoice'[j].paid <= credited'[j]
                 /\ j \in clean' => invoice'[j].paid = credited'[j]
      <3>1. CASE j = i
        BY <1>1, <1>4, <2>1, <3>1
      <3>2. CASE j # i
        <4>1. invoice'[j] = invoice[j] /\ credited'[j] = credited[j]
          BY <1>1, <1>4, <3>2
        <4>2. j \in clean' => j \in clean
          BY <1>1
        <4>3. QED
          BY <4>1, <4>2 DEF PaymentsCounted
      <3>3. QED
        BY <3>1, <3>2
    <2>3. QED
      BY <2>2 DEF PaymentsCounted
  <1>9. \A j \in Invoices : credited'[j] <= Total[j]
    BY <1>4
  <1>10. ASSUME NEW v \in Workers
         PROVE  PaymentInv(v)'
    <2> SUFFICES ASSUME req'[v] # NoRequest
                 PROVE  PaymentInv(v)'
      BY DEF PaymentInv
    <2>1. v # w /\ req[v] # NoRequest /\ PaymentInv(v)
      BY <1>5 DEF Outdated
    <2>2. req[v] \in Payment
      BY <2>1 DEF TypeOK
    <2>3. CASE req[v].invoice = i
      <3>1. req'[v] = [req[v] EXCEPT !.fresh = FALSE]
        BY <1>5, <2>1, <2>3 DEF Outdated
      <3>2. /\ req'[v].fresh = FALSE
            /\ req'[v].seen = req[v].seen
            /\ req'[v].invoice = i
        BY <2>2, <2>3, <3>1 DEF Payment
      <3>3. req[v].seen <= credited[i] /\ req[v].seen \in Nat
        BY <2>1, <2>2, <2>3 DEF PaymentInv, Payment
      <3>4. req[v].seen <= credited'[i]
        BY <1>3, <1>4, <3>3
      <3>5. QED
        BY <3>2, <3>4 DEF PaymentInv
    <2>4. CASE req[v].invoice # i
      <3>1. req'[v] = req[v]
        BY <1>5, <2>1, <2>4 DEF Outdated
      <3>2. req[v].invoice \in Invoices
        BY <2>2 DEF Payment
      <3>3. /\ invoice'[req[v].invoice] = invoice[req[v].invoice]
            /\ credited'[req[v].invoice] = credited[req[v].invoice]
        BY <1>1, <1>4, <2>4, <3>2
      <3>4. QED
        BY <2>1, <3>1, <3>3 DEF PaymentInv
    <2>5. QED
      BY <2>3, <2>4
  <1>11. QED
    BY <1>6, <1>7, <1>8, <1>9, <1>10

\* Every step of the specification keeps the inductive invariant.
LEMMA NextPreserves == IInv /\ [Next]_vars => IInv'
  <1> SUFFICES ASSUME IInv, [Next]_vars PROVE IInv'
    OBVIOUS
  <1>1. ASSUME NEW i \in Invoices, create(i) PROVE IInv'
    BY <1>1, CreatePreserves
  <1>2. ASSUME NEW i \in Invoices, cancel(i) PROVE IInv'
    BY <1>2, CancelPreserves
  <1>3. ASSUME NEW i \in Invoices, remove(i) PROVE IInv'
    BY <1>3, RemovePreserves
  <1>4. ASSUME NEW i \in Invoices, claimPayment(i) PROVE IInv'
    BY <1>4, ClaimPreserves
  <1>5. ASSUME NEW w \in Workers, NEW i \in Invoices, NEW amount \in Amounts \cup {InFull},
               BeginPayment(w, i, amount)
        PROVE  IInv'
    BY <1>5, BeginPreserves
  <1>6. ASSUME NEW w \in Workers, CommitPayment(w) PROVE IInv'
    BY <1>6, CommitPreserves
  <1>7. ASSUME NEW w \in Workers, FailPayment(w) PROVE IInv'
    BY <1>7, FailPreserves
  <1>8. CASE UNCHANGED vars
    BY <1>8 DEF IInv, TypeOK, LedgerCoherent, PaymentsCounted, PaymentInv, vars
  <1>9. QED
    BY <1>1, <1>2, <1>3, <1>4, <1>5, <1>6, <1>7, <1>8 DEF Next

\* The inductive invariant holds in every reachable state.
THEOREM InvoicesInductive == Spec => []IInv
  BY InitEstablishes, NextPreserves, PTL DEF Spec

\* Every variable keeps its type.
THEOREM InvoicesTyped == Spec => []TypeOK
  <1>1. IInv => TypeOK
    BY DEF IInv
  <1>2. QED
    BY <1>1, InvoicesInductive, PTL

\* Paid amount, status and payment date agree on every invoice.
THEOREM LedgersAreCoherent == Spec => []LedgerCoherent
  <1>1. IInv => LedgerCoherent
    BY DEF IInv
  <1>2. QED
    BY <1>1, InvoicesInductive, PTL

\* No payment counts twice, and on a clean invoice none is lost.
THEOREM PaymentsAreCounted == Spec => []PaymentsCounted
  <1>1. IInv => PaymentsCounted
    BY DEF IInv
  <1>2. QED
    BY <1>1, InvoicesInductive, PTL

-----------------------------------------------------------------------------
(* What is settled stays settled *)

\* The relation SettledStays asks of a step.
Settled(i) ==
    /\ invoice'[i].paid >= invoice[i].paid
    /\ invoice[i].status = "paid" => invoice'[i].status \in {"paid", "cancelled"}
    /\ invoice[i].status = "cancelled" => invoice'[i].status = "cancelled"

\* A step that leaves the paid amount alone, and the status or cancels it, is settled.
LEMMA UnwrittenIsSettled ==
    ASSUME IInv, NEW i \in Invoices,
           invoice'[i].paid = invoice[i].paid,
           \/ invoice'[i].status = invoice[i].status
           \/ invoice'[i].status = "cancelled"
           \/ invoice[i].status = "none"
    PROVE  Settled(i)
  <1>1. invoice[i].paid \in Nat
    BY DEF IInv, TypeOK, InvoiceRow
  <1>2. QED
    BY <1>1 DEF Settled

\* A payment written from a fresh read is settled; a stale one takes its invoice out of clean.
LEMMA CommitIsSettled ==
    ASSUME IInv, NEW w \in Workers, CommitPayment(w), NEW j \in Invoices, j \in clean'
    PROVE  Settled(j)
  <1>1. PICK p \in Payment, i \in Invoices, new \in Nat : CommitFacts(w, p, i, new)
    BY CommitEffect
  <1>2. CASE j # i
    <2>1. invoice'[j] = invoice[j]
      BY <1>1, <1>2 DEF CommitFacts
    <2>2. QED
      BY <2>1, UnwrittenIsSettled
  <1>3. CASE j = i
    <2>1. p.fresh
      BY <1>1, <1>3 DEF CommitFacts
    <2>2. p # NoRequest
      BY NoPaymentAssumption
    <2>3. p.seen = invoice[i].paid /\ invoice[i].status # "cancelled"
      BY <1>1, <2>1, <2>2 DEF CommitFacts, IInv, PaymentInv
    <2>4. invoice[i].paid \in Nat
      BY DEF IInv, TypeOK, InvoiceRow
    <2>5. Total[i] \in Nat
      BY InvoicesAssumption
    <2>6. /\ invoice'[i].paid = new
          /\ p.seen <= new
          /\ new >= Total[i] => invoice'[i].status = "paid"
      BY <1>1 DEF CommitFacts
    <2>7. invoice[i].status = "paid" => new >= Total[i]
      BY <2>3, <2>4, <2>5, <2>6 DEF IInv, LedgerCoherent
    <2>8. QED
      BY <1>3, <2>3, <2>4, <2>6, <2>7 DEF Settled
  <1>4. QED
    BY <1>2, <1>3

\* Every step is settled on the invoices that stay clean.
LEMMA StepsAreSettled ==
    ASSUME IInv, [Next]_vars, NEW j \in Invoices, j \in clean'
    PROVE  Settled(j)
  <1> USE DEF IInv
  <1>1. ASSUME NEW i \in Invoices, create(i) PROVE Settled(j)
    BY <1>1, UnwrittenIsSettled DEF create, TypeOK, InvoiceRow
  <1>2. ASSUME NEW i \in Invoices, cancel(i) PROVE Settled(j)
    BY <1>2, UnwrittenIsSettled DEF cancel, TypeOK, InvoiceRow
  <1>3. ASSUME NEW i \in Invoices, remove(i) PROVE Settled(j)
    BY <1>3, UnwrittenIsSettled DEF remove, TypeOK, InvoiceRow
  <1>4. ASSUME NEW i \in Invoices, claimPayment(i) PROVE Settled(j)
    BY <1>4, UnwrittenIsSettled DEF claimPayment, TypeOK, InvoiceRow
  <1>5. ASSUME NEW w \in Workers, NEW i \in Invoices, NEW amount \in Amounts \cup {InFull},
               BeginPayment(w, i, amount)
        PROVE  Settled(j)
    BY <1>5, UnwrittenIsSettled DEF BeginPayment, Begin
  <1>6. ASSUME NEW w \in Workers, CommitPayment(w) PROVE Settled(j)
    BY <1>6, CommitIsSettled
  <1>7. ASSUME NEW w \in Workers, FailPayment(w) PROVE Settled(j)
    BY <1>7, UnwrittenIsSettled DEF FailPayment, Done
  <1>8. CASE UNCHANGED vars
    BY <1>8, UnwrittenIsSettled DEF vars
  <1>9. QED
    BY <1>1, <1>2, <1>3, <1>4, <1>5, <1>6, <1>7, <1>8 DEF Next

\* On a clean invoice the paid amount never decreases, paid stays paid or is cancelled,
\* and cancelled stays cancelled.
THEOREM SettledInvoicesStay == Spec => SettledStays
  <1>1. IInv /\ [Next]_vars =>
          [\A i \in clean' :
             /\ invoice'[i].paid >= invoice[i].paid
             /\ invoice[i].status = "paid" => invoice'[i].status \in {"paid", "cancelled"}
             /\ invoice[i].status = "cancelled" => invoice'[i].status = "cancelled"]_vars
    <2> SUFFICES ASSUME IInv, [Next]_vars, NEW i \in clean'
                 PROVE  Settled(i)
      BY DEF Settled
    <2>1. IInv'
      BY NextPreserves
    <2>2. i \in Invoices
      BY <2>1 DEF IInv, TypeOK
    <2>3. QED
      BY <2>2, StepsAreSettled
  <1>2. QED
    BY <1>1, InvoicesInductive, PTL DEF Spec, SettledStays

-----------------------------------------------------------------------------
(* Registration numbers *)

\* The applications there are, deleted ones too, since they keep their numbers.
AllFiled == {a \in Apps : Filed(a)}
\* The invoices there are.
AllIssued == {i \in InvoiceIds : Issued(i)}

\* A number that was asked for comes from a count of the year that can only have grown since; while
\* no other number of the year was given in between, all of them are below it.
CountsOfApplication(q) ==
    /\ ~Filed(q.row)
    /\ \/ q.year \in departed
       \/ /\ q.no.seq <= Cardinality(Counted(q.year)) + 1
          /\ q.fresh => \A a \in Apps : Filed(a) /\ app[a].numberedIn = q.year => app[a].no.seq < q.no.seq

\* The same for the number of an invoice, counted in the year its application is in.
CountsOfInvoice(q) ==
    /\ ~Issued(q.row) /\ Filed(q.app)
    /\ \/ q.year \in departed
       \/ /\ app[q.app].year = q.year
          /\ q.no.seq <= Cardinality(CountedInvoices(q.year)) + 1
          /\ q.fresh => \A i \in InvoiceIds :
                Issued(i) /\ issued[i].numberedIn = q.year => issued[i].no.seq < q.no.seq

\* What a request has counted, and that no other request is about to fill its row.
NumberRead(w) ==
    req[w] # NoRequest =>
        /\ req[w].op = "create" => CountsOfApplication(req[w])
        /\ req[w].op = "invoice" => CountsOfInvoice(req[w])
        /\ \A v \in Workers \ {w} : req[v] # NoRequest => req[v].row # req[w].row

\* The number of an application is at most the count of its year, unless one that was counted left
\* the year.
ApplicationCounted(a) ==
    \/ app[a].numberedIn \in departed
    \/ /\ app[a].year = app[a].numberedIn
       /\ app[a].no.seq <= Cardinality(Counted(app[a].numberedIn))

\* The same for the number of an invoice.
InvoiceCounted(i) ==
    /\ Filed(issued[i].app)
    /\ \/ issued[i].numberedIn \in departed
       \/ /\ app[issued[i].app].year = issued[i].numberedIn
          /\ issued[i].no.seq <= Cardinality(CountedInvoices(issued[i].numberedIn))

\* No number is beyond the count of its year.
NumbersCounted ==
    /\ \A a \in Apps : Filed(a) => ApplicationCounted(a)
    /\ \A i \in InvoiceIds : Issued(i) => InvoiceCounted(i)

\* The inductive invariant of Registration: numbers are given out by counting, so that a new one
\* differs from the old ones because none of them is beyond the count.
RegistrationInv ==
    /\ RegistrationTypeOK
    /\ IsFiniteSet(AllFiled) /\ IsFiniteSet(AllIssued)
    /\ NumbersGivenOnce /\ NumbersCounted
    /\ \A w \in Workers : NumberRead(w)

\* A step that takes no number away: rows stay, with their numbers and, but for departed, years.
NumbersStay ==
    /\ departed \subseteq departed'
    /\ miscounted \subseteq miscounted'
    /\ \A a \in Apps : Filed(a) =>
          /\ Filed(a)' /\ app'[a].no = app[a].no /\ app'[a].numberedIn = app[a].numberedIn
          /\ app[a].year \in departed' \/ app'[a].year = app[a].year
    /\ \A i \in InvoiceIds : Issued(i) => Issued(i)' /\ issued'[i] = issued[i]

\* Then the count of a year that none has left does not shrink.
LEMMA CountsGrow ==
  ASSUME RegistrationInv, NumbersStay, IsFiniteSet(AllFiled'), IsFiniteSet(AllIssued'),
         NEW y, y \notin departed'
  PROVE  /\ Cardinality(Counted(y)) \in Nat /\ Cardinality(Counted(y)') \in Nat
         /\ Cardinality(Counted(y)) <= Cardinality(Counted(y)')
         /\ Cardinality(CountedInvoices(y)) \in Nat /\ Cardinality(CountedInvoices(y)') \in Nat
         /\ Cardinality(CountedInvoices(y)) <= Cardinality(CountedInvoices(y)')
<1>1. Counted(y) \subseteq Counted(y)'
  BY DEF Counted, NumbersStay
<1>2. Counted(y)' \subseteq AllFiled' /\ CountedInvoices(y)' \subseteq AllIssued'
  BY DEF Counted, CountedInvoices, AllFiled, AllIssued
<1>3. ASSUME NEW i \in CountedInvoices(y) PROVE i \in CountedInvoices(y)'
  <2>1. i \in InvoiceIds /\ Issued(i) /\ app[issued[i].app].year = y
    BY <1>3 DEF CountedInvoices
  <2>2. issued[i] \in Invoice
    BY <2>1 DEF RegistrationInv, RegistrationTypeOK, Issued
  <2>3. issued[i].app \in Apps /\ Filed(issued[i].app)
    BY <2>1, <2>2 DEF RegistrationInv, NumbersCounted, InvoiceCounted, Invoice
  <2> QED
    BY <2>1, <2>3 DEF NumbersStay, CountedInvoices
<1>4. CountedInvoices(y) \subseteq CountedInvoices(y)'
  BY <1>3
<1>5. IsFiniteSet(Counted(y)') /\ IsFiniteSet(CountedInvoices(y)')
  BY <1>2, FS_Subset
<1>6. /\ IsFiniteSet(Counted(y)) /\ Cardinality(Counted(y)) <= Cardinality(Counted(y)')
      /\ IsFiniteSet(CountedInvoices(y))
      /\ Cardinality(CountedInvoices(y)) <= Cardinality(CountedInvoices(y)')
  BY <1>1, <1>4, <1>5, FS_Subset
<1> QED
  BY <1>5, <1>6, FS_CardinalityType

\* The fields of a request that asks for a number.
LEMMA NumberRequestFields ==
  ASSUME RegistrationTypeOK, NEW w \in Workers, req[w] # NoRequest
  PROVE  /\ req[w] \in NumberRequest /\ req[w].op \in {"create", "invoice"}
         /\ req[w].no \in Number /\ req[w].year \in Years /\ req[w].no.seq \in Nat \ {0}
         /\ req[w].fresh \in BOOLEAN
         /\ req[w].op = "create" => req[w].row \in Apps /\ req[w].code \in AccessCodes
         /\ req[w].op = "invoice" => req[w].row \in InvoiceIds /\ req[w].app \in Apps
<1>1. req[w] \in NumberRequest
  BY DEF RegistrationTypeOK
<1> QED
  BY <1>1 DEF NumberRequest, Number

\* What was true of the rows that there are stays true.
LEMMA CountedStays ==
  ASSUME RegistrationInv, NumbersStay, IsFiniteSet(AllFiled'), IsFiniteSet(AllIssued'),
         RegistrationTypeOK'
  PROVE  /\ \A a \in Apps : Filed(a) => ApplicationCounted(a)'
         /\ \A i \in InvoiceIds : Issued(i) => InvoiceCounted(i)'
<1>1. ASSUME NEW a \in Apps, Filed(a), NEW y, y = app[a].numberedIn PROVE ApplicationCounted(a)'
  <2>1. /\ app'[a].no = app[a].no /\ app'[a].numberedIn = app[a].numberedIn
        /\ app[a].no.seq \in Nat
    BY <1>1 DEF NumbersStay, RegistrationInv, RegistrationTypeOK, Application, Number, Filed
  <2>2. CASE y \in departed'
    BY <1>1, <2>1, <2>2 DEF ApplicationCounted
  <2>3. CASE y \notin departed'
    <3>1. app[a].year = y /\ app[a].no.seq <= Cardinality(Counted(y))
      BY <1>1, <2>3 DEF RegistrationInv, NumbersCounted, ApplicationCounted, NumbersStay
    <3>2. app'[a].year = y
      BY <1>1, <2>3, <3>1 DEF NumbersStay
    <3>3. /\ Cardinality(Counted(y)) \in Nat /\ Cardinality(Counted(y)') \in Nat
          /\ Cardinality(Counted(y)) <= Cardinality(Counted(y)')
      BY <2>3, CountsGrow
    <3>4. app[a].no.seq <= Cardinality(Counted(y)')
      BY <2>1, <3>1, <3>3
    <3> QED
      BY <1>1, <2>1, <3>2, <3>4 DEF ApplicationCounted
  <2> QED
    BY <2>2, <2>3
<1>2. ASSUME NEW i \in InvoiceIds, Issued(i), NEW y, y = issued[i].numberedIn PROVE InvoiceCounted(i)'
  <2>1. issued'[i] = issued[i] /\ issued[i] \in Invoice
    BY <1>2 DEF NumbersStay, RegistrationInv, RegistrationTypeOK, Issued
  <2>2. issued[i].app \in Apps /\ Filed(issued[i].app) /\ issued[i].no.seq \in Nat
    BY <1>2, <2>1 DEF RegistrationInv, NumbersCounted, InvoiceCounted, Invoice, Number
  <2>3. app'[issued[i].app] # NoNumber /\ Filed(issued[i].app)'
    <3> HIDE <1>2
    <3> QED
      BY <2>1, <2>2 DEF NumbersStay, Filed
  <2>4. CASE y \in departed'
    BY <1>2, <2>1, <2>3, <2>4 DEF InvoiceCounted, Filed
  <2>5. CASE y \notin departed'
    <3>1. app[issued[i].app].year = y /\ issued[i].no.seq <= Cardinality(CountedInvoices(y))
      BY <1>2, <2>5 DEF RegistrationInv, NumbersCounted, InvoiceCounted, NumbersStay
    <3>3. app'[issued[i].app].year = y
      BY <2>2, <2>5, <3>1 DEF NumbersStay
    <3>4. /\ Cardinality(CountedInvoices(y)) \in Nat /\ Cardinality(CountedInvoices(y)') \in Nat
          /\ Cardinality(CountedInvoices(y)) <= Cardinality(CountedInvoices(y)')
      BY <2>5, CountsGrow
    <3>5. issued[i].no.seq <= Cardinality(CountedInvoices(y)')
      BY <2>2, <3>1, <3>4
    <3> QED
      BY <1>2, <2>1, <2>3, <3>3, <3>5 DEF InvoiceCounted, Filed
  <2> QED
    BY <2>4, <2>5
<1> QED
  BY <1>1, <1>2

\* What was given once stays given once.
LEMMA OnceStays ==
  ASSUME RegistrationInv, NumbersStay
  PROVE  /\ \A a, b \in Apps :
               a # b /\ Filed(a) /\ Filed(b) /\ app'[a].no = app'[b].no
                  /\ app'[a].numberedIn = app'[b].numberedIn =>
                  {a, b} \cap miscounted' # {} \/ app'[a].numberedIn \in departed'
         /\ \A i, j \in InvoiceIds :
               i # j /\ Issued(i) /\ Issued(j) /\ issued'[i].no = issued'[j].no
                  /\ issued'[i].numberedIn = issued'[j].numberedIn =>
                  {i, j} \cap miscounted' # {} \/ issued'[i].numberedIn \in departed'
<1>1. ASSUME NEW a \in Apps, NEW b \in Apps, a # b, Filed(a), Filed(b), app'[a].no = app'[b].no,
             app'[a].numberedIn = app'[b].numberedIn
      PROVE  {a, b} \cap miscounted' # {} \/ app'[a].numberedIn \in departed'
  <2>1. /\ app[a].no = app[b].no /\ app[a].numberedIn = app[b].numberedIn
        /\ app'[a].numberedIn = app[a].numberedIn
    BY <1>1 DEF NumbersStay
  <2>2. {a, b} \cap miscounted # {} \/ app[a].numberedIn \in departed
    BY <1>1, <2>1 DEF RegistrationInv, NumbersGivenOnce, NumbersUnique
  <2> QED
    BY <2>1, <2>2 DEF NumbersStay
<1>2. ASSUME NEW i \in InvoiceIds, NEW j \in InvoiceIds, i # j, Issued(i), Issued(j),
             issued'[i].no = issued'[j].no, issued'[i].numberedIn = issued'[j].numberedIn
      PROVE  {i, j} \cap miscounted' # {} \/ issued'[i].numberedIn \in departed'
  <2>1. /\ issued[i].no = issued[j].no /\ issued[i].numberedIn = issued[j].numberedIn
        /\ issued'[i].numberedIn = issued[i].numberedIn
    BY <1>2 DEF NumbersStay
  <2>2. {i, j} \cap miscounted # {} \/ issued[i].numberedIn \in departed
    BY <1>2, <2>1 DEF RegistrationInv, NumbersGivenOnce, InvoiceNumbersUnique
  <2> QED
    BY <2>1, <2>2 DEF NumbersStay
<1> QED
  BY <1>1, <1>2

\* A request keeps what it has counted, unless a new row has a number of its kind and year.
LEMMA ReadStays ==
  ASSUME RegistrationInv, NumbersStay, IsFiniteSet(AllFiled'), IsFiniteSet(AllIssued'),
         NEW w \in Workers, req[w] # NoRequest, NEW fresh \in BOOLEAN, fresh => req[w].fresh,
         NEW q, q = [req[w] EXCEPT !.fresh = fresh],
         \A a \in Apps : Filed(a)' /\ ~Filed(a) =>
            /\ a # req[w].row
            /\ fresh /\ req[w].op = "create" => app'[a].numberedIn # req[w].year,
         \A i \in InvoiceIds : Issued(i)' /\ ~Issued(i) =>
            /\ i # req[w].row
            /\ fresh /\ req[w].op = "invoice" => issued'[i].numberedIn # req[w].year
  PROVE  /\ q.op = req[w].op /\ q.row = req[w].row
         /\ q.op = "create" => CountsOfApplication(q)'
         /\ q.op = "invoice" => CountsOfInvoice(q)'
<1>5. PICK y : y = req[w].year
  OBVIOUS
<1>1. /\ req[w] \in NumberRequest /\ req[w].op \in {"create", "invoice"} /\ y \in Years
      /\ req[w].no.seq \in Nat
      /\ req[w].op = "create" => req[w].row \in Apps
      /\ req[w].op = "invoice" => req[w].row \in InvoiceIds /\ req[w].app \in Apps
  BY <1>5, NumberRequestFields DEF RegistrationInv
<1>2. /\ q.op = req[w].op /\ q.row = req[w].row /\ q.no = req[w].no /\ q.fresh = fresh
      /\ q.op = "invoice" => q.app = req[w].app
  BY <1>1 DEF NumberRequest
<1>3. ASSUME q.op = "create" PROVE CountsOfApplication(q)'
  <2>1. CountsOfApplication(req[w])
    BY <1>2, <1>3 DEF RegistrationInv, NumberRead
  <2>2. ~Filed(q.row)'
    BY <1>1, <1>2, <1>3, <2>1 DEF CountsOfApplication
  <2>3. CASE y \in departed'
    BY <1>2, <2>2, <2>3, <1>5 DEF CountsOfApplication
  <2>4. CASE y \notin departed'
    <3>1. y \notin departed
      BY <2>4 DEF NumbersStay
    <3>2. /\ req[w].no.seq <= Cardinality(Counted(y)) + 1
          /\ req[w].fresh => \A a \in Apps : Filed(a) /\ app[a].numberedIn = y => app[a].no.seq < req[w].no.seq
      BY <2>1, <3>1, <1>5 DEF CountsOfApplication
    <3>3. /\ Cardinality(Counted(y)) \in Nat /\ Cardinality(Counted(y)') \in Nat
          /\ Cardinality(Counted(y)) <= Cardinality(Counted(y)')
      BY <2>4, CountsGrow
    <3>4. req[w].no.seq <= Cardinality(Counted(y)') + 1
      BY <1>1, <3>2, <3>3
    <3>5. ASSUME fresh, NEW a \in Apps, Filed(a)', app'[a].numberedIn = y
          PROVE  app'[a].no.seq < req[w].no.seq
      <4>1. Filed(a)
        BY <1>2, <1>3, <1>5, <3>5
      <4> QED
        BY <3>2, <3>5, <4>1 DEF NumbersStay
    <3> QED
      BY <1>2, <2>2, <3>4, <3>5, <1>5 DEF CountsOfApplication
  <2> QED
    BY <2>3, <2>4
<1>4. ASSUME q.op = "invoice" PROVE CountsOfInvoice(q)'
  <2>1. CountsOfInvoice(req[w])
    BY <1>2, <1>4 DEF RegistrationInv, NumberRead
  <2>2. ~Issued(q.row)' /\ Filed(q.app)'
    BY <1>1, <1>2, <1>4, <2>1 DEF CountsOfInvoice, NumbersStay
  <2>3. CASE y \in departed'
    BY <1>2, <2>2, <2>3, <1>5 DEF CountsOfInvoice
  <2>4. CASE y \notin departed'
    <3>1. y \notin departed
      BY <2>4 DEF NumbersStay
    <3>2. /\ app[req[w].app].year = y
          /\ req[w].no.seq <= Cardinality(CountedInvoices(y)) + 1
          /\ req[w].fresh =>
                \A i \in InvoiceIds :
                    Issued(i) /\ issued[i].numberedIn = y => issued[i].no.seq < req[w].no.seq
      BY <2>1, <3>1, <1>5 DEF CountsOfInvoice
    <3>6. app'[q.app].year = y
      BY <1>1, <1>2, <1>4, <2>1, <2>4, <3>2, <1>5 DEF CountsOfInvoice, NumbersStay
    <3>3. /\ Cardinality(CountedInvoices(y)) \in Nat /\ Cardinality(CountedInvoices(y)') \in Nat
          /\ Cardinality(CountedInvoices(y)) <= Cardinality(CountedInvoices(y)')
      BY <2>4, CountsGrow
    <3>4. req[w].no.seq <= Cardinality(CountedInvoices(y)') + 1
      BY <1>1, <3>2, <3>3
    <3>5. ASSUME fresh, NEW i \in InvoiceIds, Issued(i)', issued'[i].numberedIn = y
          PROVE  issued'[i].no.seq < req[w].no.seq
      <4>1. Issued(i)
        BY <1>2, <1>4, <1>5, <3>5
      <4> QED
        BY <3>2, <3>5, <4>1 DEF NumbersStay
    <3> QED
      BY <1>2, <2>2, <3>4, <3>5, <3>6, <1>5 DEF CountsOfInvoice
  <2> QED
    BY <2>3, <2>4
<1> QED
  BY <1>2, <1>3, <1>4

\* No application, no invoice and no request at the start.
LEMMA RegistrationBegins == RegistrationInit => RegistrationInv
<1> SUFFICES ASSUME RegistrationInit PROVE RegistrationInv
  OBVIOUS
<1>1. AllFiled = {} /\ AllIssued = {} /\ (\A a \in Apps : ~Filed(a)) /\ \A i \in InvoiceIds : ~Issued(i)
  BY DEF AllFiled, AllIssued, Filed, Issued, RegistrationInit
<1>2. RegistrationTypeOK
  BY DEF RegistrationInit, RegistrationTypeOK, Idle
<1>3. \A w \in Workers : NumberRead(w)
  BY DEF NumberRead, RegistrationInit, Idle
<1> QED
  BY <1>1, <1>2, <1>3, FS_EmptySet
     DEF RegistrationInv, NumbersGivenOnce, NumbersUnique, InvoiceNumbersUnique, NumbersCounted

\* Steps that add no row.
LEMMA NoNewNumber ==
  ASSUME RegistrationInv, NumbersStay, RegistrationTypeOK',
         \A a \in Apps : Filed(a)' => Filed(a),
         \A i \in InvoiceIds : Issued(i)' => Issued(i),
         \A w \in Workers : req'[w] # NoRequest => req'[w] = req[w]
  PROVE  RegistrationInv'
<1>1. AllFiled' = AllFiled /\ AllIssued' = AllIssued
  BY DEF AllFiled, AllIssued, NumbersStay
<1>2. IsFiniteSet(AllFiled') /\ IsFiniteSet(AllIssued')
  BY <1>1 DEF RegistrationInv
<1>3. NumbersCounted'
  BY <1>2, CountedStays DEF NumbersCounted
<1>4. NumbersGivenOnce'
  BY OnceStays DEF NumbersGivenOnce, NumbersUnique, InvoiceNumbersUnique
<1>5. ASSUME NEW w \in Workers PROVE NumberRead(w)'
  <2> SUFFICES ASSUME req'[w] # NoRequest PROVE NumberRead(w)'
    BY DEF NumberRead
  <2>1. req'[w] = req[w] /\ req[w] # NoRequest
    OBVIOUS
  <2>2. req[w] \in NumberRequest /\ req[w].fresh \in BOOLEAN
    BY <2>1, NumberRequestFields DEF RegistrationInv
  <2>3. req[w] = [req[w] EXCEPT !.fresh = req[w].fresh]
    BY <2>2 DEF NumberRequest
  <2>4. /\ req[w].op = "create" => CountsOfApplication(req[w])'
        /\ req[w].op = "invoice" => CountsOfInvoice(req[w])'
    <3> DEFINE q == req[w]
    <3> QED
      BY <1>2, <2>1, <2>2, <2>3, ReadStays
  <2>5. \A v \in Workers \ {w} : req'[v] # NoRequest => req'[v].row # req'[w].row
    BY <2>1 DEF RegistrationInv, NumberRead
  <2> QED
    BY <2>1, <2>4, <2>5 DEF NumberRead
<1> QED
  BY <1>2, <1>3, <1>4, <1>5 DEF RegistrationInv

\* Counting the rows, and asking for a number.
LEMMA BeginNumberKeeps ==
  ASSUME RegistrationInv, NEW w \in Workers, NEW q \in NumberRequest,
         req[w] = NoRequest, req' = [req EXCEPT ![w] = q],
         UNCHANGED <<app, issued, miscounted, departed>>, ~Reserved(q.row),
         q.op = "create" => CountsOfApplication(q),
         q.op = "invoice" => CountsOfInvoice(q)
  PROVE  RegistrationInv'
<1>1. RegistrationTypeOK' /\ req'[w] = q /\ \A v \in Workers \ {w} : req'[v] = req[v]
  BY DEF RegistrationInv, RegistrationTypeOK
<1>2. \A x : CountsOfApplication(x)' <=> CountsOfApplication(x)
  BY DEF CountsOfApplication, Filed, Counted
<1>3. \A x : CountsOfInvoice(x)' <=> CountsOfInvoice(x)
  BY DEF CountsOfInvoice, Filed, Issued, CountedInvoices
<1>4. ASSUME NEW v \in Workers PROVE NumberRead(v)'
  <2>1. CASE v = w
    <3>1. \A u \in Workers \ {w} : req'[u] # NoRequest => req'[u].row # q.row
      BY <1>1 DEF Reserved
    <3> QED
      BY <1>1, <1>2, <1>3, <2>1, <3>1 DEF NumberRead
  <2>2. CASE v # w
    <3>1. req'[v] = req[v] /\ (req[v] # NoRequest => req[v].row # q.row)
      BY <1>1, <2>2 DEF Reserved
    <3>2. \A u \in Workers \ {v} : req[v] # NoRequest /\ req'[u] # NoRequest => req'[u].row # req[v].row
      BY <1>1, <2>2, <3>1 DEF RegistrationInv, NumberRead
    <3>3. NumberRead(v)
      BY DEF RegistrationInv
    <3> QED
      BY <1>2, <1>3, <3>1, <3>2, <3>3 DEF NumberRead
  <2> QED
    BY <2>1, <2>2
<1>5. AllFiled' = AllFiled /\ AllIssued' = AllIssued
  BY DEF AllFiled, AllIssued, Filed, Issued
<1>6. NumbersGivenOnce' /\ NumbersCounted'
  BY DEF RegistrationInv, NumbersGivenOnce, NumbersUnique, InvoiceNumbersUnique, NumbersCounted,
         ApplicationCounted, InvoiceCounted, Counted, CountedInvoices, Filed, Issued
<1> QED
  BY <1>1, <1>4, <1>5, <1>6 DEF RegistrationInv

\* An application is one more than the applications of its year (createPublic, create).
LEMMA BeginApplicationKeeps ==
  ASSUME RegistrationInv, NEW w \in Workers, NEW a \in Apps, NEW year \in Years,
         NEW code \in AccessCodes, BeginApplication(w, a, year, code)
  PROVE  RegistrationInv'
<1> DEFINE no == NextNumber(year, Counted(year))
           q == [op |-> "create", row |-> a, code |-> code, year |-> year, no |-> no, fresh |-> TRUE]
<1>1. Counted(year) \subseteq AllFiled
  BY DEF Counted, AllFiled
<1>2. Cardinality(Counted(year)) \in Nat
  BY <1>1, FS_Subset, FS_CardinalityType DEF RegistrationInv
<1>3. no \in Number /\ no.seq = Cardinality(Counted(year)) + 1
  BY <1>2 DEF NextNumber, Number
<1> HIDE DEF no
<1>4. q \in NumberRequest
  BY <1>3 DEF NumberRequest
<1>5. ASSUME year \notin departed, NEW b \in Apps, Filed(b), app[b].numberedIn = year
      PROVE  app[b].no.seq < no.seq
  <2>1. app[b].no.seq \in Nat
    BY <1>5 DEF RegistrationInv, RegistrationTypeOK, Application, Number, Filed
  <2>2. app[b].no.seq <= Cardinality(Counted(year))
    BY <1>5 DEF RegistrationInv, NumbersCounted, ApplicationCounted
  <2> QED
    BY <1>2, <1>3, <2>1, <2>2
<1>6. CountsOfApplication(q)
  BY <1>2, <1>3, <1>5 DEF CountsOfApplication, BeginApplication
<1>7. /\ req[w] = NoRequest /\ req' = [req EXCEPT ![w] = q] /\ ~Reserved(a)
      /\ UNCHANGED <<app, issued, miscounted, departed>>
  BY DEF BeginApplication, Begin, no
<1>8. q.row = a /\ q.op = "create"
  OBVIOUS
<1> HIDE DEF q
<1> QED
  BY <1>4, <1>6, <1>7, <1>8, BeginNumberKeeps

\* An invoice is one more than the invoices of its application's year.
LEMMA BeginInvoiceKeeps ==
  ASSUME RegistrationInv, NEW w \in Workers, NEW i \in InvoiceIds, NEW a \in Apps,
         BeginInvoice(w, i, a)
  PROVE  RegistrationInv'
<1>0. PICK year : year = app[a].year
  OBVIOUS
<1>1. CountedInvoices(year) \subseteq AllIssued /\ year \in Years
  BY <1>0 DEF CountedInvoices, AllIssued, BeginInvoice, LiveApplication, Filed, RegistrationInv,
              RegistrationTypeOK, Application
<1> DEFINE no == NextNumber(year, CountedInvoices(year))
           q == [op |-> "invoice", row |-> i, app |-> a, year |-> year, fresh |-> TRUE, no |-> no]
<1>2. Cardinality(CountedInvoices(year)) \in Nat
  BY <1>1, FS_Subset, FS_CardinalityType DEF RegistrationInv
<1>3. no \in Number /\ no.seq = Cardinality(CountedInvoices(year)) + 1
  BY <1>1, <1>2 DEF NextNumber, Number
<1> HIDE DEF no
<1>4. q \in NumberRequest
  BY <1>1, <1>3 DEF NumberRequest
<1>5. ASSUME year \notin departed, NEW j \in InvoiceIds, Issued(j), issued[j].numberedIn = year
      PROVE  issued[j].no.seq < no.seq
  <2>1. issued[j].no.seq \in Nat
    BY <1>5 DEF RegistrationInv, RegistrationTypeOK, Invoice, Number, Issued
  <2>2. issued[j].no.seq <= Cardinality(CountedInvoices(year))
    BY <1>5 DEF RegistrationInv, NumbersCounted, InvoiceCounted
  <2> QED
    BY <1>2, <1>3, <2>1, <2>2
<1>6. CountsOfInvoice(q)
  BY <1>0, <1>2, <1>3, <1>5 DEF CountsOfInvoice, BeginInvoice, LiveApplication
<1>7. /\ req[w] = NoRequest /\ req' = [req EXCEPT ![w] = q] /\ ~Reserved(i)
      /\ UNCHANGED <<app, issued, miscounted, departed>>
  BY <1>0 DEF BeginInvoice, Begin, no
<1>8. q.row = i /\ q.op = "invoice"
  OBVIOUS
<1> HIDE DEF q
<1> QED
  BY <1>4, <1>6, <1>7, <1>8, BeginNumberKeeps

\* The change of the year, the removal, and the request that is lost.
LEMMA EditsKeep ==
  ASSUME RegistrationInv,
         \/ \E w \in Workers : AbandonNumber(w)
         \/ \E a \in Apps, year \in Years : changeYear(a, year)
         \/ \E a \in Apps : removeApplication(a)
  PROVE  RegistrationInv'
<1>1. ASSUME NEW w \in Workers, AbandonNumber(w) PROVE RegistrationInv'
  <2>1. RegistrationTypeOK' /\ \A v \in Workers : req'[v] # NoRequest => req'[v] = req[v]
    BY <1>1 DEF AbandonNumber, Done, RegistrationInv, RegistrationTypeOK
  <2>2. NumbersStay
    BY <1>1 DEF AbandonNumber, NumbersStay, Filed, Issued
  <2> QED
    BY <1>1, <2>1, <2>2, NoNewNumber DEF AbandonNumber, Filed, Issued
<1>2. ASSUME NEW a \in Apps, LiveApplication(a), NEW row \in Application, row.no = app[a].no,
             row.numberedIn = app[a].numberedIn,
             app' = [app EXCEPT ![a] = row], UNCHANGED <<req, issued, miscounted>>,
             departed' \subseteq Years, departed \subseteq departed',
             app[a].year \in departed' \/ row.year = app[a].year
      PROVE  RegistrationInv'
  <2>1. RegistrationTypeOK'
    BY <1>2 DEF RegistrationInv, RegistrationTypeOK
  <2>2. app'[a] = row /\ row # NoNumber /\ \A b \in Apps \ {a} : app'[b] = app[b]
    BY <1>2, RegistrationAssumption DEF RegistrationInv, RegistrationTypeOK
  <2>3. NumbersStay
    BY <1>2, <2>2 DEF NumbersStay, Filed, Issued
  <2>4. (\A b \in Apps : Filed(b)' => Filed(b)) /\ \A i \in InvoiceIds : Issued(i)' => Issued(i)
    BY <1>2, <2>2 DEF LiveApplication, Filed, Issued
  <2> QED
    BY <1>2, <2>1, <2>3, <2>4, NoNewNumber
<1>3. ASSUME NEW a \in Apps, NEW year \in Years, changeYear(a, year) PROVE RegistrationInv'
  <2>1. app[a] \in Application
    BY <1>3 DEF changeYear, LiveApplication, Filed, RegistrationInv, RegistrationTypeOK
  <2>2. /\ [app[a] EXCEPT !.year = year] \in Application
        /\ [app[a] EXCEPT !.year = year].no = app[a].no /\ app[a].year \in Years
        /\ [app[a] EXCEPT !.year = year].numberedIn = app[a].numberedIn
    BY <2>1 DEF Application
  <2>3. departed' \subseteq Years /\ departed \subseteq departed' /\ app[a].year \in departed'
    BY <1>3, <2>2 DEF changeYear, RegistrationInv, RegistrationTypeOK
  <2> QED
    BY <1>2, <1>3, <2>2, <2>3 DEF changeYear
<1>4. ASSUME NEW a \in Apps, removeApplication(a) PROVE RegistrationInv'
  <2>1. app[a] \in Application
    BY <1>4 DEF removeApplication, LiveApplication, Filed, RegistrationInv, RegistrationTypeOK
  <2>2. /\ [app[a] EXCEPT !.deleted = TRUE] \in Application
        /\ [app[a] EXCEPT !.deleted = TRUE].no = app[a].no
        /\ [app[a] EXCEPT !.deleted = TRUE].numberedIn = app[a].numberedIn
        /\ [app[a] EXCEPT !.deleted = TRUE].year = app[a].year
    BY <2>1 DEF Application
  <2>3. departed' \subseteq Years /\ departed \subseteq departed'
    BY <1>4 DEF removeApplication, RegistrationInv, RegistrationTypeOK
  <2> QED
    BY <1>2, <1>4, <2>2, <2>3 DEF removeApplication
<1> QED
  BY <1>1, <1>3, <1>4

\* The other requests, after w has inserted its row.
LEMMA RecountedOther ==
  ASSUME RegistrationInv, NEW w \in Workers, req[w] # NoRequest, req' = Recounted(w),
         NEW v \in Workers, req'[v] # NoRequest
  PROVE  /\ v # w /\ req[v] # NoRequest /\ req'[v] \in NumberRequest
         /\ req'[v].row = req[v].row
         /\ \E fresh \in BOOLEAN :
               /\ req'[v] = [req[v] EXCEPT !.fresh = fresh]
               /\ fresh => req[v].fresh
               /\ fresh => ~(req[v].op = req[w].op /\ req[v].year = req[w].year)
<1>1. v # w /\ req[v] # NoRequest
  BY DEF Recounted
<1>2. req[v] \in NumberRequest /\ req[v].fresh \in BOOLEAN
  BY <1>1, NumberRequestFields DEF RegistrationInv
<1>3. CASE req[v].op = req[w].op /\ req[v].year = req[w].year
  <2>1. req'[v] = [req[v] EXCEPT !.fresh = FALSE]
    BY <1>1, <1>3 DEF Recounted
  <2> QED
    BY <1>1, <1>2, <2>1 DEF NumberRequest
<1>4. CASE ~(req[v].op = req[w].op /\ req[v].year = req[w].year)
  <2>1. req'[v] = req[v]
    BY <1>1, <1>4 DEF Recounted
  <2>2. req[v] = [req[v] EXCEPT !.fresh = req[v].fresh]
    BY <1>2 DEF NumberRequest
  <2> QED
    BY <1>1, <1>2, <1>4, <2>1, <2>2
<1> QED
  BY <1>3, <1>4

\* The new row is counted, and so are the ones that were there.
LEMMA InsertKeeps ==
  ASSUME RegistrationInv, NEW w \in Workers, InsertNumbered(w)
  PROVE  RegistrationInv'
<1>1. PICK r : r = req[w]
  OBVIOUS
<1>2. /\ r # NoRequest /\ r \in NumberRequest /\ r.op \in {"create", "invoice"}
      /\ r.no \in Number /\ r.year \in Years /\ r.no.seq \in Nat \ {0} /\ r.fresh \in BOOLEAN
      /\ r.op = "create" => r.row \in Apps /\ r.code \in AccessCodes
      /\ r.op = "invoice" => r.row \in InvoiceIds /\ r.app \in Apps
  BY <1>1, NumberRequestFields DEF InsertNumbered, RegistrationInv
<1>3. /\ req' = Recounted(w) /\ UNCHANGED departed
      /\ miscounted' = IF r.fresh THEN miscounted ELSE miscounted \cup {r.row}
  BY <1>1 DEF InsertNumbered
<1>4. /\ \A v \in Workers : req'[v] # NoRequest => req'[v] \in NumberRequest
      /\ req' \in [Workers -> NumberRequest \cup {NoRequest}]
  <2>1. \A v \in Workers : req'[v] # NoRequest => req'[v] \in NumberRequest
    BY <1>1, <1>2, <1>3, RecountedOther
  <2>2. req' = [v \in Workers |-> req'[v]]
    BY <1>3 DEF Recounted
  <2> QED
    BY <2>1, <2>2
<1>5. miscounted' \subseteq Apps \cup InvoiceIds /\ miscounted \subseteq miscounted'
      /\ (~r.fresh => r.row \in miscounted')
  BY <1>2, <1>3 DEF RegistrationInv, RegistrationTypeOK
<1>6. CASE r.op = "create"
  <2> DEFINE row == [no |-> r.no, numberedIn |-> r.year, year |-> r.year, code |-> r.code, deleted |-> FALSE]
  <2>1. row \in Application /\ row.no = r.no /\ row.year = r.year /\ row.numberedIn = r.year
    BY <1>2, <1>6 DEF Application
  <2>2. app' = [app EXCEPT ![r.row] = row] /\ UNCHANGED issued
    BY <1>1, <1>6 DEF InsertNumbered
  <2> HIDE DEF row
  <2>3. app'[r.row] = row /\ \A b \in Apps \ {r.row} : app'[b] = app[b]
    BY <1>2, <1>6, <2>2 DEF RegistrationInv, RegistrationTypeOK
  <2>4. RegistrationTypeOK'
    BY <1>3, <1>4, <1>5, <2>1, <2>2 DEF RegistrationInv, RegistrationTypeOK
  <2>5. CountsOfApplication(r) /\ ~Filed(r.row)
    BY <1>1, <1>2, <1>6 DEF RegistrationInv, NumberRead, CountsOfApplication
  <2>6. Filed(r.row)' /\ \A b \in Apps : Filed(b)' <=> Filed(b) \/ b = r.row
    BY <2>1, <2>3, RegistrationAssumption DEF Filed
  <2>7. \A i \in InvoiceIds : Issued(i)' <=> Issued(i)
    BY <2>2 DEF Issued
  <2>8. NumbersStay
    BY <1>3, <1>5, <2>2, <2>3, <2>5, <2>6, <2>7 DEF NumbersStay
  <2>9. AllFiled' = AllFiled \cup {r.row} /\ AllIssued' = AllIssued
    BY <1>2, <1>6, <2>6, <2>7 DEF AllFiled, AllIssued
  <2>10. IsFiniteSet(AllFiled') /\ IsFiniteSet(AllIssued')
    BY <2>9, FS_AddElement DEF RegistrationInv
  <2>11. ASSUME NEW y, y = r.year, y \notin departed
         PROVE  r.no.seq <= Cardinality(Counted(y)')
    <3>1. r.row \in Counted(y)' /\ r.row \notin Counted(y)
      BY <1>2, <1>6, <2>1, <2>3, <2>5, <2>6, <2>11 DEF Counted
    <3>2. Counted(y) \cup {r.row} \subseteq Counted(y)'
      BY <3>1, <2>3, <2>6 DEF Counted
    <3>3. Counted(y) \subseteq AllFiled /\ Counted(y)' \subseteq AllFiled'
      BY DEF Counted, AllFiled
    <3>4. IsFiniteSet(Counted(y)) /\ IsFiniteSet(Counted(y)')
      BY <2>10, <3>3, FS_Subset DEF RegistrationInv
    <3>5. Cardinality(Counted(y) \cup {r.row}) = Cardinality(Counted(y)) + 1
      BY <3>1, <3>4, FS_AddElement
    <3>6. Cardinality(Counted(y) \cup {r.row}) <= Cardinality(Counted(y)')
      BY <3>2, <3>4, FS_Subset
    <3>7. Cardinality(Counted(y)) \in Nat /\ Cardinality(Counted(y)') \in Nat
      BY <3>4, FS_CardinalityType
    <3>8. r.no.seq <= Cardinality(Counted(y)) + 1
      BY <2>5, <2>11 DEF CountsOfApplication
    <3> QED
      BY <1>2, <3>5, <3>6, <3>7, <3>8
  <2>12. NumbersCounted'
    <3>1. ApplicationCounted(r.row)'
      <4>1. PICK y : y = r.year
        OBVIOUS
      <4> QED
        BY <1>3, <2>1, <2>3, <2>11, <4>1 DEF ApplicationCounted
    <3> QED
      BY <2>4, <2>6, <2>7, <2>8, <2>10, <3>1, CountedStays DEF NumbersCounted
  <2>13. ASSUME NEW a \in Apps, Filed(a), app'[a].no = r.no, app'[a].numberedIn = r.year
         PROVE  r.row \in miscounted' \/ r.year \in departed'
    <3>1. app[a].no = r.no /\ app[a].numberedIn = r.year
      BY <2>8, <2>13 DEF NumbersStay
    <3> SUFFICES ASSUME r.year \notin departed, r.fresh PROVE FALSE
      BY <1>3, <1>5
    <3>2. app[a].no.seq < r.no.seq
      BY <2>5, <2>13, <3>1 DEF CountsOfApplication
    <3> QED
      BY <1>2, <3>1, <3>2
  <2>14. NumbersUnique'
    <3> SUFFICES ASSUME NEW a \in Apps, NEW b \in Apps, a # b, Filed(a)', Filed(b)', app'[a].no = app'[b].no,
                        app'[a].numberedIn = app'[b].numberedIn
                 PROVE  {a, b} \cap miscounted' # {} \/ app'[a].numberedIn \in departed'
      BY DEF NumbersUnique
    <3>1. CASE a = r.row
      BY <2>1, <2>3, <2>6, <2>13, <3>1
    <3>2. CASE b = r.row
      BY <2>1, <2>3, <2>6, <2>13, <3>2
    <3>3. CASE a # r.row /\ b # r.row
      BY <2>6, <2>8, <3>3, OnceStays
    <3> QED
      BY <3>1, <3>2, <3>3
  <2>15. InvoiceNumbersUnique'
    BY <2>7, <2>8, OnceStays DEF InvoiceNumbersUnique
  <2>16. ASSUME NEW v \in Workers, req'[v] # NoRequest PROVE NumberRead(v)'
    <3>1. PICK fresh \in BOOLEAN :
               /\ req'[v] = [req[v] EXCEPT !.fresh = fresh]
               /\ fresh => req[v].fresh
               /\ fresh => ~(req[v].op = r.op /\ req[v].year = r.year)
      BY <1>1, <1>2, <1>3, <2>16, RecountedOther
    <3>2. v # w /\ req[v] # NoRequest /\ req'[v].row = req[v].row
      BY <1>1, <1>2, <1>3, <2>16, RecountedOther
    <3>3. r.row # req[v].row
      BY <1>1, <1>2, <3>2 DEF RegistrationInv, NumberRead
    <3>4. PICK q : q = req'[v]
      OBVIOUS
    <3>5. /\ q.op = req[v].op /\ q.row = req[v].row
          /\ q.op = "create" => CountsOfApplication(q)'
          /\ q.op = "invoice" => CountsOfInvoice(q)'
      <4>1. \A a \in Apps : Filed(a)' /\ ~Filed(a) =>
               /\ a # req[v].row
               /\ fresh /\ req[v].op = "create" => app'[a].numberedIn # req[v].year
        BY <1>6, <2>1, <2>3, <2>6, <3>1, <3>3
      <4>2. \A i \in InvoiceIds : ~(Issued(i)' /\ ~Issued(i))
        BY <2>7
      <4>3. q = [req[v] EXCEPT !.fresh = fresh]
        BY <3>1, <3>4
      <4> QED
        BY <2>8, <2>10, <3>1, <3>2, <4>1, <4>2, <4>3, ReadStays
    <3>6. \A u \in Workers \ {v} : req'[u] # NoRequest => req'[u].row # req'[v].row
      <4> TAKE u \in Workers \ {v}
      <4> HAVE req'[u] # NoRequest
      <4>1. req[u] # NoRequest /\ req'[u].row = req[u].row
        BY <1>1, <1>2, <1>3, RecountedOther
      <4> QED
        BY <3>2, <4>1 DEF RegistrationInv, NumberRead
    <3> QED
      BY <3>4, <3>5, <3>6 DEF NumberRead
  <2> QED
    BY <2>4, <2>10, <2>12, <2>14, <2>15, <2>16 DEF RegistrationInv, NumbersGivenOnce, NumberRead
<1>7. CASE r.op = "invoice"
  <2> DEFINE row == [no |-> r.no, numberedIn |-> r.year, app |-> r.app]
  <2>1. row \in Invoice /\ row.no = r.no /\ row.app = r.app /\ row.numberedIn = r.year
    BY <1>2, <1>7 DEF Invoice
  <2>2. issued' = [issued EXCEPT ![r.row] = row] /\ UNCHANGED app
    BY <1>1, <1>7 DEF InsertNumbered
  <2> HIDE DEF row
  <2>3. issued'[r.row] = row /\ \A j \in InvoiceIds \ {r.row} : issued'[j] = issued[j]
    BY <1>2, <1>7, <2>2 DEF RegistrationInv, RegistrationTypeOK
  <2>4. RegistrationTypeOK'
    BY <1>3, <1>4, <1>5, <2>1, <2>2 DEF RegistrationInv, RegistrationTypeOK
  <2>5. CountsOfInvoice(r) /\ ~Issued(r.row) /\ Filed(r.app)
    BY <1>1, <1>2, <1>7 DEF RegistrationInv, NumberRead, CountsOfInvoice
  <2>6. Issued(r.row)' /\ \A j \in InvoiceIds : Issued(j)' <=> Issued(j) \/ j = r.row
    BY <2>1, <2>3, RegistrationAssumption DEF Issued
  <2>7. \A a \in Apps : Filed(a)' <=> Filed(a)
    BY <2>2 DEF Filed
  <2>8. NumbersStay
    BY <1>3, <1>5, <2>2, <2>3, <2>5, <2>6, <2>7 DEF NumbersStay
  <2>9. AllIssued' = AllIssued \cup {r.row} /\ AllFiled' = AllFiled
    BY <1>2, <1>7, <2>6, <2>7 DEF AllFiled, AllIssued
  <2>10. IsFiniteSet(AllFiled') /\ IsFiniteSet(AllIssued')
    BY <2>9, FS_AddElement DEF RegistrationInv
  <2>11. ASSUME NEW y, y = r.year, y \notin departed
         PROVE  app[r.app].year = y /\ r.no.seq <= Cardinality(CountedInvoices(y)')
    <3>0. app[r.app].year = y
      BY <2>5, <2>11 DEF CountsOfInvoice
    <3>1. r.row \in CountedInvoices(y)' /\ r.row \notin CountedInvoices(y)
      BY <1>2, <1>7, <2>1, <2>2, <2>3, <2>5, <2>6, <3>0 DEF CountedInvoices
    <3>2. CountedInvoices(y) \cup {r.row} \subseteq CountedInvoices(y)'
      BY <3>1, <2>2, <2>3, <2>6 DEF CountedInvoices
    <3>3. CountedInvoices(y) \subseteq AllIssued /\ CountedInvoices(y)' \subseteq AllIssued'
      BY DEF CountedInvoices, AllIssued
    <3>4. IsFiniteSet(CountedInvoices(y)) /\ IsFiniteSet(CountedInvoices(y)')
      BY <2>10, <3>3, FS_Subset DEF RegistrationInv
    <3>5. Cardinality(CountedInvoices(y) \cup {r.row}) = Cardinality(CountedInvoices(y)) + 1
      BY <3>1, <3>4, FS_AddElement
    <3>6. Cardinality(CountedInvoices(y) \cup {r.row}) <= Cardinality(CountedInvoices(y)')
      BY <3>2, <3>4, FS_Subset
    <3>7. Cardinality(CountedInvoices(y)) \in Nat /\ Cardinality(CountedInvoices(y)') \in Nat
      BY <3>4, FS_CardinalityType
    <3>8. r.no.seq <= Cardinality(CountedInvoices(y)) + 1
      BY <2>5, <2>11 DEF CountsOfInvoice
    <3> QED
      BY <1>2, <3>0, <3>5, <3>6, <3>7, <3>8
  <2>12. NumbersCounted'
    <3>1. InvoiceCounted(r.row)'
      <4>1. PICK y : y = r.year
        OBVIOUS
      <4> QED
        BY <1>3, <2>1, <2>2, <2>3, <2>5, <2>11, <4>1 DEF InvoiceCounted, Filed
    <3> QED
      BY <2>4, <2>6, <2>7, <2>8, <2>10, <3>1, CountedStays DEF NumbersCounted
  <2>13. ASSUME NEW i \in InvoiceIds, Issued(i), issued'[i].no = r.no, issued'[i].numberedIn = r.year
         PROVE  r.row \in miscounted' \/ r.year \in departed'
    <3>1. issued[i].no = r.no /\ issued[i].numberedIn = r.year
      BY <2>8, <2>13 DEF NumbersStay
    <3> SUFFICES ASSUME r.year \notin departed, r.fresh PROVE FALSE
      BY <1>3, <1>5
    <3>2. issued[i].no.seq < r.no.seq
      BY <2>5, <2>13, <3>1 DEF CountsOfInvoice
    <3> QED
      BY <1>2, <3>1, <3>2
  <2>14. InvoiceNumbersUnique'
    <3> SUFFICES ASSUME NEW i \in InvoiceIds, NEW j \in InvoiceIds, i # j, Issued(i)', Issued(j)',
                        issued'[i].no = issued'[j].no, issued'[i].numberedIn = issued'[j].numberedIn
                 PROVE  {i, j} \cap miscounted' # {} \/ issued'[i].numberedIn \in departed'
      BY DEF InvoiceNumbersUnique
    <3>1. CASE i = r.row
      BY <2>1, <2>3, <2>6, <2>13, <3>1
    <3>2. CASE j = r.row
      BY <2>1, <2>3, <2>6, <2>13, <3>2
    <3>3. CASE i # r.row /\ j # r.row
      BY <2>6, <2>8, <3>3, OnceStays
    <3> QED
      BY <3>1, <3>2, <3>3
  <2>15. NumbersUnique'
    BY <2>7, <2>8, OnceStays DEF NumbersUnique
  <2>16. ASSUME NEW v \in Workers, req'[v] # NoRequest PROVE NumberRead(v)'
    <3>1. PICK fresh \in BOOLEAN :
               /\ req'[v] = [req[v] EXCEPT !.fresh = fresh]
               /\ fresh => req[v].fresh
               /\ fresh => ~(req[v].op = r.op /\ req[v].year = r.year)
      BY <1>1, <1>2, <1>3, <2>16, RecountedOther
    <3>2. v # w /\ req[v] # NoRequest /\ req'[v].row = req[v].row
      BY <1>1, <1>2, <1>3, <2>16, RecountedOther
    <3>3. r.row # req[v].row
      BY <1>1, <1>2, <3>2 DEF RegistrationInv, NumberRead
    <3>4. PICK q : q = req'[v]
      OBVIOUS
    <3>5. /\ q.op = req[v].op /\ q.row = req[v].row
          /\ q.op = "create" => CountsOfApplication(q)'
          /\ q.op = "invoice" => CountsOfInvoice(q)'
      <4>1. \A i \in InvoiceIds : Issued(i)' /\ ~Issued(i) =>
               /\ i # req[v].row
               /\ fresh /\ req[v].op = "invoice" => issued'[i].numberedIn # req[v].year
        BY <1>7, <2>1, <2>3, <2>6, <3>1, <3>3
      <4>2. \A a \in Apps : ~(Filed(a)' /\ ~Filed(a))
        BY <2>7
      <4>3. q = [req[v] EXCEPT !.fresh = fresh]
        BY <3>1, <3>4
      <4> QED
        BY <2>8, <2>10, <3>1, <3>2, <4>1, <4>2, <4>3, ReadStays
    <3>6. \A u \in Workers \ {v} : req'[u] # NoRequest => req'[u].row # req'[v].row
      <4> TAKE u \in Workers \ {v}
      <4> HAVE req'[u] # NoRequest
      <4>1. req[u] # NoRequest /\ req'[u].row = req[u].row
        BY <1>1, <1>2, <1>3, RecountedOther
      <4> QED
        BY <3>2, <4>1 DEF RegistrationInv, NumberRead
    <3> QED
      BY <3>4, <3>5, <3>6 DEF NumberRead
  <2> QED
    BY <2>4, <2>10, <2>12, <2>14, <2>15, <2>16 DEF RegistrationInv, NumbersGivenOnce, NumberRead
<1> QED
  BY <1>2, <1>6, <1>7

\* Every step keeps the invariant: a number that two requests counted at once is given to a row that
\* is then miscounted, and one counted after a row left the year is of a year departed from.
LEMMA RegistrationStep ==
  ASSUME RegistrationInv, [RegistrationNext]_registrationVars
  PROVE  RegistrationInv'
<1>1. CASE UNCHANGED registrationVars
  <2>1. RegistrationTypeOK'
    BY <1>1 DEF RegistrationInv, RegistrationTypeOK, registrationVars
  <2>2. NumbersStay /\ (\A a \in Apps : Filed(a)' => Filed(a)) /\ \A i \in InvoiceIds : Issued(i)' => Issued(i)
    BY <1>1 DEF registrationVars, NumbersStay, Filed, Issued
  <2> QED
    BY <1>1, <2>1, <2>2, NoNewNumber DEF registrationVars
<1>2. CASE RegistrationNext
  BY <1>2, BeginApplicationKeeps, BeginInvoiceKeeps, InsertKeeps, EditsKeep DEF RegistrationNext
<1> QED
  BY <1>1, <1>2

\* The applications, invoices and requests for numbers keep their types.
THEOREM RegistrationTypeCorrect == RegistrationSpec => []RegistrationTypeOK
<1>1. RegistrationInv => RegistrationTypeOK
  BY DEF RegistrationInv
<1> QED
  BY <1>1, RegistrationBegins, RegistrationStep, PTL DEF RegistrationSpec

\* No two applications and no two invoices get one number, unless two requests counted at once,
\* an application left the year that was counted, or the two were counted in two years, which may
\* begin alike (create of AdmissionsService and of InvoicesService, src/src/admissions).
THEOREM NumbersStayGivenOnce == RegistrationSpec => []NumbersGivenOnce
<1>1. RegistrationInv => NumbersGivenOnce
  BY DEF RegistrationInv
<1> QED
  BY <1>1, RegistrationBegins, RegistrationStep, PTL DEF RegistrationSpec
=============================================================================
