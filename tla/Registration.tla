----------------------------- MODULE Registration -----------------------------
(***************************************************************************)
(* Registration numbers of admission applications and of their invoices,   *)
(* and the public lookup by number (src/src/admissions: admissions,        *)
(* invoices and ppdb services).                                            *)
(*                                                                         *)
(* A number is the first part of the academic year ("2026" of "2026-2027") *)
(* and one more than the rows counted in the whole year, which is any text *)
(* and is compared as it stands: years that begin alike share the first    *)
(* part and not the count.  The count is one query and the insert another, *)
(* no unique index backs the number, and an edited application may change  *)
(* its year while it, and its invoices, keep their numbers.                *)
(*                                                                         *)
(* History, never read by the actions: numberedIn of a row (the year that  *)
(* it was counted in), req[w].fresh (what w counted still stands),         *)
(* miscounted (rows numbered from a stale count), departed (years an       *)
(* application has been moved out of).                                     *)
(***************************************************************************)
EXTENDS Requests

CONSTANTS
    Apps, InvoiceIds,   \* rows
    Years,              \* academic years
    StartOf,            \* [Years -> ...], the part before the first dash, up to letter case
    AccessCodes,        \* what the lookup asks for beside the number
    NoNumber            \* no row

\* The text of a number, after its prefix.
Number == [start: {StartOf[y] : y \in Years}, seq: Nat \ {0}]

Application ==
    [no: Number, numberedIn: Years, year: Years, code: AccessCodes, deleted: BOOLEAN]

Invoice == [no: Number, numberedIn: Years, app: Apps]

\* A request between its count and its insert.
NumberRequest ==
    [op: {"create"}, row: Apps, code: AccessCodes, year: Years, no: Number, fresh: BOOLEAN]
      \cup [op: {"invoice"}, row: InvoiceIds, app: Apps, year: Years, no: Number, fresh: BOOLEAN]

ASSUME RegistrationAssumption ==
    /\ NoNumber \notin Application \cup Invoice
    /\ NoRequest \notin NumberRequest
    /\ Apps \cap InvoiceIds = {}

VARIABLES
    app,        \* [Apps -> Application \cup {NoNumber}]
    issued,     \* [InvoiceIds -> Invoice \cup {NoNumber}]
    miscounted, departed

registrationVars == <<req, app, issued, miscounted, departed>>

-----------------------------------------------------------------------------
Filed(a) == app[a] # NoNumber
LiveApplication(a) == Filed(a) /\ ~app[a].deleted
Issued(i) == issued[i] # NoNumber

Reserved(row) == \E w \in Workers : req[w] # NoRequest /\ req[w].row = row

\* Mutant: deleted applications do not count.
CountedLive(year) == {a \in Apps : LiveApplication(a) /\ app[a].year = year}

\* The applications of a year, deleted ones included.
Counted(year) == {a \in Apps : Filed(a) /\ app[a].year = year}

\* The invoices of the applications that are in a year now.
CountedInvoices(year) == {i \in InvoiceIds : Issued(i) /\ app[issued[i].app].year = year}

\* Mutant: the count itself is the sequence.
NextNumberCount(year, rows) == [start |-> StartOf[year], seq |-> Cardinality(rows)]

NextNumber(year, rows) == [start |-> StartOf[year], seq |-> Cardinality(rows) + 1]

\* w has inserted its row: the other counts of the same kind and year are stale.
Recounted(w) ==
    [v \in Workers |->
        IF v = w THEN NoRequest
        ELSE IF req[v] # NoRequest /\ req[v].op = req[w].op /\ req[v].year = req[w].year
             THEN [req[v] EXCEPT !.fresh = FALSE]
             ELSE req[v]]

-----------------------------------------------------------------------------
BeginApplication(w, a, year, code) ==
    /\ ~Filed(a) /\ ~Reserved(a)
    /\ Begin(w, [op |-> "create", row |-> a, code |-> code, year |-> year,
                 no |-> NextNumber(year, Counted(year)), fresh |-> TRUE])
    /\ UNCHANGED <<app, issued, miscounted, departed>>

BeginInvoice(w, i, a) ==
    /\ ~Issued(i) /\ ~Reserved(i)
    /\ LiveApplication(a)
    /\ Begin(w, [op |-> "invoice", row |-> i, app |-> a, year |-> app[a].year, fresh |-> TRUE,
                 no |-> NextNumber(app[a].year, CountedInvoices(app[a].year))])
    /\ UNCHANGED <<app, issued, miscounted, departed>>

InsertNumbered(w) ==
    LET r == req[w] IN
    /\ r # NoRequest
    /\ IF r.op = "create"
       THEN /\ app' = [app EXCEPT ![r.row] = [no |-> r.no, numberedIn |-> r.year, year |-> r.year,
                                              code |-> r.code, deleted |-> FALSE]]
            /\ UNCHANGED issued
       ELSE /\ issued' = [issued EXCEPT ![r.row] = [no |-> r.no, numberedIn |-> r.year, app |-> r.app]]
            /\ UNCHANGED app
    /\ req' = Recounted(w)
    /\ miscounted' = IF r.fresh THEN miscounted ELSE miscounted \cup {r.row}
    /\ UNCHANGED departed

\* update with another academic year: the number stays.
changeYear(a, year) ==
    /\ LiveApplication(a)
    /\ year # app[a].year
    /\ app' = [app EXCEPT ![a].year = year]
    /\ departed' = departed \cup {app[a].year}
    /\ UNCHANGED <<issued, req, miscounted>>

removeApplication(a) ==
    /\ LiveApplication(a)
    /\ app' = [app EXCEPT ![a].deleted = TRUE]
    /\ UNCHANGED <<issued, req, miscounted, departed>>

\* The insert fails, or the process dies.
AbandonNumber(w) ==
    /\ req[w] # NoRequest
    /\ Done(w)
    /\ UNCHANGED <<app, issued, miscounted, departed>>

\* What lookup may answer: it compares the code with that of the first live application
\* it finds under the number, in no particular order.
lookup(no, code) ==
    LET found == {a \in Apps : LiveApplication(a) /\ app[a].no = no}
    IN  {IF app[a].code = code THEN {a} ELSE {} : a \in found}

-----------------------------------------------------------------------------
RegistrationInit ==
    /\ req = Idle
    /\ app = [a \in Apps |-> NoNumber]
    /\ issued = [i \in InvoiceIds |-> NoNumber]
    /\ miscounted = {}
    /\ departed = {}

RegistrationNext ==
    \/ \E w \in Workers, a \in Apps, year \in Years, code \in AccessCodes :
          BeginApplication(w, a, year, code)
    \/ \E w \in Workers, i \in InvoiceIds, a \in Apps : BeginInvoice(w, i, a)
    \/ \E w \in Workers : InsertNumbered(w) \/ AbandonNumber(w)
    \/ \E a \in Apps, year \in Years : changeYear(a, year)
    \/ \E a \in Apps : removeApplication(a)

RegistrationSpec == RegistrationInit /\ [][RegistrationNext]_registrationVars

-----------------------------------------------------------------------------
\* Every variable keeps its type.
RegistrationTypeOK ==
    /\ app \in [Apps -> Application \cup {NoNumber}]
    /\ issued \in [InvoiceIds -> Invoice \cup {NoNumber}]
    /\ req \in [Workers -> NumberRequest \cup {NoRequest}]
    /\ miscounted \subseteq Apps \cup InvoiceIds
    /\ departed \subseteq Years

\* A registration number is given once, even when its first holder was deleted, unless
\* one of the two was numbered from a stale count, an application has left the year, or
\* they were counted in two years that begin alike.
NumbersUnique ==
    \A a, b \in Apps :
        a # b /\ Filed(a) /\ Filed(b) /\ app[a].no = app[b].no =>
            \/ {a, b} \cap miscounted # {}
            \/ app[a].numberedIn \in departed
            \/ app[a].numberedIn # app[b].numberedIn

\* The same for invoices, which count by the year their application is in now.
InvoiceNumbersUnique ==
    \A i, j \in InvoiceIds :
        i # j /\ Issued(i) /\ Issued(j) /\ issued[i].no = issued[j].no =>
            \/ {i, j} \cap miscounted # {}
            \/ issued[i].numberedIn \in departed
            \/ issued[i].numberedIn # issued[j].numberedIn

\* No two applications, and no two invoices, of one year get one number.
NumbersGivenOnce == NumbersUnique /\ InvoiceNumbersUnique

\* What the lookup promises: with its number and its code, an application is found.
\* (The codes are random; two that happen to be equal are not held against the lookup.)
LookupResolves ==
    \A a \in Apps :
        /\ LiveApplication(a)
        /\ \A b \in Apps \ {a} : LiveApplication(b) => app[b].code # app[a].code
        => lookup(app[a].no, app[a].code) = {{a}}
=============================================================================
