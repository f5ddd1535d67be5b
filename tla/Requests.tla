------------------------------- MODULE Requests -------------------------------
(***************************************************************************)
(* The requests in flight, as the modules that share them see it: a worker *)
(* is a handler that has been called and has awaits left, and its record   *)
(* holds its local variables and the await it is at.  A worker that is     *)
(* lost half way (the process dies, or a call it makes fails and the       *)
(* handler has no catch) is Done with the rest of its writes undone.       *)
(***************************************************************************)
EXTENDS Naturals, FiniteSets

CONSTANTS
    Workers,        \* how many requests are in flight at once
    NoRequest       \* the worker is idle

VARIABLE req        \* [Workers -> request \cup {NoRequest}]

Idle == [w \in Workers |-> NoRequest]

Begin(w, q) == req[w] = NoRequest /\ req' = [req EXCEPT ![w] = q]

Pending(w, op) == req[w] # NoRequest /\ req[w].op = op

At(w, ops, step) == req[w] # NoRequest /\ req[w].op \in ops /\ req[w].step = step

Goto(w, step) == req' = [req EXCEPT ![w].step = step]

Done(w) == req' = [req EXCEPT ![w] = NoRequest]

\* One of the identifiers that are free, which differ in nothing.
AnyOf(ids) == CHOOSE x \in ids : TRUE

\* The other requests in flight.
Others(w) == {v \in Workers \ {w} : req[v] # NoRequest}
=============================================================================
