------------------------- MODULE DocumentLifecycle -------------------------
(***************************************************************************)
(* What the document workflow of src/src/contracts promises of one         *)
(* document at a time, with no requests, no awaits and no side effects:    *)
(* drafted, submitted, rejected or signed, and soft-deleted at the end. A  *)
(* signed document stays signed and a deleted one is never touched again,  *)
(* as long as nobody decides on it from an out-of-date copy. `clean' is    *)
(* the set of documents for which that never happened; the others may be   *)
(* overwritten with any outcome of a decision, which is all the code       *)
(* guarantees them.                                                        *)
(***************************************************************************)

CONSTANTS Documents

VARIABLES
    status,     \* [Documents -> DocStatus]
    deleted,    \* [Documents -> BOOLEAN]
    clean       \* SUBSET Documents

lifecycleVars == <<status, deleted, clean>>

\* "none" is a row that is not inserted yet.
DocStatus == {"none", "draft", "pending_signature", "pending_approval",
              "approved", "rejected", "active", "archived", "expired", "renewed"}

LifecycleInit ==
    /\ status = [d \in Documents |-> "none"]
    /\ deleted = [d \in Documents |-> FALSE]
    /\ clean = Documents

Draft(d) ==
    /\ status[d] = "none"
    /\ \E s \in DocStatus \ {"none"} : status' = [status EXCEPT ![d] = s]
    /\ UNCHANGED <<deleted, clean>>

\* One documented move: from one of the statuses `from' to `to'.
Move(d, from, to) ==
    /\ ~deleted[d]
    /\ status[d] \in from
    /\ status' = [status EXCEPT ![d] = to]
    /\ UNCHANGED <<deleted, clean>>

SubmitDocument(d) == Move(d, {"draft", "rejected"}, "pending_approval")

RejectDocument(d) == Move(d, {"pending_approval", "pending_signature"}, "rejected")

SignDocument(d) ==
    Move(d, {"pending_approval", "pending_signature", "approved"}, "active")

RemoveDocument(d) ==
    /\ status[d] # "none"
    /\ deleted' = [deleted EXCEPT ![d] = TRUE]
    /\ UNCHANGED <<status, clean>>

\* A decision taken on an out-of-date copy lands on the row.
Overwrite(d) ==
    /\ status[d] # "none"
    /\ \E s \in {"pending_approval", "rejected", "active"} :
          status' = [status EXCEPT ![d] = s]
    /\ clean' = clean \ {d}
    /\ UNCHANGED deleted

LifecycleNext ==
    \E d \in Documents :
        \/ Draft(d)
        \/ SubmitDocument(d)
        \/ RejectDocument(d)
        \/ SignDocument(d)
        \/ RemoveDocument(d)
        \/ Overwrite(d)

LifecycleSpec == LifecycleInit /\ [][LifecycleNext]_lifecycleVars
=============================================================================
