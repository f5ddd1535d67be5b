------------------------------ MODULE Contracts ------------------------------
(***************************************************************************)
(* The document (SK / contract) workflow: src/src/contracts.               *)
(*                                                                         *)
(* A handler reads the row, checks it, and writes it after one or more     *)
(* awaits; the write names the row by id only, so whatever happened in     *)
(* between is overwritten. A request is therefore two actions, Begin* (the *)
(* read with its checks) and Commit* (the write), and signing goes on with *)
(* one action per awaited side-effect write and one for the notification.  *)
(*                                                                         *)
(* History variables, written and never read by the actions: req[w].fresh  *)
(* and clean record whether a request's copy of the row is still current   *)
(* and which documents never received a decision from a stale copy; lost   *)
(* is the set of documents one of whose signings lost a side-effect write. *)
(***************************************************************************)
EXTENDS Naturals

CONSTANTS
    Documents,        \* contract rows
    Users,            \* actors, approvers and recipients
    Workers,          \* requests that may be in flight at once
    NoUser,           \* null user id
    NoRequest,        \* an idle worker
    Role,             \* [Users -> STRING], User.role
    Delegates,        \* SUBSET Users with contractApprover set
    CategoryRole,     \* [Documents -> STRING], the category's approverRole
    OwnRoles,         \* [Documents -> SUBSET STRING], approverRolesJson ({}: null)
    EffectWrites,     \* [Documents -> Nat], awaited writes of the side effect
    Recipient,        \* [Documents -> Users], who the document is for
    CreateStatuses    \* statuses the drafting client asks for

ASSUME ContractsAssumption ==
    /\ NoUser \notin Users
    /\ Role \in [Users -> STRING]
    /\ Delegates \subseteq Users
    /\ CategoryRole \in [Documents -> STRING]
    /\ OwnRoles \in [Documents -> SUBSET STRING]
    /\ EffectWrites \in [Documents -> Nat]
    /\ Recipient \in [Documents -> Users]

VARIABLES
    contract,   \* [Documents -> Row]
    applied,    \* [Documents -> SUBSET Nat], side-effect writes that are done
    inbox,      \* notification recipients: <<user, event type, document>>
    req,        \* [Workers -> Request \cup {NoRequest}]
    clean,      \* history: documents never decided on from a stale copy
    lost        \* history: documents that lost a side-effect write

vars == <<contract, applied, inbox, req, clean, lost>>

-----------------------------------------------------------------------------
(* Data *)

ContractStatus ==
    {"draft", "pending_signature", "pending_approval", "approved", "rejected",
     "active", "archived", "expired", "renewed"}

ASSUME CreateStatusesAssumption == CreateStatuses \subseteq ContractStatus

MaybeUser == Users \cup {NoUser}

\* The workflow columns; a nullable timestamp is whether it is set.
Row == [status: ContractStatus \cup {"none"}, deleted: BOOLEAN, rejectedAt: BOOLEAN,
        approver: MaybeUser, approvedAt: BOOLEAN, signer: MaybeUser]

EmptyRow == [status |-> "none", deleted |-> FALSE, rejectedAt |-> FALSE,
             approver |-> NoUser, approvedAt |-> FALSE, signer |-> NoUser]

\* actor is recorded by the two decisions only; seen is the approver of the copy the
\* handler read; next the side-effect write due.
Request == [op: {"submit", "reject", "approve", "remove"},
            step: {"decided", "effects", "notify"},
            doc: Documents, actor: MaybeUser, seen: MaybeUser, next: Nat \ {0}, fresh: BOOLEAN]

ASSUME NoRequestAssumption == NoRequest \notin Request

Submittable == {"draft", "rejected"}
Rejectable  == {"pending_approval", "pending_signature"}
Signable    == {"pending_signature", "pending_approval", "approved"}

\* Mutant: the soft-deletion filter is forgotten.
FoundDeleted(d) == contract[d].status # "none"

\* findOne: a deleted or missing row is a 404.
Found(d) == contract[d].status # "none" /\ ~contract[d].deleted

approverRolesFor(d) == IF OwnRoles[d] # {} THEN OwnRoles[d] ELSE {CategoryRole[d]}

assertCanApprove(u, d) ==
    \/ Role[u] \in {"superadmin"} \cup approverRolesFor(d)
    \/ "principal" \in approverRolesFor(d) /\ u \in Delegates

-----------------------------------------------------------------------------
(* Rows after each write *)

\* Mutant: resubmitting keeps the old rejection.
SubmittedKeepsRejection(row) == [row EXCEPT !.status = "pending_approval"]

SubmittedRow(row) == [row EXCEPT !.status = "pending_approval", !.rejectedAt = FALSE]

RejectedRow(row, u) ==
    [row EXCEPT !.status = "rejected", !.rejectedAt = TRUE, !.approver = u]

SignedRow(row, r) ==
    [row EXCEPT !.status = "active",
                !.approver = IF r.seen = NoUser THEN r.actor ELSE r.seen,
                !.approvedAt = TRUE,
                !.signer = r.actor]

RemovedRow(row) == [row EXCEPT !.deleted = TRUE]

-----------------------------------------------------------------------------
(* Bookkeeping of requests *)

\* The handler has read and checked the row of d and awaits its write.
Begin(w, op, u, d) ==
    /\ req[w] = NoRequest
    /\ Found(d)
    /\ req' = [req EXCEPT ![w] =
                 [op |-> op, step |-> "decided", doc |-> d, actor |-> u,
                  seen |-> contract[d].approver, next |-> 1, fresh |-> TRUE]]
    /\ UNCHANGED <<contract, applied, inbox, clean, lost>>

Decided(w, op) ==
    /\ req[w] # NoRequest
    /\ req[w].op = op
    /\ req[w].step = "decided"

\* w's write to d is done; every other copy of d is out of date from here on.
Committed(w, d, after) ==
    req' = [v \in Workers |->
              IF v = w THEN after
              ELSE IF req[v] # NoRequest /\ req[v].doc = d
                   THEN [req[v] EXCEPT !.fresh = FALSE]
                   ELSE req[v]]

StepTo(r, s) == [r EXCEPT !.step = s]

\* The history of who decided from a stale copy.
CleanAfter(r) == IF r.fresh THEN clean ELSE clean \ {r.doc}

-----------------------------------------------------------------------------
(* Handlers *)

Create(d) ==
    /\ contract[d].status = "none"
    /\ \E s \in CreateStatuses :
          contract' = [contract EXCEPT ![d] = [EmptyRow EXCEPT !.status = s]]
    /\ UNCHANGED <<applied, inbox, req, clean, lost>>

BeginSubmit(w, d) ==
    contract[d].status \in Submittable /\ Begin(w, "submit", NoUser, d)

CommitSubmit(w) ==
    LET r == req[w] IN
    /\ Decided(w, "submit")
    /\ contract' = [contract EXCEPT ![r.doc] = SubmittedRow(@)]
    /\ Committed(w, r.doc, StepTo(r, "notify"))
    /\ clean' = CleanAfter(r)
    /\ UNCHANGED <<applied, inbox, lost>>

\* Mutant: rejecting is open to everyone.
RejectUnchecked(w, u, d) ==
    /\ contract[d].status \in Rejectable
    /\ Begin(w, "reject", u, d)

BeginReject(w, u, d) ==
    /\ assertCanApprove(u, d)
    /\ contract[d].status \in Rejectable
    /\ Begin(w, "reject", u, d)

CommitReject(w) ==
    LET r == req[w] IN
    /\ Decided(w, "reject")
    /\ contract' = [contract EXCEPT ![r.doc] = RejectedRow(@, r.actor)]
    /\ Committed(w, r.doc, NoRequest)
    /\ clean' = CleanAfter(r)
    /\ UNCHANGED <<applied, inbox, lost>>

BeginApprove(w, u, d) ==
    /\ assertCanApprove(u, d)
    /\ contract[d].status \in Signable
    /\ Begin(w, "approve", u, d)

\* Rendering, converting or storing the signed file throws before the write.
AbortApprove(w) ==
    /\ Decided(w, "approve")
    /\ req' = [req EXCEPT ![w] = NoRequest]
    /\ UNCHANGED <<contract, applied, inbox, clean, lost>>

\* Mutant: the side effect is skipped.
SkipSideEffect == "notify"

AfterSigning == "effects"

CommitApprove(w) ==
    LET r == req[w] IN
    /\ Decided(w, "approve")
    /\ contract' = [contract EXCEPT ![r.doc] = SignedRow(@, r)]
    /\ Committed(w, r.doc, StepTo(r, AfterSigning))
    /\ clean' = CleanAfter(r)
    /\ UNCHANGED <<applied, inbox, lost>>

BeginRemove(w, d) == Begin(w, "remove", NoUser, d)

CommitRemove(w) ==
    LET r == req[w] IN
    /\ Decided(w, "remove")
    /\ contract' = [contract EXCEPT ![r.doc] = RemovedRow(@)]
    /\ Committed(w, r.doc, NoRequest)
    /\ UNCHANGED <<applied, inbox, clean, lost>>

-----------------------------------------------------------------------------
(* What follows a signature or a submission *)

InStep(w, s) == req[w] # NoRequest /\ req[w].step = s

\* Mutants: one write too many, and one too few.
EffectsLeftOneMore(r) == r.next <= EffectWrites[r.doc] + 1
EffectsLeftOneLess(r) == r.next < EffectWrites[r.doc]

EffectsLeft(r) == r.next <= EffectWrites[r.doc]

\* One awaited write of applySideEffect.
ApplyEffect(w) ==
    LET r == req[w] IN
    /\ InStep(w, "effects")
    /\ EffectsLeft(r)
    /\ applied' = [applied EXCEPT ![r.doc] = @ \cup {r.next}]
    /\ req' = [req EXCEPT ![w].next = @ + 1]
    /\ UNCHANGED <<contract, inbox, clean, lost>>

\* A write throws; the catch swallows it together with the writes after it.
EffectFails(w) ==
    LET r == req[w] IN
    /\ InStep(w, "effects")
    /\ EffectsLeft(r)
    /\ lost' = lost \cup {r.doc}
    /\ req' = [req EXCEPT ![w].step = "notify"]
    /\ UNCHANGED <<contract, applied, inbox, clean>>

EndEffects(w) ==
    /\ InStep(w, "effects")
    /\ ~EffectsLeft(req[w])
    /\ req' = [req EXCEPT ![w].step = "notify"]
    /\ UNCHANGED <<contract, applied, inbox, clean, lost>>

\* notifyApprovers goes to the category's role; notifyRecipientSigned to the recipient.
Notices(r) ==
    IF r.op = "submit"
    THEN {<<u, "document_submitted", r.doc>> :
             u \in {v \in Users : Role[v] = CategoryRole[r.doc]}}
    ELSE {<<Recipient[r.doc], "document_signed", r.doc>>}

\* Notifications are best effort: they are stored, or the error is swallowed.
Notify(w) ==
    /\ InStep(w, "notify")
    /\ inbox' \in {inbox, inbox \cup Notices(req[w])}
    /\ req' = [req EXCEPT ![w] = NoRequest]
    /\ UNCHANGED <<contract, applied, clean, lost>>

\* The process dies: requests in flight are gone, and so are their remaining writes.
Crash ==
    /\ \E w \in Workers : req[w] # NoRequest
    /\ req' = [w \in Workers |-> NoRequest]
    /\ lost' = lost \cup {d \in Documents : \E w \in Workers :
                 InStep(w, "effects") /\ req[w].doc = d /\ EffectsLeft(req[w])}
    /\ UNCHANGED <<contract, applied, inbox, clean>>

-----------------------------------------------------------------------------
Init ==
    /\ contract = [d \in Documents |-> EmptyRow]
    /\ applied = [d \in Documents |-> {}]
    /\ inbox = {}
    /\ req = [w \in Workers |-> NoRequest]
    /\ clean = Documents
    /\ lost = {}

Arrive(w, d) ==
    \/ BeginSubmit(w, d)
    \/ \E u \in Users : BeginReject(w, u, d) \/ BeginApprove(w, u, d)
    \/ BeginRemove(w, d)

Advance(w) ==
    \/ CommitSubmit(w)
    \/ CommitReject(w)
    \/ AbortApprove(w)
    \/ CommitApprove(w)
    \/ CommitRemove(w)
    \/ ApplyEffect(w)
    \/ EffectFails(w)
    \/ EndEffects(w)
    \/ Notify(w)

Next ==
    \/ \E d \in Documents : Create(d)
    \/ \E w \in Workers, d \in Documents : Arrive(w, d)
    \/ \E w \in Workers : Advance(w)
    \/ Crash

Spec == Init /\ [][Next]_vars

\* Every awaited call settles, so a request that has begun is eventually answered.
FairSpec == Spec /\ \A w \in Workers : WF_vars(Advance(w))

-----------------------------------------------------------------------------
(* Properties *)

\* Types of the variables.
TypeOK ==
    /\ contract \in [Documents -> Row]
    /\ applied \in [Documents -> SUBSET Nat]
    /\ \A d \in Documents : applied[d] \subseteq 1..EffectWrites[d]
    /\ inbox \subseteq Users \X {"document_submitted", "document_signed"} \X Documents
    /\ req \in [Workers -> Request \cup {NoRequest}]
    /\ clean \subseteq Documents
    /\ lost \subseteq Documents

\* Whoever is recorded as approver or signer of a document was allowed to decide on it,
\* whatever the order in which approve, reject and submit requests overwrote each other.
DecisionsAuthorised ==
    \A d \in Documents : \A u \in {contract[d].approver, contract[d].signer} :
        u # NoUser => assertCanApprove(u, d)

\* The decision columns of a row never contradict each other as long as no decision was
\* taken from a stale copy: a signed row is active, approved and not rejected, and a
\* rejection mark is found only on a rejected row and with the user who rejected.
CleanRecordCoherent ==
    \A d \in clean :
        LET row == contract[d] IN
        /\ row.signer # NoUser => row.status = "active" /\ row.approvedAt
        /\ row.approvedAt => row.signer # NoUser /\ row.approver # NoUser
        /\ row.rejectedAt => row.status = "rejected" /\ row.approver # NoUser

InEffects(d) == \E w \in Workers : InStep(w, "effects") /\ req[w].doc = d

\* Side effects belong to signatures: an unsigned document has none in force, and a
\* signed one has all of them once no signing of it is still running, unless a write
\* failed or the process died in between (nothing ever applies them again).
EffectsMatchSignature ==
    \A d \in Documents :
        /\ contract[d].signer = NoUser => applied[d] = {}
        /\ contract[d].signer # NoUser =>
              applied[d] = 1..EffectWrites[d] \/ InEffects(d) \/ d \in lost

Lifecycle == INSTANCE DocumentLifecycle
    WITH status <- [d \in Documents |-> contract[d].status],
         deleted <- [d \in Documents |-> contract[d].deleted]

\* Documents that no request decides on from a stale copy follow the documented
\* lifecycle: draft, submitted, rejected or signed for good, deleted for good.
FollowsLifecycle == Lifecycle!LifecycleSpec

\* A signature is eventually in force, or a write of it is known to be lost.
SignatureTakesEffect ==
    \A d \in Documents :
        contract[d].signer # NoUser ~> applied[d] = 1..EffectWrites[d] \/ d \in lost

\* contracts.service.ts:561 "Reject a submitted document (pending_approval -> rejected)":
\* only a document that awaits a decision becomes rejected.
RejectsOnlySubmitted ==
    [][\A d \in Documents :
          contract'[d].status = "rejected" /\ contract[d].status # "rejected"
             => contract[d].status \in Rejectable \cup {"none"}]_contract

\* contracts.service.ts:512 "Notify the configured approver role that a document awaits
\* their approval & signature": whoever is told to approve a document may approve it.
NotifiedMayApprove ==
    \A u \in Users, d \in Documents :
        <<u, "document_submitted", d>> \in inbox => assertCanApprove(u, d)
=============================================================================
