--------------------------- MODULE ContractsProofs ---------------------------
(***************************************************************************)
(* Proofs about the document workflow, for any number of documents, users, *)
(* concurrent requests and side-effect writes.                             *)
(***************************************************************************)
EXTENDS Contracts, TLAPS

\* Unfolds the disjunctions of Next into one action per handler step.
LEMMA NextCases ==
    ASSUME Next
    PROVE  \/ \E d \in Documents : Create(d)
           \/ \E w \in Workers, d \in Documents : BeginSubmit(w, d)
           \/ \E w \in Workers, u \in Users, d \in Documents : BeginReject(w, u, d)
           \/ \E w \in Workers, u \in Users, d \in Documents : BeginApprove(w, u, d)
           \/ \E w \in Workers, d \in Documents : BeginRemove(w, d)
           \/ \E w \in Workers : CommitSubmit(w)
           \/ \E w \in Workers : CommitReject(w)
           \/ \E w \in Workers : AbortApprove(w)
           \/ \E w \in Workers : CommitApprove(w)
           \/ \E w \in Workers : CommitRemove(w)
           \/ \E w \in Workers : ApplyEffect(w)
           \/ \E w \in Workers : EffectFails(w)
           \/ \E w \in Workers : EndEffects(w)
           \/ \E w \in Workers : Notify(w)
           \/ Crash
  BY Zenon DEF Next, Arrive, Advance

\* A commit keeps the requests well typed when its own request ends well typed.
LEMMA CommittedTyped ==
    ASSUME req \in [Workers -> Request \cup {NoRequest}],
           NEW w \in Workers, NEW d \in Documents,
           NEW after \in Request \cup {NoRequest}, Committed(w, d, after)
    PROVE  req' \in [Workers -> Request \cup {NoRequest}]
  BY DEF Committed, Request

\* The rows the handlers write are rows.
LEMMA WrittenRowTyped ==
    ASSUME NEW row \in Row, NEW r \in Request, NEW u \in MaybeUser
    PROVE  /\ SubmittedRow(row) \in Row
           /\ RejectedRow(row, u) \in Row
           /\ r.actor \in MaybeUser /\ SignedRow(row, r) \in Row
           /\ RemovedRow(row) \in Row
  <1>1. /\ "pending_approval" \in ContractStatus
        /\ "rejected" \in ContractStatus
        /\ "active" \in ContractStatus
    BY DEF ContractStatus
  <1>2. r.actor \in MaybeUser /\ r.seen \in MaybeUser
    BY DEF Request
  <1> QED
    BY <1>1, <1>2 DEF Row, SubmittedRow, RejectedRow, SignedRow, RemovedRow

\* What Begin does to a well-typed state.
LEMMA BeginTyped ==
    ASSUME TypeOK, NEW w \in Workers, NEW d \in Documents, NEW u \in MaybeUser,
           NEW op \in {"submit", "reject", "approve", "remove"}, Begin(w, op, u, d)
    PROVE  TypeOK'
  BY DEF TypeOK, Begin, Request, Row, MaybeUser

\* The type invariant holds in every reachable state.
THEOREM TypeCorrect == Spec => []TypeOK
  <1> USE ContractsAssumption, CreateStatusesAssumption, NoRequestAssumption
  <1>1. Init => TypeOK
    BY DEF Init, TypeOK, EmptyRow, Row, MaybeUser
  <1>2. TypeOK /\ [Next]_vars => TypeOK'
    <2> SUFFICES ASSUME TypeOK, [Next]_vars PROVE TypeOK'
      OBVIOUS
    <2>1. ASSUME NEW d \in Documents, Create(d) PROVE TypeOK'
      <3>1. PICK s \in CreateStatuses :
              contract' = [contract EXCEPT ![d] = [EmptyRow EXCEPT !.status = s]]
        BY <2>1 DEF Create
      <3>2. [EmptyRow EXCEPT !.status = s] \in Row
        BY <3>1 DEF EmptyRow, Row, MaybeUser
      <3> QED
        BY <2>1, <3>1, <3>2 DEF Create, TypeOK
    <2>2. ASSUME NEW w \in Workers, NEW d \in Documents, BeginSubmit(w, d) PROVE TypeOK'
      BY <2>2, BeginTyped DEF BeginSubmit, MaybeUser
    <2>3. ASSUME NEW w \in Workers, NEW u \in Users, NEW d \in Documents,
                 BeginReject(w, u, d)
          PROVE  TypeOK'
      BY <2>3, BeginTyped DEF BeginReject, MaybeUser
    <2>4. ASSUME NEW w \in Workers, NEW u \in Users, NEW d \in Documents,
                 BeginApprove(w, u, d)
          PROVE  TypeOK'
      BY <2>4, BeginTyped DEF BeginApprove, MaybeUser
    <2>5. ASSUME NEW w \in Workers, NEW d \in Documents, BeginRemove(w, d) PROVE TypeOK'
      BY <2>5, BeginTyped DEF BeginRemove, MaybeUser
    <2>6. ASSUME NEW w \in Workers, CommitSubmit(w) PROVE TypeOK'
      <3>1. req[w] \in Request /\ StepTo(req[w], "notify") \in Request
        BY <2>6 DEF CommitSubmit, Decided, TypeOK, Request, StepTo
      <3>2. req' \in [Workers -> Request \cup {NoRequest}]
        BY <2>6, <3>1, CommittedTyped DEF CommitSubmit, TypeOK, Request
      <3>3. contract[req[w].doc] \in Row /\ SubmittedRow(contract[req[w].doc]) \in Row
        BY <3>1, WrittenRowTyped DEF TypeOK, Request
      <3> QED
        BY <2>6, <3>1, <3>2, <3>3 DEF CommitSubmit, TypeOK, Request, CleanAfter
    <2>7. ASSUME NEW w \in Workers, CommitReject(w) PROVE TypeOK'
      <3>1. req[w] \in Request
        BY <2>7 DEF CommitReject, Decided, TypeOK
      <3>2. req' \in [Workers -> Request \cup {NoRequest}]
        BY <2>7, <3>1, CommittedTyped DEF CommitReject, TypeOK, Request
      <3>3. contract[req[w].doc] \in Row /\ RejectedRow(contract[req[w].doc], req[w].actor) \in Row
        BY <3>1, WrittenRowTyped DEF TypeOK, Request
      <3> QED
        BY <2>7, <3>1, <3>2, <3>3 DEF CommitReject, TypeOK, Request, CleanAfter
    <2>8. ASSUME NEW w \in Workers, AbortApprove(w) PROVE TypeOK'
      BY <2>8 DEF AbortApprove, TypeOK
    <2>9. ASSUME NEW w \in Workers, CommitApprove(w) PROVE TypeOK'
      <3>1. req[w] \in Request /\ StepTo(req[w], AfterSigning) \in Request
        BY <2>9 DEF CommitApprove, Decided, TypeOK, Request, StepTo, AfterSigning
      <3>2. req' \in [Workers -> Request \cup {NoRequest}]
        BY <2>9, <3>1, CommittedTyped DEF CommitApprove, TypeOK, Request
      <3>3. contract[req[w].doc] \in Row /\ SignedRow(contract[req[w].doc], req[w]) \in Row
        BY <3>1, WrittenRowTyped DEF TypeOK, Request
      <3> QED
        BY <2>9, <3>1, <3>2, <3>3 DEF CommitApprove, TypeOK, Request, CleanAfter
    <2>10. ASSUME NEW w \in Workers, CommitRemove(w) PROVE TypeOK'
      <3>1. req[w] \in Request
        BY <2>10 DEF CommitRemove, Decided, TypeOK
      <3>2. req' \in [Workers -> Request \cup {NoRequest}]
        BY <2>10, <3>1, CommittedTyped DEF CommitRemove, TypeOK, Request
      <3>3. contract[req[w].doc] \in Row /\ RemovedRow(contract[req[w].doc]) \in Row
        BY <3>1, WrittenRowTyped DEF TypeOK, Request
      <3> QED
        BY <2>10, <3>1, <3>2, <3>3 DEF CommitRemove, TypeOK, Request
    <2>11. ASSUME NEW w \in Workers, ApplyEffect(w) PROVE TypeOK'
      <3>1. req[w] \in Request /\ req[w].next \in 1..EffectWrites[req[w].doc]
        BY <2>11 DEF ApplyEffect, InStep, TypeOK, EffectsLeft, Request
      <3>2. req' \in [Workers -> Request \cup {NoRequest}]
        BY <2>11, <3>1 DEF ApplyEffect, TypeOK, Request
      <3> QED
        BY <2>11, <3>1, <3>2 DEF ApplyEffect, TypeOK, Request
    <2>12. ASSUME NEW w \in Workers, EffectFails(w) PROVE TypeOK'
      BY <2>12 DEF EffectFails, InStep, TypeOK, Request
    <2>13. ASSUME NEW w \in Workers, EndEffects(w) PROVE TypeOK'
      BY <2>13 DEF EndEffects, InStep, TypeOK, Request
    <2>14. ASSUME NEW w \in Workers, Notify(w) PROVE TypeOK'
      <3>1. req[w] \in Request
        BY <2>14 DEF Notify, InStep, TypeOK
      <3>2. Notices(req[w])
              \subseteq Users \X {"document_submitted", "document_signed"} \X Documents
        BY <3>1 DEF Notices, Request
      <3> QED
        BY <2>14, <3>1, <3>2 DEF Notify, TypeOK
    <2>15. CASE Crash
      BY <2>15 DEF Crash, TypeOK
    <2>16. CASE UNCHANGED vars
      BY <2>16 DEF vars, TypeOK
    <2> QED
      BY <2>1, <2>2, <2>3, <2>4, <2>5, <2>6, <2>7, <2>8, <2>9, <2>10, <2>11, <2>12,
         <2>13, <2>14, <2>15, <2>16, NextCases
  <1> QED
    BY <1>1, <1>2, PTL DEF Spec

-----------------------------------------------------------------------------
(* The inductive invariant *)

\* What a handler may still rely on when it wakes up: its document exists, its actor and
\* the approver it saw were allowed to decide, and, while its copy is fresh, the row
\* still passes the check it made; once it signed, the row has a signer and all
\* side-effect writes before the next one are done.
RequestHolds(r) ==
    /\ contract[r.doc].status # "none"
    /\ r.op \in {"reject", "approve"} => r.actor \in Users /\ assertCanApprove(r.actor, r.doc)
    /\ r.seen # NoUser => assertCanApprove(r.seen, r.doc)
    /\ r.step = "decided" => r.next = 1
    /\ r.step = "decided" /\ r.fresh =>
          /\ ~contract[r.doc].deleted
          /\ r.op = "submit" => contract[r.doc].status \in Submittable
          /\ r.op = "reject" => contract[r.doc].status \in Rejectable
          /\ r.op = "approve" => contract[r.doc].status \in Signable
    /\ r.step = "effects" =>
          /\ contract[r.doc].signer # NoUser
          /\ 1..(r.next - 1) \subseteq applied[r.doc]

RequestsHold == \A w \in Workers : req[w] # NoRequest => RequestHolds(req[w])

\* A row that is not inserted yet is neither signed nor deleted.
BlankBeforeCreate ==
    \A d \in Documents : contract[d].status = "none" =>
        contract[d].signer = NoUser /\ ~contract[d].deleted

IInv ==
    /\ TypeOK
    /\ BlankBeforeCreate
    /\ RequestsHold
    /\ DecisionsAuthorised
    /\ CleanRecordCoherent
    /\ EffectsMatchSignature

\* Beginning a request establishes what it relies on and disturbs nothing else.
LEMMA BeginInductive ==
    ASSUME IInv, TypeOK', NEW w \in Workers, NEW d \in Documents, NEW u \in MaybeUser,
           NEW op \in {"submit", "reject", "approve", "remove"},
           op = "submit" => contract[d].status \in Submittable,
           op = "reject" => contract[d].status \in Rejectable /\ u \in Users /\ assertCanApprove(u, d),
           op = "approve" => contract[d].status \in Signable /\ u \in Users /\ assertCanApprove(u, d),
           Begin(w, op, u, d)
    PROVE  IInv'
  <1> USE DEF Begin
  <1>1. RequestsHold'
    <2> SUFFICES ASSUME NEW v \in Workers, req'[v] # NoRequest
                 PROVE  RequestHolds(req[v])'
      BY DEF RequestsHold
    <2>1. CASE v = w
      BY <2>1 DEF IInv, TypeOK, RequestHolds, DecisionsAuthorised, Found
    <2>2. CASE v # w
      BY <2>2 DEF IInv, TypeOK, RequestsHold, RequestHolds
    <2> QED
      BY <2>1, <2>2
  <1>2. DecisionsAuthorised' /\ CleanRecordCoherent' /\ BlankBeforeCreate'
    BY DEF IInv, DecisionsAuthorised, CleanRecordCoherent, BlankBeforeCreate
  <1>3. EffectsMatchSignature'
    BY DEF IInv, TypeOK, EffectsMatchSignature, InEffects, InStep
  <1> QED
    BY <1>1, <1>2, <1>3 DEF IInv

\* What a commit leaves alone: the other requests keep what they rely on (those on the
\* same document lose their freshness), and so do the other documents.
LEMMA CommitInductive ==
    ASSUME IInv, TypeOK', NEW w \in Workers, NEW row \in Row,
           req[w] # NoRequest,
           NEW after \in Request \cup {NoRequest},
           after # NoRequest => after.doc = req[w].doc /\ RequestHolds(after)',
           contract' = [contract EXCEPT ![req[w].doc] = row],
           Committed(w, req[w].doc, after),
           req[w].step = "decided",
           UNCHANGED <<applied, lost>>,
           row.status # "none",
           \A u \in {row.approver, row.signer} : u # NoUser => assertCanApprove(u, req[w].doc),
           contract[req[w].doc].signer # NoUser => row.signer # NoUser,
           row.signer # NoUser =>
               contract[req[w].doc].signer # NoUser \/ (after # NoRequest /\ after.step = "effects"),
           clean' \subseteq clean,
           req[w].doc \in clean' =>
               /\ row.signer # NoUser => row.status = "active" /\ row.approvedAt
               /\ row.approvedAt => row.signer # NoUser /\ row.approver # NoUser
               /\ row.rejectedAt => row.status = "rejected" /\ row.approver # NoUser
    PROVE  IInv'
  <1> DEFINE d == req[w].doc
  <1>1. d \in Documents /\ req[w] \in Request
    BY DEF IInv, TypeOK, Request
  <1>2. contract'[d] = row /\ \A e \in Documents \ {d} : contract'[e] = contract[e]
    BY <1>1 DEF IInv, TypeOK
  <1>3. RequestsHold'
    <2> SUFFICES ASSUME NEW v \in Workers, req'[v] # NoRequest
                 PROVE  RequestHolds(req[v])'
      BY DEF RequestsHold
    <2>1. CASE v = w
      BY <2>1 DEF Committed
    <2>2. CASE v # w /\ req[v].doc # d
      <3>1. req'[v] = req[v] /\ req[v] \in Request /\ RequestHolds(req[v])
        BY <2>2 DEF Committed, IInv, TypeOK, RequestsHold
      <3> QED
        BY <1>2, <2>2, <3>1 DEF RequestHolds, Request
    <2>3. CASE v # w /\ req[v].doc = d
      <3>1. req[v] # NoRequest /\ req'[v] = [req[v] EXCEPT !.fresh = FALSE]
        BY <2>3 DEF Committed
      <3>2. req[v] \in Request /\ RequestHolds(req[v])
        BY <3>1 DEF IInv, TypeOK, RequestsHold
      <3> QED
        BY <1>2, <2>3, <3>1, <3>2 DEF RequestHolds, Request
    <2> QED
      BY <2>1, <2>2, <2>3
  <1>4. DecisionsAuthorised'
    BY <1>1, <1>2 DEF IInv, DecisionsAuthorised
  <1>5. CleanRecordCoherent' /\ BlankBeforeCreate'
    BY <1>1, <1>2 DEF IInv, TypeOK, CleanRecordCoherent, BlankBeforeCreate
  <1>6. EffectsMatchSignature'
    <2> SUFFICES ASSUME NEW e \in Documents
                 PROVE  /\ contract'[e].signer = NoUser => applied[e] = {}
                        /\ contract'[e].signer # NoUser =>
                              applied[e] = 1..EffectWrites[e] \/ InEffects(e)' \/ e \in lost
      BY DEF EffectsMatchSignature
    <2>1. InEffects(e) => InEffects(e)'
      <3> SUFFICES ASSUME NEW v \in Workers, InStep(v, "effects"), req[v].doc = e
                   PROVE  InStep(v, "effects")' /\ req'[v].doc = e
        BY DEF InEffects
      <3>1. v # w /\ req[v] \in Request
        BY DEF InStep, IInv, TypeOK
      <3>2. [req[v] EXCEPT !.fresh = FALSE] \in Request
        BY <3>1 DEF Request
      <3> QED
        BY <3>1, <3>2, NoRequestAssumption DEF InStep, Committed, Request
    <2>2. e = d /\ after # NoRequest /\ after.step = "effects" => InEffects(e)'
      BY <1>1 DEF InEffects, InStep, Committed
    <2> QED
      BY <1>1, <1>2, <2>1, <2>2 DEF IInv, EffectsMatchSignature
  <1> QED
    BY <1>3, <1>4, <1>5, <1>6 DEF IInv

LEMMA InitInductive == Init => IInv
  <1> USE ContractsAssumption, CreateStatusesAssumption, NoRequestAssumption
  <1>1. Init => TypeOK
    BY DEF Init, TypeOK, EmptyRow, Row, MaybeUser
  <1>2. Init => RequestsHold /\ DecisionsAuthorised /\ CleanRecordCoherent /\ BlankBeforeCreate
    BY DEF Init, RequestsHold, DecisionsAuthorised, CleanRecordCoherent, BlankBeforeCreate, EmptyRow
  <1>3. Init => EffectsMatchSignature
    <2>1. EmptyRow.signer = NoUser
      BY DEF EmptyRow
    <2> QED
      BY <2>1 DEF Init, EffectsMatchSignature
  <1> QED
    BY <1>1, <1>2, <1>3 DEF IInv

\* Every step of the specification keeps the inductive invariant.
LEMMA StepInductive == IInv /\ TypeOK' /\ [Next]_vars => IInv'
  <1> SUFFICES ASSUME IInv, TypeOK', [Next]_vars PROVE IInv'
    OBVIOUS
  <1> USE ContractsAssumption, NoRequestAssumption
  <1>1. ASSUME NEW d \in Documents, Create(d) PROVE IInv'
    <2>1. PICK s \in CreateStatuses :
            contract' = [contract EXCEPT ![d] = [EmptyRow EXCEPT !.status = s]]
      BY <1>1 DEF Create
    <2>2. s # "none"
      BY <2>1, CreateStatusesAssumption DEF ContractStatus
    <2>3. /\ contract'[d] = [EmptyRow EXCEPT !.status = s]
          /\ \A e \in Documents \ {d} : contract'[e] = contract[e]
          /\ contract[d].status = "none"
      BY <1>1, <2>1 DEF Create, IInv, TypeOK
    <2>4. RequestsHold'
      <3> SUFFICES ASSUME NEW v \in Workers, req[v] # NoRequest
                   PROVE  RequestHolds(req[v])'
        BY <1>1 DEF RequestsHold, Create
      <3>1. req[v] \in Request /\ RequestHolds(req[v]) /\ req[v].doc # d
        BY <2>3 DEF IInv, TypeOK, RequestsHold, RequestHolds
      <3> QED
        BY <1>1, <2>3, <3>1 DEF Create, RequestHolds, Request
    <2>5. DecisionsAuthorised' /\ CleanRecordCoherent' /\ BlankBeforeCreate'
      BY <1>1, <2>2, <2>3 DEF Create, IInv, TypeOK, DecisionsAuthorised, CleanRecordCoherent,
                             BlankBeforeCreate, EmptyRow
    <2>6. EffectsMatchSignature'
      <3>1. applied[d] = {}
        BY <2>3 DEF IInv, EffectsMatchSignature, BlankBeforeCreate
      <3>2. contract'[d].signer = NoUser
        BY <2>3 DEF EmptyRow
      <3>3. \A e \in Documents : InEffects(e)' <=> InEffects(e)
        BY <1>1 DEF Create, InEffects, InStep
      <3>4. applied' = applied /\ lost' = lost
        BY <1>1 DEF Create
      <3> QED
        BY <2>3, <3>1, <3>2, <3>3, <3>4 DEF IInv, EffectsMatchSignature
    <2> QED
      BY <2>4, <2>5, <2>6 DEF IInv
  <1>2. ASSUME NEW w \in Workers, NEW d \in Documents, BeginSubmit(w, d) PROVE IInv'
    BY <1>2, BeginInductive DEF BeginSubmit, MaybeUser
  <1>3. ASSUME NEW w \in Workers, NEW u \in Users, NEW d \in Documents, BeginReject(w, u, d)
        PROVE  IInv'
    BY <1>3, BeginInductive DEF BeginReject, MaybeUser
  <1>4. ASSUME NEW w \in Workers, NEW u \in Users, NEW d \in Documents, BeginApprove(w, u, d)
        PROVE  IInv'
    BY <1>4, BeginInductive DEF BeginApprove, MaybeUser
  <1>5. ASSUME NEW w \in Workers, NEW d \in Documents, BeginRemove(w, d) PROVE IInv'
    BY <1>5, BeginInductive DEF BeginRemove, MaybeUser
  <1>6. ASSUME NEW w \in Workers, CommitSubmit(w) PROVE IInv'
    <2> DEFINE r == req[w]  old == contract[r.doc]  new == SubmittedRow(old)
    <2> PICK after : after = StepTo(r, "notify")
      OBVIOUS
    <2>1. r \in Request /\ r # NoRequest /\ r.step = "decided" /\ RequestHolds(r)
      BY <1>6 DEF CommitSubmit, Decided, IInv, TypeOK, RequestsHold
    <2>2. old \in Row /\ new \in Row /\ after \in Request /\ after.doc = r.doc
      BY <2>1, WrittenRowTyped DEF IInv, TypeOK, Request, StepTo, MaybeUser
    <2>3. /\ new.status = "pending_approval" /\ new.rejectedAt = FALSE
          /\ new.approver = old.approver /\ new.signer = old.signer
          /\ new.approvedAt = old.approvedAt
      BY <2>2 DEF SubmittedRow, Row
    <2>4. contract' = [contract EXCEPT ![r.doc] = new] /\ contract'[r.doc] = new
      BY <1>6, <2>1 DEF CommitSubmit, IInv, TypeOK, Request
    <2>5. RequestHolds(after)'
      BY <1>6, <2>1, <2>2, <2>3, <2>4 DEF RequestHolds, CommitSubmit, Decided, StepTo, Request
    <2>6. r.doc \in clean' => old.signer = NoUser /\ old.approvedAt = FALSE
      BY <1>6, <2>1, <2>2 DEF CommitSubmit, Decided, CleanAfter, IInv, CleanRecordCoherent,
                        RequestHolds, Submittable, Row
    <2>7. \A u \in {new.approver, new.signer} : u # NoUser => assertCanApprove(u, r.doc)
      BY <2>1, <2>3 DEF IInv, DecisionsAuthorised, Request
    <2>8. Committed(w, r.doc, after) /\ clean' \subseteq clean /\ UNCHANGED <<applied, lost>>
      BY <1>6 DEF CommitSubmit, CleanAfter
    <2> QED
      BY <2>1, <2>2, <2>3, <2>4, <2>5, <2>6, <2>7, <2>8, CommitInductive
  <1>7. ASSUME NEW w \in Workers, CommitReject(w) PROVE IInv'
    <2> DEFINE r == req[w]  old == contract[r.doc]  new == RejectedRow(old, r.actor)
    <2>1. /\ r \in Request /\ r # NoRequest /\ r.step = "decided" /\ RequestHolds(r)
          /\ r.actor \in Users /\ r.actor # NoUser /\ assertCanApprove(r.actor, r.doc)
      BY <1>7 DEF CommitReject, Decided, IInv, TypeOK, RequestsHold, RequestHolds
    <2>2. old \in Row /\ new \in Row
      BY <2>1, WrittenRowTyped DEF IInv, TypeOK, Request, MaybeUser
    <2>3. /\ new.status = "rejected" /\ new.approver = r.actor /\ new.signer = old.signer
          /\ new.approvedAt = old.approvedAt
      BY <2>2 DEF RejectedRow, Row
    <2>4. contract' = [contract EXCEPT ![r.doc] = new]
      BY <1>7 DEF CommitReject
    <2>5. r.doc \in clean' => old.signer = NoUser /\ old.approvedAt = FALSE
      BY <1>7, <2>1, <2>2 DEF CommitReject, Decided, CleanAfter, IInv, CleanRecordCoherent,
                        RequestHolds, Rejectable, Row
    <2>6. \A u \in {new.approver, new.signer} : u # NoUser => assertCanApprove(u, r.doc)
      BY <2>1, <2>3 DEF IInv, DecisionsAuthorised, Request
    <2>7. Committed(w, r.doc, NoRequest) /\ clean' \subseteq clean /\ UNCHANGED <<applied, lost>>
      BY <1>7 DEF CommitReject, CleanAfter
    <2> QED
      BY <2>1, <2>2, <2>3, <2>4, <2>5, <2>6, <2>7, CommitInductive
  <1>8. ASSUME NEW w \in Workers, AbortApprove(w) PROVE IInv'
    <2>1. RequestsHold' /\ DecisionsAuthorised' /\ CleanRecordCoherent' /\ BlankBeforeCreate'
      BY <1>8 DEF AbortApprove, IInv, TypeOK, RequestsHold, RequestHolds,
                  DecisionsAuthorised, CleanRecordCoherent, BlankBeforeCreate
    <2>2. EffectsMatchSignature'
      BY <1>8 DEF AbortApprove, Decided, IInv, TypeOK, EffectsMatchSignature, InEffects, InStep
    <2> QED
      BY <2>1, <2>2 DEF IInv
  <1>9. ASSUME NEW w \in Workers, CommitApprove(w) PROVE IInv'
    <2> DEFINE r == req[w]  old == contract[r.doc]  new == SignedRow(old, r)
    <2> PICK after : after = StepTo(r, "effects")
      OBVIOUS
    <2>1. /\ r \in Request /\ r # NoRequest /\ r.step = "decided" /\ RequestHolds(r)
          /\ r.actor \in Users /\ r.actor # NoUser /\ assertCanApprove(r.actor, r.doc)
      BY <1>9 DEF CommitApprove, Decided, IInv, TypeOK, RequestsHold, RequestHolds
    <2>2. old \in Row /\ new \in Row /\ after \in Request /\ after.doc = r.doc
      BY <2>1, WrittenRowTyped DEF IInv, TypeOK, Request, StepTo, MaybeUser
    <2>3. /\ new.status = "active" /\ new.approvedAt = TRUE /\ new.signer = r.actor
          /\ new.approver = IF r.seen = NoUser THEN r.actor ELSE r.seen
          /\ new.rejectedAt = old.rejectedAt
      BY <2>2 DEF SignedRow, Row
    <2>4. contract' = [contract EXCEPT ![r.doc] = new] /\ contract'[r.doc] = new
      BY <1>9, <2>1 DEF CommitApprove, IInv, TypeOK, Request
    <2>5. RequestHolds(after)'
      BY <1>9, <2>1, <2>2, <2>3, <2>4 DEF RequestHolds, CommitApprove, Decided, StepTo, Request
    <2>6. r.doc \in clean' => old.rejectedAt = FALSE
      BY <1>9, <2>1, <2>2 DEF CommitApprove, Decided, CleanAfter, IInv, CleanRecordCoherent,
                        RequestHolds, Signable, Row
    <2>7. \A u \in {new.approver, new.signer} : u # NoUser => assertCanApprove(u, r.doc)
      BY <2>1, <2>3 DEF RequestHolds
    <2>8. Committed(w, r.doc, after) /\ clean' \subseteq clean /\ UNCHANGED <<applied, lost>>
      BY <1>9 DEF CommitApprove, CleanAfter, AfterSigning
    <2>9. after # NoRequest /\ after.step = "effects" /\ new.approver # NoUser
      BY <2>1, <2>2, <2>3 DEF StepTo, Request
    <2> QED
      BY <2>1, <2>2, <2>3, <2>4, <2>5, <2>6, <2>7, <2>8, <2>9, CommitInductive
  <1>10. ASSUME NEW w \in Workers, CommitRemove(w) PROVE IInv'
    <2> DEFINE r == req[w]  old == contract[r.doc]  new == RemovedRow(old)
    <2>1. r \in Request /\ r # NoRequest /\ r.step = "decided" /\ RequestHolds(r)
      BY <1>10 DEF CommitRemove, Decided, IInv, TypeOK, RequestsHold
    <2>2. old \in Row /\ new \in Row
      BY <2>1, WrittenRowTyped DEF IInv, TypeOK, Request, MaybeUser
    <2>3. /\ new.status = old.status /\ new.rejectedAt = old.rejectedAt
          /\ new.approver = old.approver /\ new.signer = old.signer
          /\ new.approvedAt = old.approvedAt
      BY <2>2 DEF RemovedRow, Row
    <2>4. contract' = [contract EXCEPT ![r.doc] = new]
      BY <1>10 DEF CommitRemove
    <2>5. \A u \in {new.approver, new.signer} : u # NoUser => assertCanApprove(u, r.doc)
      BY <2>1, <2>3 DEF IInv, DecisionsAuthorised, Request
    <2>6. Committed(w, r.doc, NoRequest) /\ clean' = clean /\ UNCHANGED <<applied, lost>>
      BY <1>10 DEF CommitRemove
    <2>7. new.status # "none"
      BY <2>1, <2>3 DEF RequestHolds
    <2>8. r.doc \in clean' =>
             /\ new.signer # NoUser => new.status = "active" /\ new.approvedAt
             /\ new.approvedAt => new.signer # NoUser /\ new.approver # NoUser
             /\ new.rejectedAt => new.status = "rejected" /\ new.approver # NoUser
      BY <2>3, <2>6 DEF IInv, CleanRecordCoherent
    <2> QED
      BY <2>1, <2>2, <2>3, <2>4, <2>5, <2>6, <2>7, <2>8, CommitInductive
  <1>11. ASSUME NEW w \in Workers, ApplyEffect(w) PROVE IInv'
    <2> DEFINE r == req[w]
    <2>1. r \in Request /\ r # NoRequest /\ r.step = "effects" /\ RequestHolds(r)
      BY <1>11 DEF ApplyEffect, InStep, IInv, TypeOK, RequestsHold
    <2>2. /\ applied' = [applied EXCEPT ![r.doc] = @ \cup {r.next}]
          /\ req' = [req EXCEPT ![w] = [r EXCEPT !.next = r.next + 1]]
          /\ UNCHANGED <<contract, inbox, clean, lost>>
      BY <1>11, <2>1 DEF ApplyEffect, IInv, TypeOK, Request
    <2>3. RequestsHold'
      <3> SUFFICES ASSUME NEW v \in Workers, req'[v] # NoRequest
                   PROVE  RequestHolds(req[v])'
        BY DEF RequestsHold
      <3>1. \A e \in Documents : applied[e] \subseteq applied'[e]
        BY <2>2 DEF IInv, TypeOK
      <3>2. CASE v = w
        <4>1. req'[w] = [r EXCEPT !.next = r.next + 1]
          BY <2>2 DEF IInv, TypeOK
        <4>2. 1..((r.next + 1) - 1) \subseteq applied'[r.doc]
          BY <2>1, <2>2, <3>1 DEF IInv, TypeOK, Request, RequestHolds
        <4> QED
          BY <2>1, <2>2, <3>2, <4>1, <4>2 DEF Request, RequestHolds
      <3>3. CASE v # w
        <4>1. req'[v] = req[v] /\ req[v] \in Request /\ RequestHolds(req[v])
          BY <2>2, <3>3 DEF IInv, TypeOK, RequestsHold
        <4> QED
          BY <2>2, <3>1, <4>1 DEF RequestHolds, Request
      <3> QED
        BY <3>2, <3>3
    <2>4. DecisionsAuthorised' /\ CleanRecordCoherent' /\ BlankBeforeCreate'
      BY <2>2 DEF IInv, DecisionsAuthorised, CleanRecordCoherent, BlankBeforeCreate
    <2>5. EffectsMatchSignature'
      <3>1. \A e \in Documents : InEffects(e) => InEffects(e)'
        BY <2>1, <2>2, NoRequestAssumption, TypeOK' DEF InEffects, InStep, IInv, TypeOK, Request
      <3>2. InEffects(r.doc)'
        BY <2>1, <2>2, TypeOK' DEF InEffects, InStep, IInv, TypeOK, Request
      <3>3. \A e \in Documents \ {r.doc} : applied'[e] = applied[e]
        BY <2>2 DEF IInv, TypeOK
      <3>4. contract[r.doc].signer # NoUser
        BY <2>1 DEF RequestHolds
      <3> QED
        BY <2>2, <3>1, <3>2, <3>3, <3>4 DEF IInv, EffectsMatchSignature
    <2> QED
      BY <2>3, <2>4, <2>5 DEF IInv
  <1>12. ASSUME NEW w \in Workers, EffectFails(w) \/ EndEffects(w) PROVE IInv'
    <2> DEFINE r == req[w]
    <2>1. r \in Request /\ r # NoRequest /\ r.step = "effects" /\ RequestHolds(r)
      BY <1>12 DEF EffectFails, EndEffects, InStep, IInv, TypeOK, RequestsHold
    <2>2. /\ req' = [req EXCEPT ![w] = [r EXCEPT !.step = "notify"]]
          /\ UNCHANGED <<contract, applied, inbox, clean>>
          /\ lost \subseteq lost'
      BY <1>12, <2>1 DEF EffectFails, EndEffects, IInv, TypeOK, Request
    <2>3. RequestsHold'
      BY <2>1, <2>2 DEF IInv, TypeOK, RequestsHold, RequestHolds, Request
    <2>4. DecisionsAuthorised' /\ CleanRecordCoherent' /\ BlankBeforeCreate'
      BY <2>2 DEF IInv, DecisionsAuthorised, CleanRecordCoherent, BlankBeforeCreate
    <2>5. EffectsMatchSignature'
      <3>1. r.doc \in lost' \/ applied[r.doc] = 1..EffectWrites[r.doc]
        <4>1. CASE EffectFails(w)
          BY <4>1 DEF EffectFails
        <4>2. CASE EndEffects(w)
          <5>1. ~(r.next <= EffectWrites[r.doc])
            BY <4>2 DEF EndEffects, EffectsLeft
          <5>2. r.next \in Nat /\ EffectWrites[r.doc] \in Nat
            BY <2>1, ContractsAssumption DEF Request
          <5>3. 1..EffectWrites[r.doc] \subseteq 1..(r.next - 1)
            BY <5>1, <5>2
          <5>4. 1..(r.next - 1) \subseteq applied[r.doc]
            BY <2>1 DEF RequestHolds
          <5>5. applied[r.doc] \subseteq 1..EffectWrites[r.doc]
            BY <2>1 DEF IInv, TypeOK, Request
          <5> QED
            BY <5>3, <5>4, <5>5
        <4> QED
          BY <1>12, <4>1, <4>2
      <3>2. \A e \in Documents \ {r.doc} : InEffects(e) => InEffects(e)'
        BY <2>1, <2>2 DEF InEffects, InStep, IInv, TypeOK, Request
      <3>3. contract[r.doc].signer # NoUser
        BY <2>1 DEF RequestHolds
      <3> QED
        BY <2>2, <3>1, <3>2, <3>3 DEF IInv, EffectsMatchSignature
    <2> QED
      BY <2>3, <2>4, <2>5 DEF IInv
  <1>13. ASSUME NEW w \in Workers, Notify(w) PROVE IInv'
    <2>1. RequestsHold' /\ DecisionsAuthorised' /\ CleanRecordCoherent' /\ BlankBeforeCreate'
      BY <1>13 DEF Notify, IInv, TypeOK, RequestsHold, RequestHolds,
                   DecisionsAuthorised, CleanRecordCoherent, BlankBeforeCreate
    <2>2. EffectsMatchSignature'
      BY <1>13 DEF Notify, IInv, TypeOK, EffectsMatchSignature, InEffects, InStep
    <2> QED
      BY <2>1, <2>2 DEF IInv
  <1>14. CASE Crash
    <2>1. RequestsHold' /\ DecisionsAuthorised' /\ CleanRecordCoherent' /\ BlankBeforeCreate'
      BY <1>14 DEF Crash, IInv, RequestsHold, DecisionsAuthorised, CleanRecordCoherent,
                   BlankBeforeCreate
    <2>2. EffectsMatchSignature'
      <3> SUFFICES ASSUME NEW e \in Documents, contract[e].signer # NoUser, InEffects(e)
                   PROVE  applied[e] = 1..EffectWrites[e] \/ e \in lost'
        BY <1>14 DEF Crash, IInv, EffectsMatchSignature
      <3>1. PICK w \in Workers : InStep(w, "effects") /\ req[w].doc = e
        BY DEF InEffects
      <3>2. CASE EffectsLeft(req[w])
        BY <1>14, <3>1, <3>2 DEF Crash
      <3>3. CASE ~EffectsLeft(req[w])
        <4>1. req[w] \in Request /\ RequestHolds(req[w]) /\ req[w].step = "effects"
          BY <3>1 DEF InStep, IInv, TypeOK, RequestsHold
        <4>2. ~(req[w].next <= EffectWrites[e])
          BY <3>1, <3>3 DEF EffectsLeft
        <4>3. req[w].next \in Nat /\ EffectWrites[e] \in Nat
          BY <4>1, ContractsAssumption DEF Request
        <4>4. 1..EffectWrites[e] \subseteq 1..(req[w].next - 1)
          BY <4>2, <4>3
        <4>5. 1..(req[w].next - 1) \subseteq applied[e]
          BY <3>1, <4>1 DEF RequestHolds
        <4>6. applied[e] \subseteq 1..EffectWrites[e]
          BY DEF IInv, TypeOK
        <4> QED
          BY <4>4, <4>5, <4>6
      <3> QED
        BY <3>2, <3>3
    <2> QED
      BY <2>1, <2>2 DEF IInv
  <1>15. CASE UNCHANGED vars
    BY <1>15 DEF vars, IInv, RequestsHold, RequestHolds, DecisionsAuthorised,
                 CleanRecordCoherent, BlankBeforeCreate, EffectsMatchSignature, InEffects, InStep
  <1> QED
    BY <1>1, <1>2, <1>3, <1>4, <1>5, <1>6, <1>7, <1>8, <1>9, <1>10, <1>11, <1>12, <1>13,
       <1>14, <1>15, NextCases

THEOREM Inductive == Spec => []IInv
  BY InitInductive, StepInductive, TypeCorrect, PTL DEF Spec

\* Every recorded approver and signer was allowed to decide on the document.
THEOREM DecisionsAreAuthorised == Spec => []DecisionsAuthorised
  <1>1. IInv => DecisionsAuthorised
    BY DEF IInv
  <1> QED
    BY <1>1, Inductive, PTL

\* The decision columns are coherent on every document without a stale decision.
THEOREM CleanRecordsAreCoherent == Spec => []CleanRecordCoherent
  <1>1. IInv => CleanRecordCoherent
    BY DEF IInv
  <1> QED
    BY <1>1, Inductive, PTL

\* Side effects in force are exactly those of signatures, up to reported losses.
THEOREM EffectsFollowSignatures == Spec => []EffectsMatchSignature
  <1>1. IInv => EffectsMatchSignature
    BY DEF IInv
  <1> QED
    BY <1>1, Inductive, PTL

-----------------------------------------------------------------------------
(* The workflow implements the lifecycle of one document *)

\* What is left of a row write in the two columns the lifecycle shows.
LEMMA WriteShown ==
    ASSUME TypeOK, NEW d \in Documents, NEW row \in Row,
           contract' = [contract EXCEPT ![d] = row]
    PROVE  /\ [e \in Documents |-> contract[e].status]' =
                 [[e \in Documents |-> contract[e].status] EXCEPT ![d] = row.status]
           /\ [e \in Documents |-> contract[e].deleted]' =
                 [[e \in Documents |-> contract[e].deleted] EXCEPT ![d] = row.deleted]
  BY DEF TypeOK

\* A decision moves the shown status of its document and nothing else the lifecycle
\* shows, but for the document's place in clean when it comes from a stale copy.
LEMMA DecisionShown ==
    ASSUME TypeOK, NEW r \in Request, NEW row \in Row,
           row.deleted = contract[r.doc].deleted,
           contract' = [contract EXCEPT ![r.doc] = row],
           clean' = CleanAfter(r)
    PROVE  /\ [e \in Documents |-> contract[e].status]' =
                 [[e \in Documents |-> contract[e].status] EXCEPT ![r.doc] = row.status]
           /\ [e \in Documents |-> contract[e].deleted]' =
                 [e \in Documents |-> contract[e].deleted]
           /\ r.fresh => clean' = clean
           /\ ~r.fresh => clean' = clean \ {r.doc}
  <1>1. r.doc \in Documents
    BY DEF Request
  <1>2. /\ [e \in Documents |-> contract[e].status]' =
              [[e \in Documents |-> contract[e].status] EXCEPT ![r.doc] = row.status]
        /\ [e \in Documents |-> contract[e].deleted]' =
              [[e \in Documents |-> contract[e].deleted] EXCEPT ![r.doc] = row.deleted]
    BY <1>1, WriteShown
  <1> QED
    BY <1>1, <1>2 DEF CleanAfter

\* The document workflow implements DocumentLifecycle: every handler step is a step of
\* one document's lifecycle, or changes nothing the lifecycle shows.
THEOREM ImplementsLifecycle == Spec => FollowsLifecycle
  <1> USE DEF Lifecycle!lifecycleVars
  <1>1. Init => Lifecycle!LifecycleInit
    BY DEF Init, Lifecycle!LifecycleInit, EmptyRow
  <1>2. IInv /\ [Next]_vars => [Lifecycle!LifecycleNext]_(Lifecycle!lifecycleVars)
    <2> SUFFICES ASSUME IInv, [Next]_vars
                 PROVE  Lifecycle!LifecycleNext \/ UNCHANGED Lifecycle!lifecycleVars
      OBVIOUS
    <2> DEFINE st == [e \in Documents |-> contract[e].status]
               del == [e \in Documents |-> contract[e].deleted]
    <2> USE DEF IInv
    <2>1. ASSUME NEW d \in Documents, Create(d)
          PROVE  Lifecycle!Draft(d)
      <3>1. PICK s \in CreateStatuses :
              contract' = [contract EXCEPT ![d] = [EmptyRow EXCEPT !.status = s]]
        BY <2>1 DEF Create
      <3>2. PICK row : row = [EmptyRow EXCEPT !.status = s]
        OBVIOUS
      <3>3. /\ row \in Row /\ row.status = s /\ row.deleted = FALSE
            /\ s \in Lifecycle!DocStatus \ {"none"}
        BY <3>1, <3>2, CreateStatusesAssumption
           DEF EmptyRow, Row, MaybeUser, ContractStatus, Lifecycle!DocStatus
      <3>4. contract' = [contract EXCEPT ![d] = row]
        BY <3>1, <3>2, Zenon
      <3>5. TypeOK /\ contract[d].status = "none" /\ clean' = clean
        BY <2>1 DEF Create
      <3>6. st' = [st EXCEPT ![d] = row.status] /\ del' = [del EXCEPT ![d] = row.deleted]
        BY <3>3, <3>4, <3>5, WriteShown
      <3>7. contract[d].deleted = FALSE
        BY <3>5 DEF BlankBeforeCreate
      <3>8. del' = del
        BY <3>3, <3>6, <3>7
      <3> QED
        BY <3>3, <3>5, <3>6, <3>8 DEF Lifecycle!Draft
    <2>2. ASSUME NEW w \in Workers, CommitSubmit(w)
          PROVE  \E d \in Documents : Lifecycle!SubmitDocument(d) \/ Lifecycle!Overwrite(d)
      <3> PICK r : r = req[w]
        OBVIOUS
      <3> PICK row : row = SubmittedRow(contract[req[w].doc])
        OBVIOUS
      <3>1. r \in Request /\ RequestHolds(r) /\ r.step = "decided" /\ r.op = "submit"
        BY <2>2 DEF CommitSubmit, Decided, TypeOK, RequestsHold
      <3>2. /\ row \in Row /\ row.status = "pending_approval"
            /\ row.deleted = contract[r.doc].deleted
        <4>1. contract[r.doc] \in Row /\ row \in Row
          BY <3>1, WrittenRowTyped DEF TypeOK, Request
        <4> QED
          BY <4>1 DEF Row, SubmittedRow
      <3>3. contract' = [contract EXCEPT ![r.doc] = row] /\ clean' = CleanAfter(r)
        BY <2>2 DEF CommitSubmit
      <3>4. row.status \in {"pending_approval", "rejected", "active"}
        BY <3>2
      <3>5. /\ TypeOK /\ contract[r.doc].status # "none"
            /\ r.fresh => ~contract[r.doc].deleted /\ contract[r.doc].status \in Submittable
        BY <3>1 DEF RequestHolds
      <3>6. /\ st' = [st EXCEPT ![r.doc] = row.status] /\ del' = del
            /\ r.fresh => clean' = clean
            /\ ~r.fresh => clean' = clean \ {r.doc}
            /\ r.doc \in Documents
        BY <3>1, <3>2, <3>3, <3>5, DecisionShown DEF Request
      <3>7. CASE r.fresh
        <4>1. Lifecycle!SubmitDocument(r.doc)
          BY <3>2, <3>5, <3>6, <3>7 DEF Lifecycle!SubmitDocument, Lifecycle!Move, Submittable
        <4> QED
          BY <3>6, <4>1
      <3>8. CASE ~r.fresh
        <4>1. Lifecycle!Overwrite(r.doc)
          BY <3>4, <3>5, <3>6, <3>8 DEF Lifecycle!Overwrite
        <4> QED
          BY <3>6, <4>1
      <3> QED
        BY <3>7, <3>8
    <2>3. ASSUME NEW w \in Workers, CommitReject(w)
          PROVE  \E d \in Documents : Lifecycle!RejectDocument(d) \/ Lifecycle!Overwrite(d)
      <3> PICK r : r = req[w]
        OBVIOUS
      <3> PICK row : row = RejectedRow(contract[req[w].doc], req[w].actor)
        OBVIOUS
      <3>1. r \in Request /\ RequestHolds(r) /\ r.step = "decided" /\ r.op = "reject"
        BY <2>3 DEF CommitReject, Decided, TypeOK, RequestsHold
      <3>2. /\ row \in Row /\ row.status = "rejected"
            /\ row.deleted = contract[r.doc].deleted
        <4>1. contract[r.doc] \in Row /\ row \in Row
          BY <3>1, WrittenRowTyped DEF TypeOK, Request
        <4> QED
          BY <4>1 DEF Row, RejectedRow
      <3>3. contract' = [contract EXCEPT ![r.doc] = row] /\ clean' = CleanAfter(r)
        BY <2>3 DEF CommitReject
      <3>4. row.status \in {"pending_approval", "rejected", "active"}
        BY <3>2
      <3>5. /\ TypeOK /\ contract[r.doc].status # "none"
            /\ r.fresh => ~contract[r.doc].deleted /\ contract[r.doc].status \in Rejectable
        BY <3>1 DEF RequestHolds
      <3>6. /\ st' = [st EXCEPT ![r.doc] = row.status] /\ del' = del
            /\ r.fresh => clean' = clean
            /\ ~r.fresh => clean' = clean \ {r.doc}
            /\ r.doc \in Documents
        BY <3>1, <3>2, <3>3, <3>5, DecisionShown DEF Request
      <3>7. CASE r.fresh
        <4>1. Lifecycle!RejectDocument(r.doc)
          BY <3>2, <3>5, <3>6, <3>7 DEF Lifecycle!RejectDocument, Lifecycle!Move, Rejectable
        <4> QED
          BY <3>6, <4>1
      <3>8. CASE ~r.fresh
        <4>1. Lifecycle!Overwrite(r.doc)
          BY <3>4, <3>5, <3>6, <3>8 DEF Lifecycle!Overwrite
        <4> QED
          BY <3>6, <4>1
      <3> QED
        BY <3>7, <3>8
    <2>4. ASSUME NEW w \in Workers, CommitApprove(w)
          PROVE  \E d \in Documents : Lifecycle!SignDocument(d) \/ Lifecycle!Overwrite(d)
      <3> PICK r : r = req[w]
        OBVIOUS
      <3> PICK row : row = SignedRow(contract[req[w].doc], req[w])
        OBVIOUS
      <3>1. r \in Request /\ RequestHolds(r) /\ r.step = "decided" /\ r.op = "approve"
        BY <2>4 DEF CommitApprove, Decided, TypeOK, RequestsHold
      <3>2. /\ row \in Row /\ row.status = "active"
            /\ row.deleted = contract[r.doc].deleted
        <4>1. contract[r.doc] \in Row /\ row \in Row
          BY <3>1, WrittenRowTyped DEF TypeOK, Request
        <4> QED
          BY <4>1 DEF Row, SignedRow
      <3>3. contract' = [contract EXCEPT ![r.doc] = row] /\ clean' = CleanAfter(r)
        BY <2>4 DEF CommitApprove
      <3>4. row.status \in {"pending_approval", "rejected", "active"}
        BY <3>2
      <3>5. /\ TypeOK /\ contract[r.doc].status # "none"
            /\ r.fresh => ~contract[r.doc].deleted /\ contract[r.doc].status \in Signable
        BY <3>1 DEF RequestHolds
      <3>6. /\ st' = [st EXCEPT ![r.doc] = row.status] /\ del' = del
            /\ r.fresh => clean' = clean
            /\ ~r.fresh => clean' = clean \ {r.doc}
            /\ r.doc \in Documents
        BY <3>1, <3>2, <3>3, <3>5, DecisionShown DEF Request
      <3>7. CASE r.fresh
        <4>1. Lifecycle!SignDocument(r.doc)
          BY <3>2, <3>5, <3>6, <3>7 DEF Lifecycle!SignDocument, Lifecycle!Move, Signable
        <4> QED
          BY <3>6, <4>1
      <3>8. CASE ~r.fresh
        <4>1. Lifecycle!Overwrite(r.doc)
          BY <3>4, <3>5, <3>6, <3>8 DEF Lifecycle!Overwrite
        <4> QED
          BY <3>6, <4>1
      <3> QED
        BY <3>7, <3>8
    <2>5. ASSUME NEW w \in Workers, CommitRemove(w)
          PROVE  \E d \in Documents : Lifecycle!RemoveDocument(d)
      <3> PICK d : d = req[w].doc
        OBVIOUS
      <3> PICK row : row = RemovedRow(contract[req[w].doc])
        OBVIOUS
      <3>1. req[w] \in Request /\ RequestHolds(req[w]) /\ d \in Documents
        BY <2>5 DEF CommitRemove, Decided, TypeOK, RequestsHold, Request
      <3>2. row \in Row /\ row.status = contract[d].status /\ row.deleted = TRUE
        <4>1. contract[d] \in Row /\ row \in Row
          BY <3>1, WrittenRowTyped DEF TypeOK, MaybeUser
        <4> QED
          BY <4>1 DEF Row, RemovedRow
      <3>3. contract' = [contract EXCEPT ![d] = row] /\ clean' = clean
        BY <2>5 DEF CommitRemove
      <3>4. st' = [st EXCEPT ![d] = row.status] /\ del' = [del EXCEPT ![d] = TRUE]
        BY <3>1, <3>2, <3>3, WriteShown
      <3>5. st' = st
        BY <3>1, <3>2, <3>4
      <3> QED
        BY <3>1, <3>3, <3>4, <3>5 DEF Lifecycle!RemoveDocument, RequestHolds
    <2>6. ASSUME contract' = contract, clean' = clean
          PROVE  UNCHANGED Lifecycle!lifecycleVars
      BY <2>6
    <2>7. ASSUME NEW d \in Documents,
                 \/ Lifecycle!Draft(d) \/ Lifecycle!SubmitDocument(d)
                 \/ Lifecycle!RejectDocument(d) \/ Lifecycle!SignDocument(d)
                 \/ Lifecycle!RemoveDocument(d) \/ Lifecycle!Overwrite(d)
          PROVE  Lifecycle!LifecycleNext
      BY <2>7 DEF Lifecycle!LifecycleNext
    <2>8. ASSUME \/ Crash
                 \/ UNCHANGED vars
                 \/ \E w \in Workers : \/ AbortApprove(w) \/ ApplyEffect(w)
                                       \/ EffectFails(w) \/ EndEffects(w) \/ Notify(w)
          PROVE  UNCHANGED Lifecycle!lifecycleVars
      BY <2>6, <2>8 DEF AbortApprove, ApplyEffect, EffectFails, EndEffects, Notify, Crash, vars
    <2>9. ASSUME NEW w \in Workers, NEW d \in Documents,
                 \/ BeginSubmit(w, d)
                 \/ \E u \in Users : BeginReject(w, u, d) \/ BeginApprove(w, u, d)
                 \/ BeginRemove(w, d)
          PROVE  UNCHANGED Lifecycle!lifecycleVars
      BY <2>6, <2>9 DEF BeginSubmit, BeginReject, BeginApprove, BeginRemove, Begin
    <2>10. CASE Next
      <3> USE <2>10
      <3> HIDE DEF Lifecycle!lifecycleVars, IInv
      <3>1. CASE \E d \in Documents : Create(d)
        BY <2>1, <2>7, <3>1
      <3>2. CASE \E w \in Workers : \/ CommitSubmit(w) \/ CommitReject(w)
                                   \/ CommitApprove(w) \/ CommitRemove(w)
        BY <2>2, <2>3, <2>4, <2>5, <2>7, <3>2
      <3>3. CASE \/ Crash
                 \/ \E w \in Workers : \/ AbortApprove(w) \/ ApplyEffect(w)
                                       \/ EffectFails(w) \/ EndEffects(w) \/ Notify(w)
        BY <2>8, <3>3
      <3>4. CASE \E w \in Workers, d \in Documents :
                    \/ BeginSubmit(w, d)
                    \/ \E u \in Users : BeginReject(w, u, d) \/ BeginApprove(w, u, d)
                    \/ BeginRemove(w, d)
        BY <2>9, <3>4
      <3> QED
        BY <3>1, <3>2, <3>3, <3>4, NextCases
    <2> QED
      BY <2>8, <2>10
  <1> QED
    BY <1>1, <1>2, Inductive, PTL DEF Spec, FollowsLifecycle, Lifecycle!LifecycleSpec
=============================================================================
