---------------------------- MODULE CategoryProofs ----------------------------
(***************************************************************************)
(* The category of an applicant and the proofs that decide it:             *)
(* verifyDocument of src/src/admissions/admissions.service.ts writes the   *)
(* document and then, of a kf_proof, the category of the applicant.  How   *)
(* the file of a document is stored is in StoredFiles, how an application  *)
(* goes on in AdmissionPipeline.                                           *)
(*                                                                         *)
(* Staff may decide any proof, at any time and again, and set the category *)
(* by hand; the parents are asked for a proof until one was decided.  The  *)
(* category chooses the fees.                                              *)
(*                                                                         *)
(* History variables, never read by the actions: last, the proof decided   *)
(* last; astray, the category was set by hand since, or two decisions      *)
(* crossed, or one was lost half way.                                      *)
(***************************************************************************)
EXTENDS Requests

CONSTANTS
    Proofs,         \* documents of type kf_proof of the applicant
    NoProof

Categories == {"kf_student", "non_kf", "not_applicable"}

Decisions == {"pending", "verified", "rejected"}

DecisionRequest ==
    [op: {"verify"}, step: {"document", "category"}, proof: Proofs, decision: Decisions]

ASSUME CategoryProofsAssumption == NoProof \notin Proofs /\ NoRequest \notin DecisionRequest

VARIABLES
    proof,          \* [Proofs -> Decisions \cup {"none"}], the status of each
    category,       \* Categories
    source,         \* {"unverified", "manual_verified", "not_applicable"}, where it is from
    last, astray

proofsVars == <<req, proof, category, source, last, astray>>

-----------------------------------------------------------------------------
addDocument(p) ==
    /\ proof[p] = "none"
    /\ proof' = [proof EXCEPT ![p] = "pending"]
    /\ UNCHANGED <<req, category, source, last, astray>>

\* The document is found, and nothing of it but its type and applicant is used.
BeginDecision(w, p, decision) ==
    /\ proof[p] # "none"
    /\ Begin(w, [op |-> "verify", step |-> "document", proof |-> p, decision |-> decision])
    /\ UNCHANGED <<proof, category, source, last, astray>>

WriteDecision(w) ==
    LET q == req[w] IN
    /\ At(w, {"verify"}, "document")
    /\ proof' = [proof EXCEPT ![q.proof] = q.decision]
    /\ last' = q.proof
    /\ astray' = (\E v \in Others(w) : req[v].step = "category")
    /\ Goto(w, "category")
    /\ UNCHANGED <<category, source>>

categoryFor(decision) == IF decision = "verified" THEN "kf_student" ELSE "non_kf"

\* By id: not if the level of the applicant has categories.
ResolveCategory(w) ==
    /\ At(w, {"verify"}, "category")
    /\ category' = categoryFor(req[w].decision)
    /\ source' = "manual_verified"
    /\ Done(w)
    /\ UNCHANGED <<proof, last, astray>>

\* The process dies, or the second write fails.
LoseDecision(w) ==
    /\ req[w] # NoRequest /\ Done(w)
    /\ astray' = (astray \/ req[w].step = "category")
    /\ UNCHANGED <<proof, category, source, last>>

\* update of an application: the source of the category stays.
setCategory(c) ==
    /\ category' = c
    /\ astray' = TRUE
    /\ UNCHANGED <<req, proof, source, last>>

needsKfProof == source = "unverified"

-----------------------------------------------------------------------------
\* An application is made with the category it names; else with none of the family's.
ProofsInit ==
    /\ req = Idle
    /\ proof = [p \in Proofs |-> "none"]
    /\ category \in Categories
    /\ source \in {"unverified", "not_applicable"}
    /\ last = NoProof /\ astray = FALSE

ProofsNext ==
    \/ \E p \in Proofs :
          \/ addDocument(p)
          \/ \E w \in Workers, decision \in Decisions : BeginDecision(w, p, decision)
    \/ \E w \in Workers :
          \/ WriteDecision(w)
          \/ ResolveCategory(w)
          \/ LoseDecision(w)
    \/ \E c \in Categories : setCategory(c)

ProofsSpec == ProofsInit /\ [][ProofsNext]_proofsVars

-----------------------------------------------------------------------------
\* Every variable keeps its type.
ProofsTypeOK ==
    /\ req \in [Workers -> DecisionRequest \cup {NoRequest}]
    /\ proof \in [Proofs -> Decisions \cup {"none"}]
    /\ category \in Categories
    /\ source \in {"unverified", "manual_verified", "not_applicable"}
    /\ last \in Proofs \cup {NoProof} /\ astray \in BOOLEAN

\* Once its decision is over, the category is that of the proof decided last, whatever the
\* others say, and the parents are not asked for another; an application that nothing was
\* decided about keeps the source it was made with.  A decision that was crossed or lost, or
\* a change by hand, leaves the two apart until the next decision.
CategoryFollowsProof ==
    LET resolving == \E w \in Workers : At(w, {"verify"}, "category") IN
    /\ last # NoProof /\ ~astray /\ ~resolving =>
          category = categoryFor(proof[last]) /\ ~needsKfProof
    /\ last = NoProof => source # "manual_verified" /\ ~resolving
    /\ source = "manual_verified" => \E p \in Proofs : proof[p] # "none"
=============================================================================
