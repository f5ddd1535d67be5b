----------------------------- MODULE MCContracts -----------------------------
(* One letter whose signing writes two teaching assignments.  Its category is         *)
(* approved by the principal; MCOwnRoles leaves the letter without approver roles of   *)
(* its own, MCFoundationRoles names the foundation.  One user per role, and a teacher  *)
(* with the contract-approver flag.  No two documents share state, so one is enough; its        *)
(* requests do share it, and two of them may be in flight at once.                     *)
EXTENDS Contracts, TLC

CONSTANTS sk, principal, yayasan, guru

MCDocuments == {sk}
MCUsers == {principal, yayasan, guru}
MCRole == (principal :> "principal") @@ (yayasan :> "network_admin") @@ (guru :> "teacher")
MCDelegates == {guru}
MCCategoryRole == [d \in MCDocuments |-> "principal"]
MCOwnRoles == [d \in MCDocuments |-> {}]
MCFoundationRoles == [d \in MCDocuments |-> {"network_admin"}]
MCEffectWrites == [d \in MCDocuments |-> 2]
MCRecipient == [d \in MCDocuments |-> guru]
=============================================================================
