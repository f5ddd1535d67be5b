-------------------------- MODULE MCAdmissionPipeline --------------------------
(* Two stage keys, both given to a fresh tenant, four roles, one application and two    *)
(* requests at once: a stage can be deleted and made anew, renamed into another role,   *)
(* or share its role with the other.  Applications share no state but the stages.       *)
EXTENDS AdmissionPipeline, TLC

CONSTANTS applied, payment

MCKeys == {applied, payment}
MCRoles == {"entry", "offer", "accepted", "enrolled"}
MCNewRoles == {"entry", "accepted", "enrolled"}
MCDefaults == [k \in MCKeys |->
                 IF k = applied THEN [role |-> "entry", active |-> TRUE]
                 ELSE [role |-> "offer", active |-> TRUE]]
MCSymmetry == Permutations(Workers)
=============================================================================
