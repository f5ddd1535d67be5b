------------------------------- MODULE Branches -------------------------------
(***************************************************************************)
(* What a foundation changes: the branches (its schools) and its policy    *)
(* templates, and the audit log of both: src/src/networks.                 *)
(*                                                                         *)
(* A branch is found under the foundation first.  Its settings and then    *)
(* its name are written by identifier alone; its status is written only if *)
(* it is still the foundation's, and is logged either way.  The log entry  *)
(* is the last write of every operation, reading included.                 *)
(*                                                                         *)
(* History variables, never read by the actions: strayed, the changes that *)
(* were made to a branch or policy of another foundation; hollow, those    *)
(* that the log tells of and nobody made; slipped, the branches that left  *)
(* their foundation while it was changing them.                            *)
(***************************************************************************)
EXTENDS Requests

CONSTANTS
    BranchIds, NetworkIds, PolicyIds,
    NoNetwork       \* the school has no foundation, or is removed; or there is no policy

VARIABLES
    branchOf,       \* [BranchIds -> NetworkIds \cup {NoNetwork}]
    policyOf,       \* [PolicyIds -> NetworkIds \cup {NoNetwork}]
    strayed, hollow, slipped

branchesVars == <<req, branchOf, policyOf, strayed, hollow, slipped>>

BranchChanges == {"update_branch", "update_branch_status"}

PolicyChanges == {"create_policy", "update_policy", "delete_policy"}

\* What the log will say of a request.
Entry(w) == [by |-> req[w].by, what |-> req[w].op, on |-> req[w].on]

-----------------------------------------------------------------------------
\* Mutant: any live school is found.
AnyBranch(n, b) == branchOf[b] # NoNetwork

findBranch(n, b) == branchOf[b] = n

findPolicy(n, p) == policyOf[p] = n

BeginNetworkRequest(w, n, op, step, on) ==
    /\ Begin(w, [op |-> op, step |-> step, by |-> n, on |-> on, made |-> FALSE])
    /\ UNCHANGED <<branchOf, policyOf, strayed, hollow, slipped>>

\* Settings are written when levels were sent.
BeginBranchUpdate(w, n, b, step) ==
    findBranch(n, b) /\ BeginNetworkRequest(w, n, "update_branch", step, b)

BeginBranchStatus(w, n, b) ==
    findBranch(n, b) /\ BeginNetworkRequest(w, n, "update_branch_status", "status", b)

BeginPolicyChange(w, n, p, op) ==
    findPolicy(n, p) /\ BeginNetworkRequest(w, n, op, "policy", p)

\* One write of a request: the change is made, to whoever's row it is by now.
Write(w, owner, next) ==
    /\ strayed' = IF owner = req[w].by THEN strayed ELSE strayed \cup {Entry(w)}
    /\ req' = [req EXCEPT ![w].step = next, ![w].made = TRUE]
    /\ UNCHANGED <<hollow, slipped>>

UpsertSettings(w) ==
    /\ At(w, {"update_branch"}, "settings")
    /\ Write(w, branchOf[req[w].on], "name")
    /\ UNCHANGED <<branchOf, policyOf>>

UpdateName(w) ==
    /\ At(w, {"update_branch"}, "name")
    /\ Write(w, branchOf[req[w].on], "log")
    /\ UNCHANGED <<branchOf, policyOf>>

\* One statement with the foundation in its condition: it may match nothing.
UpdateStatus(w) ==
    /\ At(w, {"update_branch_status"}, "status")
    /\ IF branchOf[req[w].on] = req[w].by
       THEN Write(w, branchOf[req[w].on], "log")
       ELSE Goto(w, "log") /\ UNCHANGED <<strayed, hollow, slipped>>
    /\ UNCHANGED <<branchOf, policyOf>>

createPolicy(w, n, p) ==
    /\ policyOf[p] = NoNetwork      \* a new identifier, one that no request remembers
    /\ \A v \in Workers : req[v] # NoRequest => req[v].on # p
    /\ Begin(w, [op |-> "create_policy", step |-> "log", by |-> n, on |-> p, made |-> TRUE])
    /\ policyOf' = [policyOf EXCEPT ![p] = n]
    /\ UNCHANGED <<branchOf, strayed, hollow, slipped>>

\* By identifier: a policy that was deleted since it was found is written all the same.
WritePolicy(w) ==
    LET q == req[w] IN
    /\ At(w, PolicyChanges, "policy")
    /\ Write(w, IF policyOf[q.on] = NoNetwork THEN q.by ELSE policyOf[q.on], "log")
    /\ policyOf' = [policyOf EXCEPT ![q.on] = IF q.op = "delete_policy" THEN NoNetwork ELSE @]
    /\ UNCHANGED branchOf

Log(w) ==
    /\ At(w, BranchChanges \cup PolicyChanges, "log")
    /\ hollow' = IF req[w].made THEN hollow ELSE hollow \cup {Entry(w)}
    /\ Done(w)
    /\ UNCHANGED <<branchOf, policyOf, strayed, slipped>>

LoseNetworkRequest(w) ==
    /\ req[w] # NoRequest /\ Done(w)
    /\ UNCHANGED <<branchOf, policyOf, strayed, hollow, slipped>>

\* A superadmin gives a school to another foundation, or removes it (Foundations).
MoveBranch(b, n) ==
    /\ branchOf[b] # n
    /\ branchOf' = [branchOf EXCEPT ![b] = n]
    /\ slipped' = slipped \cup {x \in {b} : \E w \in Workers : req[w] # NoRequest /\ req[w].on = b}
    /\ UNCHANGED <<req, policyOf, strayed, hollow>>

-----------------------------------------------------------------------------
BranchesInit ==
    /\ req = Idle
    /\ branchOf = [b \in BranchIds |-> NoNetwork]
    /\ policyOf = [p \in PolicyIds |-> NoNetwork]
    /\ strayed = {} /\ hollow = {} /\ slipped = {}

BranchesNext ==
    \/ \E w \in Workers :
          \/ \E n \in NetworkIds :
                \/ \E b \in BranchIds : \/ \E step \in {"settings", "name"} : BeginBranchUpdate(w, n, b, step)
                                        \/ BeginBranchStatus(w, n, b)
                \/ \E p \in PolicyIds : \/ createPolicy(w, n, p)
                                        \/ \E op \in {"update_policy", "delete_policy"} :
                                              BeginPolicyChange(w, n, p, op)
          \/ UpsertSettings(w)
          \/ UpdateName(w)
          \/ UpdateStatus(w)
          \/ WritePolicy(w)
          \/ Log(w)
          \/ LoseNetworkRequest(w)
    \/ \E b \in BranchIds, n \in NetworkIds \cup {NoNetwork} : MoveBranch(b, n)

BranchesSpec == BranchesInit /\ [][BranchesNext]_branchesVars

-----------------------------------------------------------------------------
NetworkChange ==
    [by: NetworkIds, what: BranchChanges, on: BranchIds]
        \cup [by: NetworkIds, what: PolicyChanges, on: PolicyIds]

\* Every variable keeps its type.
BranchesTypeOK ==
    /\ req \in [Workers ->
          [op: BranchChanges, by: NetworkIds, on: BranchIds,
           step: {"settings", "name", "status", "log"}, made: BOOLEAN]
            \cup [op: PolicyChanges, by: NetworkIds, on: PolicyIds,
                  step: {"policy", "log"}, made: BOOLEAN]
            \cup {NoRequest}]
    /\ branchOf \in [BranchIds -> NetworkIds \cup {NoNetwork}]
    /\ policyOf \in [PolicyIds -> NetworkIds \cup {NoNetwork}]
    /\ strayed \subseteq NetworkChange /\ hollow \subseteq NetworkChange
    /\ slipped \subseteq BranchIds

\* A foundation changes the status of its own schools and its own policies, and the name and
\* settings of its own schools unless the school left it half way.  The log tells of nothing
\* that was not done, except the status of a school that had left.
NetworkChangesScoped ==
    /\ \A c \in strayed : c.what = "update_branch" /\ c.on \in slipped
    /\ \A c \in hollow : c.what = "update_branch_status" /\ c.on \in slipped
=============================================================================
