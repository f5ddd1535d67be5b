--------------------------- MODULE AdmissionPipeline ---------------------------
(***************************************************************************)
(* The admission pipeline: the stages a school defines and the             *)
(* applications that move through them (src/src/admissions: stages,        *)
(* admissions and ppdb services).                                          *)
(*                                                                         *)
(* An application names its stage by key; nothing in the database ties the *)
(* two together. Every handler that checks something (a role used once, an *)
(* empty stage, an existing stage, an open offer) reads it first and       *)
(* writes after other requests may have run, so it is a Begin* and a       *)
(* Commit* action. Stage order, blocking, documents and the applicant's    *)
(* data are left out: where the code takes the first stage of a role, any  *)
(* of them may be taken.                                                   *)
(*                                                                         *)
(* History variables, never read by the actions: req[w].fresh (what w      *)
(* checked still stands), rivals, unchecked and unstamped (see below).     *)
(***************************************************************************)
EXTENDS Naturals

CONSTANTS
    Keys,           \* stage keys
    Defaults,       \* the pipeline a tenant without stages is given
    Roles,          \* the stage roles in use
    NewRoles,       \* the roles staff give to stages they create or edit
    Apps,           \* applications
    NoStage, NoKey, Workers, NoRequest

\* Roles that drive automation and belong to at most one stage.
SINGLETON_ROLES == {"entry", "test", "offer", "accepted", "enrolled"}

StageRole == SINGLETON_ROLES \cup {"rejected", "generic"}

StageDef == [role: Roles, active: BOOLEAN]

ASSUME PipelineAssumption ==
    /\ Roles \subseteq StageRole
    /\ NewRoles \subseteq Roles
    /\ NoStage \notin StageDef
    /\ NoKey \notin Keys
    /\ Defaults \in [Keys -> StageDef \cup {NoStage}]
    /\ \A j, k \in Keys :
          /\ j # k /\ Defaults[j] # NoStage /\ Defaults[k] # NoStage
          /\ Defaults[j].role \in SINGLETON_ROLES
          => Defaults[j].role # Defaults[k].role

VARIABLES
    stage,      \* [Keys -> StageDef \cup {NoStage}]
    app,        \* [Apps -> Application]
    req,        \* [Workers -> Request \cup {NoRequest}]
    rivals,     \* history: stages whose role was written from a stale check
    unchecked,  \* history: applications whose stage was not checked, or checked too early
    unstamped   \* history: applications that got their stage, or their stage its role,
                \*          without the side effects of a transition

vars == <<stage, app, req, rivals, unchecked, unstamped>>
history == <<rivals, unchecked, unstamped>>

-----------------------------------------------------------------------------
\* enrolled and decided: enrolledAt and resultDate are set.
Application ==
    [status: {"none", "live", "deleted"}, stage: Keys \cup {NoKey},
     enrolled: BOOLEAN, decided: BOOLEAN]

NoApplication == [status |-> "none", stage |-> NoKey, enrolled |-> FALSE, decided |-> FALSE]

Request ==
    [op: {"createStage", "updateStage"}, key: Keys, role: NewRoles, fresh: BOOLEAN]
      \cup [op: {"removeStage"}, key: Keys, fresh: BOOLEAN]
      \cup [op: {"create"}, app: Apps, key: Keys, fresh: BOOLEAN]
      \cup [op: {"setStage"}, app: Apps, key: Keys, role: Roles, fresh: BOOLEAN]
      \cup [op: {"bulk"}, from: Keys, key: Keys, role: Roles, fresh: BOOLEAN]
      \cup [op: {"package"}, app: Apps, key: Keys \cup {NoKey}, fresh: BOOLEAN]

ASSUME NoRequestAssumption == NoRequest \notin Request \cup Workers

Defined(k) == stage[k] # NoStage
Live(a) == app[a].status = "live"
In(k) == {a \in Apps : Live(a) /\ app[a].stage = k}

keyByRole(role) == {k \in Keys : Defined(k) /\ stage[k].role = role /\ stage[k].active}

\* Where a new application may land: the entry stage, any stage when there is none, and
\* the offer stage for a level without a test.
LandingKeys ==
    keyByRole("offer") \cup
    (IF keyByRole("entry") # {} THEN keyByRole("entry") ELSE {k \in Keys : Defined(k)})

\* Mutant: only active stages are compared.
assertSingletonActive(role, except) ==
    role \in SINGLETON_ROLES => keyByRole(role) \subseteq {except}

assertSingleton(role, except) ==
    role \in SINGLETON_ROLES => \A k \in Keys \ {except} : Defined(k) => stage[k].role # role

-----------------------------------------------------------------------------
Pending(ops) == {w \in Workers : req[w] # NoRequest /\ req[w].op \in ops}

\* w is done, and what the requests of these operations checked may no longer hold.
Outdated(w, ops) ==
    [v \in Workers |->
        IF v = w THEN NoRequest
        ELSE IF v \in Pending(ops) THEN [req[v] EXCEPT !.fresh = FALSE] ELSE req[v]]

AllOps == {"createStage", "updateStage", "removeStage", "create", "setStage", "bulk", "package"}

\* Every check reads stages; only these read where applications are.
StageWritten(w) == Outdated(w, AllOps)
AppWritten(w) == Outdated(w, {"removeStage", "package"})

Begin(w, request) ==
    /\ req[w] = NoRequest
    /\ req' = [req EXCEPT ![w] = request]
    /\ UNCHANGED <<stage, app>>
    /\ UNCHANGED history

-----------------------------------------------------------------------------
(* Stages *)

\* ensureSeeded, which the list of stages and every creation call first.
ensureSeeded ==
    /\ \A k \in Keys : ~Defined(k)
    /\ stage' = Defaults
    /\ req' = [v \in Workers |->
                 IF req[v] # NoRequest THEN [req[v] EXCEPT !.fresh = FALSE] ELSE req[v]]
    /\ rivals' = {}
    /\ unstamped' = Apps
    /\ UNCHANGED <<app, unchecked>>

\* The key is derived from the label and made unique.
BeginCreateStage(w, k, role) ==
    /\ \E j \in Keys : Defined(j)
    /\ ~Defined(k)
    /\ assertSingleton(role, NoKey)
    /\ Begin(w, [op |-> "createStage", key |-> k, role |-> role, fresh |-> TRUE])

BeginUpdateStage(w, k, role) ==
    /\ Defined(k)
    /\ role # stage[k].role => assertSingleton(role, k)
    /\ Begin(w, [op |-> "updateStage", key |-> k, role |-> role, fresh |-> TRUE])

\* The write needs the key to be free (create) or there (update).
CommitStage(w) ==
    LET r == req[w]
        newRole == r.op = "createStage" \/ stage[r.key].role # r.role
    IN
    /\ w \in Pending({"createStage", "updateStage"})
    /\ Defined(r.key) <=> r.op = "updateStage"
    /\ stage' = [stage EXCEPT ![r.key] =
                   IF r.op = "createStage" THEN [role |-> r.role, active |-> TRUE]
                   ELSE [@ EXCEPT !.role = r.role]]
    /\ req' = StageWritten(w)
    /\ rivals' = IF ~r.fresh THEN rivals \cup {r.key}
                 ELSE IF newRole THEN rivals \ {r.key} ELSE rivals
    /\ unstamped' = IF newRole THEN unstamped \cup In(r.key) ELSE unstamped
    /\ UNCHANGED <<app, unchecked>>

\* update with isActive alone.
SetActive(k) ==
    /\ Defined(k)
    /\ stage' = [stage EXCEPT ![k].active = ~@]
    /\ UNCHANGED <<app, req>>
    /\ UNCHANGED history

Removable(k) == Defined(k) /\ stage[k].role # "entry" /\ In(k) = {}

BeginRemoveStage(w, k) ==
    /\ Removable(k)
    /\ Begin(w, [op |-> "removeStage", key |-> k, fresh |-> TRUE])

CommitRemoveStage(w) ==
    LET r == req[w] IN
    /\ w \in Pending({"removeStage"})
    /\ Defined(r.key)
    /\ stage' = [stage EXCEPT ![r.key] = NoStage]
    /\ req' = StageWritten(w)
    /\ rivals' = rivals \ {r.key}
    /\ unchecked' = IF r.fresh THEN unchecked ELSE unchecked \cup In(r.key)
    /\ UNCHANGED <<app, unstamped>>

-----------------------------------------------------------------------------
(* Applications *)

\* The public form, or staff who name no stage.
BeginSubmit(w, a, k) ==
    /\ app[a].status = "none"
    /\ \A v \in Pending({"create"}) : req[v].app # a
    /\ k \in LandingKeys
    /\ Begin(w, [op |-> "create", app |-> a, key |-> k, fresh |-> TRUE])

\* Staff name a stage in the new application, or in an edited one: no check, no effects.
PlaceApplication(a, k) ==
    /\ app[a].status # "deleted"
    /\ \A v \in Pending({"create"}) : req[v].app # a
    /\ app' = [app EXCEPT ![a].status = "live", ![a].stage = k]
    /\ req' = AppWritten(NoRequest)
    /\ unchecked' = unchecked \cup {a}
    /\ unstamped' = unstamped \cup {a}
    /\ UNCHANGED <<stage, rivals>>

CommitSubmit(w) ==
    LET r == req[w] IN
    /\ w \in Pending({"create"})
    /\ app' = [app EXCEPT ![r.app].status = "live", ![r.app].stage = r.key]
    /\ req' = AppWritten(w)
    /\ unchecked' = IF r.fresh THEN unchecked ELSE unchecked \cup {r.app}
    /\ unstamped' = unstamped \cup {r.app}
    /\ UNCHANGED <<stage, rivals>>

BeginSetStage(w, a, k) ==
    /\ Live(a)
    /\ Defined(k)
    /\ Begin(w, [op |-> "setStage", app |-> a, key |-> k, role |-> stage[k].role, fresh |-> TRUE])

\* bulkTransition over the applications of a stage.
BeginBulk(w, from, k) ==
    /\ Defined(k)
    /\ Begin(w, [op |-> "bulk", from |-> from, key |-> k, role |-> stage[k].role, fresh |-> TRUE])

\* Mutant: the role is written in place of the key.
stageDataSwapped(row, k, role) == [row EXCEPT !.stage = role]

\* Mutant: an accepted application gets no result date.
stageDataAccepted(row, k, role) ==
    [row EXCEPT !.stage = k, !.enrolled = @ \/ role = "enrolled",
                !.decided = @ \/ role = "rejected"]

\* stageData: the stage and the side effects of its role.
stageData(row, k, role) ==
    [row EXCEPT !.stage = k, !.enrolled = @ \/ role = "enrolled",
                !.decided = @ \/ role \in {"accepted", "rejected"}]

\* A bulk transition moves the applications its filter matches when it is written.
CommitMove(w) ==
    LET r == req[w]
        live == {a \in Apps : Live(a)}
        targets == IF r.op = "setStage" THEN {r.app} \cap live ELSE In(r.from)
    IN  /\ w \in Pending({"setStage", "bulk"})
        /\ app' = [a \in Apps |->
                     IF a \in targets THEN stageData(app[a], r.key, r.role) ELSE app[a]]
        /\ req' = AppWritten(w)
        /\ unchecked' = IF r.fresh THEN unchecked \ targets ELSE unchecked \cup targets
        /\ unstamped' = IF r.fresh THEN unstamped \ targets ELSE unstamped \cup targets
        /\ UNCHANGED <<stage, rivals>>

\* Mutant: a package may be chosen at any stage.
OpenOfferAnywhere(a) == Live(a) /\ app[a].stage \in Keys /\ Defined(app[a].stage)

OpenOffer(a) ==
    /\ Live(a)
    /\ app[a].stage \in Keys /\ Defined(app[a].stage)
    /\ stage[app[a].stage].role \in {"offer", "accepted"}

\* A parent selects a package, which confirms an offer when there is an accepted stage.
BeginPackage(w, a, k) ==
    /\ OpenOffer(a)
    /\ k \in IF stage[app[a].stage].role # "accepted" /\ keyByRole("accepted") # {}
             THEN keyByRole("accepted") ELSE {NoKey}
    /\ Begin(w, [op |-> "package", app |-> a, key |-> k, fresh |-> TRUE])

CommitPackage(w) ==
    LET r == req[w] IN
    /\ w \in Pending({"package"})
    /\ IF r.key = NoKey \/ ~Live(r.app)
       THEN /\ req' = Outdated(w, {})
            /\ UNCHANGED <<app, unchecked, unstamped>>
       ELSE /\ app' = [app EXCEPT ![r.app].stage = r.key]
            /\ req' = AppWritten(w)
            /\ unchecked' = IF r.fresh THEN unchecked \ {r.app} ELSE unchecked \cup {r.app}
            /\ unstamped' = unstamped \cup {r.app}
    /\ UNCHANGED <<stage, rivals>>

\* A deleted application keeps its columns, and a request under way may still write them,
\* but only its absence is ever read.
remove(a) ==
    /\ Live(a)
    /\ app' = [app EXCEPT ![a] = [NoApplication EXCEPT !.status = "deleted"]]
    /\ unchecked' = unchecked \ {a}
    /\ unstamped' = unstamped \ {a}
    /\ UNCHANGED <<stage, req, rivals>>

\* The write fails (a duplicate or missing key, a lost connection), or the process dies.
Abandon(w) ==
    /\ req[w] # NoRequest
    /\ req' = [req EXCEPT ![w] = NoRequest]
    /\ UNCHANGED <<stage, app>>
    /\ UNCHANGED history

-----------------------------------------------------------------------------
Init ==
    /\ stage = [k \in Keys |-> NoStage]
    /\ app = [a \in Apps |-> NoApplication]
    /\ req = [w \in Workers |-> NoRequest]
    /\ rivals = {}
    /\ unchecked = {}
    /\ unstamped = {}

Next ==
    \/ ensureSeeded
    \/ \E k \in Keys : SetActive(k)
    \/ \E a \in Apps : remove(a)
    \/ \E a \in Apps, k \in Keys : PlaceApplication(a, k)
    \/ \E w \in Workers :
          \/ \E k \in Keys, role \in NewRoles : BeginCreateStage(w, k, role) \/ BeginUpdateStage(w, k, role)
          \/ \E k \in Keys : BeginRemoveStage(w, k)
          \/ \E a \in Apps, k \in Keys : BeginSubmit(w, a, k) \/ BeginSetStage(w, a, k)
          \/ \E from, k \in Keys : BeginBulk(w, from, k)
          \/ \E a \in Apps, k \in Keys \cup {NoKey} : BeginPackage(w, a, k)
          \/ CommitStage(w) \/ CommitRemoveStage(w)
          \/ CommitSubmit(w) \/ CommitMove(w) \/ CommitPackage(w)
          \/ Abandon(w)

Spec == Init /\ [][Next]_vars

-----------------------------------------------------------------------------
(* Properties *)

TypeOK ==
    /\ stage \in [Keys -> StageDef \cup {NoStage}]
    /\ app \in [Apps -> Application]
    /\ req \in [Workers -> Request \cup {NoRequest}]
    /\ rivals \subseteq Keys
    /\ unchecked \subseteq Apps
    /\ unstamped \subseteq Apps

\* A role that drives automation belongs to one stage, unless one of two stages got it
\* from a check that another change of the pipeline had overtaken.
SingletonRoles ==
    \A j, k \in Keys :
        /\ j # k /\ Defined(j) /\ Defined(k)
        /\ stage[j].role = stage[k].role /\ stage[k].role \in SINGLETON_ROLES
        => {j, k} \cap rivals # {}

\* No application stands in a stage that does not exist, unless its stage was written
\* unchecked or one of the two was checked before the other changed.
StageExists ==
    \A a \in Apps \ unchecked : Live(a) => app[a].stage \in Keys /\ Defined(app[a].stage)

\* An application that came into its stage by a transition carries the marks of the
\* stage's role: who stands in the enrolled stage is enrolled, and an acceptance or a
\* rejection has its date, whether it was moved alone or in bulk.
RoleEffects ==
    \A a \in Apps \ unstamped :
        Live(a) /\ app[a].stage \in Keys /\ Defined(app[a].stage) =>
            LET role == stage[app[a].stage].role IN
            /\ role = "enrolled" => app[a].enrolled
            /\ role \in {"accepted", "rejected"} => app[a].decided

\* The entry stage is not deleted, unless it became the entry stage while its deletion
\* was under way.
EntryStays ==
    [][\A k \in Keys :
          Defined(k) /\ stage[k].role = "entry" /\ stage'[k] = NoStage =>
              \E w \in Pending({"removeStage"}) : req[w].key = k /\ ~req[w].fresh]_vars

\* A parent's choice moves an application only from an open offer to acceptance, unless
\* staff moved it, or changed the pipeline, while the choice was being stored.
ParentsOnlyConfirm ==
    [][\A w \in Pending({"package"}) :
          /\ req[w].fresh /\ req'[w] = NoRequest
          /\ app'[req[w].app].stage # app[req[w].app].stage
          => /\ stage[app[req[w].app].stage].role = "offer"
             /\ stage[app'[req[w].app].stage].role = "accepted"]_vars

\* An application stands in a stage that exists, and carries the marks of its role.
ApplicationsStand == StageExists /\ RoleEffects

\* What no step does: delete the entry stage, or move an application for a parent.
StepsAllowed == EntryStays /\ ParentsOnlyConfirm
=============================================================================
