---------------------------- MODULE AdmissionProofs ----------------------------
(***************************************************************************)
(* Proofs about AdmissionPipeline: types, one stage a role, applications   *)
(* that stand in a stage and carry its marks, and the steps that no        *)
(* request may take.  What is inductive is what a request may still rely   *)
(* on as long as it is fresh (ReadInv): the role it gives is free, the     *)
(* stage it removes is empty, the stage it moves to exists and has the     *)
(* role it had, the application of a parent stands in an open offer.       *)
(***************************************************************************)
EXTENDS AdmissionPipeline, TLAPS

\* What q checked still holds.
Holds(q) ==
    /\ q.op = "createStage" => assertSingleton(q.role, NoKey)
    /\ q.op = "updateStage" =>
          (Defined(q.key) /\ q.role # stage[q.key].role => assertSingleton(q.role, q.key))
    /\ q.op = "removeStage" =>
          /\ Defined(q.key) => stage[q.key].role # "entry"
          /\ In(q.key) = {}
    /\ q.op = "create" => Defined(q.key)
    /\ q.op \in {"setStage", "bulk"} => Defined(q.key) /\ stage[q.key].role = q.role
    /\ q.op = "package" /\ q.key # NoKey =>
          /\ Defined(q.key) /\ stage[q.key].role = "accepted"
          /\ Live(q.app) => /\ app[q.app].stage \in Keys /\ Defined(app[q.app].stage)
                            /\ stage[app[q.app].stage].role = "offer"

\* So it does for w, unless a write that its check depends on overtook it.
ReadInv(w) == req[w] # NoRequest /\ req[w].fresh => Holds(req[w])

IInv == TypeOK /\ SingletonRoles /\ ApplicationsStand /\ \A w \in Workers : ReadInv(w)

\* The stages are the same, and so are their roles.
SameRoles ==
    \A k \in Keys : /\ Defined(k)' <=> Defined(k)
                    /\ Defined(k) => stage'[k].role = stage[k].role

-----------------------------------------------------------------------------
(* Requests *)

\* What each kind of request holds.
LEMMA RequestFields ==
    ASSUME TypeOK, NEW w \in Workers, req[w] # NoRequest
    PROVE  /\ req[w] \in Request /\ req[w].op \in AllOps /\ req[w].fresh \in BOOLEAN
           /\ req[w].op # "package" => req[w].key \in Keys
           /\ req[w].op = "package" => req[w].key \in Keys \cup {NoKey}
           /\ req[w].op \in {"createStage", "updateStage"} => req[w].role \in NewRoles
           /\ req[w].op \in {"create", "setStage", "package"} => req[w].app \in Apps
           /\ req[w].op \in {"setStage", "bulk"} => req[w].role \in Roles
           /\ req[w].op = "bulk" => req[w].from \in Keys
<1>1. req[w] \in Request  BY DEF TypeOK
<1>  QED  BY <1>1 DEF Request, AllOps

\* A request whose check is out of date is still a request of its kind.
LEMMA StaleRequest ==
    ASSUME NEW q \in Request
    PROVE  [q EXCEPT !.fresh = FALSE] \in Request /\ [q EXCEPT !.fresh = FALSE].fresh = FALSE
BY DEF Request

\* The checks of the requests of these operations are out of date.
LEMMA OutdatedOther ==
    ASSUME TypeOK, NEW w, NEW ops, NEW v \in Workers, v # w
    PROVE  /\ Outdated(w, ops)[v] \in Request \cup {NoRequest}
           /\ req[v] # NoRequest /\ req[v].op \in ops =>
                 Outdated(w, ops)[v] # NoRequest /\ Outdated(w, ops)[v].fresh = FALSE
           /\ ~(req[v] # NoRequest /\ req[v].op \in ops) => Outdated(w, ops)[v] = req[v]
<1>1. CASE req[v] # NoRequest /\ req[v].op \in ops
  <2>1. Outdated(w, ops)[v] = [req[v] EXCEPT !.fresh = FALSE]
    BY <1>1 DEF Outdated, Pending
  <2>2. req[v] \in Request  BY <1>1 DEF TypeOK
  <2>3. Outdated(w, ops)[v] \in Request /\ Outdated(w, ops)[v].fresh = FALSE
    BY <2>1, <2>2, StaleRequest
  <2>  QED  BY <1>1, <2>3, NoRequestAssumption
<1>2. CASE ~(req[v] # NoRequest /\ req[v].op \in ops)
  <2>1. Outdated(w, ops)[v] = req[v]  BY <1>2 DEF Outdated, Pending
  <2>  QED  BY <1>2, <2>1 DEF TypeOK
<1>  QED  BY <1>1, <1>2

\* Requests stay requests, and w is over.
LEMMA OutdatedRequests ==
    ASSUME TypeOK, NEW w, NEW ops
    PROVE  /\ Outdated(w, ops) \in [Workers -> Request \cup {NoRequest}]
           /\ w \in Workers => Outdated(w, ops)[w] = NoRequest
<1>1. w \in Workers => Outdated(w, ops)[w] = NoRequest  BY DEF Outdated
<1>2. Outdated(w, ops) = [v \in Workers |-> Outdated(w, ops)[v]]  BY DEF Outdated
<1>3. \A v \in Workers : Outdated(w, ops)[v] \in Request \cup {NoRequest}
  BY <1>1, OutdatedOther
<1>  QED  BY <1>1, <1>2, <1>3

\* Requests that are over, or overtaken, rely on nothing.
LEMMA NothingRead ==
    ASSUME NEW w \in Workers, req'[w] = NoRequest \/ req'[w].fresh = FALSE
    PROVE  ReadInv(w)'
BY DEF ReadInv

\* A request keeps what it knows while the roles of the stages stay, and, if it looked at
\* applications, no application comes anywhere else.
LEMMA ReadKept ==
    ASSUME TypeOK, NEW w \in Workers, ReadInv(w), req'[w] = req[w], SameRoles,
           req[w] # NoRequest /\ req[w].op \in {"removeStage", "package"} =>
              \A a \in Apps : Live(a)' => Live(a) /\ app'[a].stage = app[a].stage
    PROVE  ReadInv(w)'
<1>  SUFFICES ASSUME req[w] # NoRequest, req[w].fresh  PROVE ReadInv(w)'
  BY DEF ReadInv
<1>1. req[w] \in Request /\ Holds(req[w])  BY RequestFields DEF ReadInv
<1>2. CASE req[w].op \in {"createStage", "updateStage"}
  BY <1>1, <1>2, RequestFields DEF ReadInv, Holds, SameRoles, assertSingleton, Defined
<1>3. CASE req[w].op = "removeStage"
  BY <1>1, <1>3, RequestFields DEF ReadInv, Holds, SameRoles, In
<1>4. CASE req[w].op \in {"create", "setStage", "bulk"}
  BY <1>1, <1>4, RequestFields DEF ReadInv, Holds, SameRoles
<1>5. CASE req[w].op = "package"
  BY <1>1, <1>5, RequestFields DEF ReadInv, Holds, SameRoles
<1>  QED  BY <1>2, <1>3, <1>4, <1>5, RequestFields DEF AllOps

\* After a write to the stages, which every check reads.
LEMMA ReadAfterStage ==
    ASSUME TypeOK, NEW w \in Workers, req' = StageWritten(w)
    PROVE  /\ req' \in [Workers -> Request \cup {NoRequest}] /\ req'[w] = NoRequest
           /\ \A v \in Workers : ReadInv(v)'
<1>1. req' = Outdated(w, AllOps)  BY DEF StageWritten
<1>2. req' \in [Workers -> Request \cup {NoRequest}] /\ req'[w] = NoRequest
  BY <1>1, OutdatedRequests
<1>3. ASSUME NEW v \in Workers, v # w  PROVE req'[v] = NoRequest \/ req'[v].fresh = FALSE
  <2>1. CASE req[v] # NoRequest
    <3>1. req[v].op \in AllOps  BY <2>1, RequestFields
    <3>2. Outdated(w, AllOps)[v].fresh = FALSE  BY <1>3, <2>1, <3>1, OutdatedOther
    <3>  QED  BY <1>1, <3>2
  <2>2. CASE req[v] = NoRequest
    <3>1. Outdated(w, AllOps)[v] = req[v]  BY <1>3, <2>2, OutdatedOther
    <3>  QED  BY <1>1, <2>2, <3>1
  <2>  QED  BY <2>1, <2>2
<1>  QED  BY <1>2, <1>3, NothingRead

\* After a write to the applications, which only two kinds of checks read.
LEMMA ReadAfterApp ==
    ASSUME TypeOK, \A v \in Workers : ReadInv(v), NEW w, req' = AppWritten(w),
           UNCHANGED stage
    PROVE  /\ req' \in [Workers -> Request \cup {NoRequest}]
           /\ w \in Workers => req'[w] = NoRequest
           /\ \A v \in Workers : ReadInv(v)'
<1>  DEFINE ops == {"removeStage", "package"}
<1>1. req' = Outdated(w, ops)  BY DEF AppWritten
<1>  HIDE DEF ops
<1>2. /\ req' \in [Workers -> Request \cup {NoRequest}]
      /\ w \in Workers => req'[w] = NoRequest
  BY <1>1, OutdatedRequests
<1>3. ASSUME NEW v \in Workers, v # w, req[v] # NoRequest, req[v].op \in ops
      PROVE  req'[v].fresh = FALSE
  <2>1. Outdated(w, ops)[v].fresh = FALSE  BY <1>3, OutdatedOther
  <2>  QED  BY <1>1, <2>1
<1>4. ASSUME NEW v \in Workers, v # w, ~(req[v] # NoRequest /\ req[v].op \in ops)
      PROVE  req'[v] = req[v]
  <2>1. Outdated(w, ops)[v] = req[v]  BY <1>4, OutdatedOther
  <2>  QED  BY <1>1, <2>1
<1>5. ASSUME NEW v \in Workers  PROVE ReadInv(v)'
  <2>1. CASE v = w \/ (req[v] # NoRequest /\ req[v].op \in ops)
    BY <1>2, <1>3, <2>1, NothingRead
  <2>2. CASE ~(v = w \/ (req[v] # NoRequest /\ req[v].op \in ops))
    <3>1. req'[v] = req[v]  BY <1>4, <2>2
    <3>2. SameRoles  BY DEF SameRoles, Defined
    <3>  QED  BY <2>2, <3>1, <3>2, ReadKept DEF ops
  <2>  QED  BY <2>1, <2>2
<1>  QED  BY <1>2, <1>5

-----------------------------------------------------------------------------
(* The inductive step, one lemma for each kind of action *)

\* What must be shown of a step on stages and applications alone.
LEMMA PropertiesUnchanged ==
    ASSUME UNCHANGED <<stage, app, rivals, unchecked, unstamped>>,
           SingletonRoles, ApplicationsStand
    PROVE  SingletonRoles' /\ ApplicationsStand'
BY DEF SingletonRoles, ApplicationsStand, StageExists, RoleEffects, Defined, Live

\* Requests that begin write nothing; what a new one relies on it has checked.
LEMMA BeginPreserves ==
    ASSUME IInv, NEW w \in Workers, NEW q \in Request, Begin(w, q), Holds(q)
    PROVE  IInv'
<1>  USE DEF IInv
<1>1. req' = [req EXCEPT ![w] = q] /\ UNCHANGED <<stage, app, rivals, unchecked, unstamped>>
  BY DEF Begin, history
<1>2. TypeOK'
  <2>1. req' \in [Workers -> Request \cup {NoRequest}]  BY <1>1 DEF TypeOK
  <2>  QED  BY <1>1, <2>1 DEF TypeOK
<1>3. SingletonRoles' /\ ApplicationsStand'  BY <1>1, PropertiesUnchanged
<1>4. ASSUME NEW v \in Workers  PROVE ReadInv(v)'
  <2>1. CASE v = w
    <3>1. req'[v] = q  BY <1>1, <2>1 DEF TypeOK
    <3>2. Holds(q)'
      BY <1>1 DEF Holds, assertSingleton, Defined, In, Live
    <3>3. Holds(req[v])'  BY <3>1, <3>2 DEF Holds, assertSingleton, In
    <3>  QED  BY <3>3 DEF ReadInv
  <2>2. CASE v # w
    <3>1. req'[v] = req[v]  BY <1>1, <2>2 DEF TypeOK
    <3>2. SameRoles  BY <1>1 DEF SameRoles, Defined
    <3>  QED  BY <1>1, <3>1, <3>2, ReadKept DEF Live
  <2>  QED  BY <2>1, <2>2
<1>  QED  BY <1>2, <1>3, <1>4

\* A request that is lost writes nothing.
LEMMA AbandonPreserves ==
    ASSUME IInv, NEW w \in Workers, Abandon(w)
    PROVE  IInv'
<1>  USE DEF IInv
<1>1. /\ req' = [req EXCEPT ![w] = NoRequest]
      /\ UNCHANGED <<stage, app, rivals, unchecked, unstamped>>
  BY DEF Abandon, history
<1>2. TypeOK'
  <2>1. req' \in [Workers -> Request \cup {NoRequest}]  BY <1>1 DEF TypeOK
  <2>  QED  BY <1>1, <2>1 DEF TypeOK
<1>3. SingletonRoles' /\ ApplicationsStand'  BY <1>1, PropertiesUnchanged
<1>4. ASSUME NEW v \in Workers  PROVE ReadInv(v)'
  <2>1. CASE v = w  BY <1>1, <2>1, NothingRead DEF TypeOK
  <2>2. CASE v # w
    <3>1. req'[v] = req[v]  BY <1>1, <2>2 DEF TypeOK
    <3>2. SameRoles  BY <1>1 DEF SameRoles, Defined
    <3>  QED  BY <1>1, <3>1, <3>2, ReadKept DEF Live
  <2>  QED  BY <2>1, <2>2
<1>  QED  BY <1>2, <1>3, <1>4

\* The default stages have different roles, and every request began before them.
LEMMA SeedPreserves ==
    ASSUME IInv, ensureSeeded
    PROVE  IInv'
<1>  USE DEF IInv
<1>1. /\ \A k \in Keys : ~Defined(k)
      /\ stage' = Defaults /\ rivals' = {} /\ unstamped' = Apps
      /\ UNCHANGED <<app, unchecked>>
      /\ req' = [v \in Workers |->
                   IF req[v] # NoRequest THEN [req[v] EXCEPT !.fresh = FALSE] ELSE req[v]]
  BY DEF ensureSeeded
<1>2. ASSUME NEW v \in Workers
      PROVE  /\ req'[v] \in Request \cup {NoRequest}
             /\ req'[v] = NoRequest \/ req'[v].fresh = FALSE
  <2>1. CASE req[v] = NoRequest  BY <1>1, <2>1
  <2>2. CASE req[v] # NoRequest
    <3>1. req[v] \in Request  BY <2>2, RequestFields
    <3>  QED  BY <1>1, <2>2, <3>1, StaleRequest
  <2>  QED  BY <2>1, <2>2
<1>3. TypeOK'
  <2>1. req' \in [Workers -> Request \cup {NoRequest}]  BY <1>1, <1>2
  <2>2. stage' \in [Keys -> StageDef \cup {NoStage}]  BY <1>1, PipelineAssumption
  <2>  QED  BY <1>1, <2>1, <2>2 DEF TypeOK
<1>4. SingletonRoles'
  BY <1>1, PipelineAssumption DEF SingletonRoles, Defined
<1>5. ApplicationsStand'
  <2>1. StageExists'  BY <1>1 DEF ApplicationsStand, StageExists, Live
  <2>2. RoleEffects'  BY <1>1 DEF RoleEffects
  <2>  QED  BY <2>1, <2>2 DEF ApplicationsStand
<1>6. \A v \in Workers : ReadInv(v)'  BY <1>2, NothingRead
<1>  QED  BY <1>3, <1>4, <1>5, <1>6

\* Switching a stage on or off changes no role.
LEMMA SetActivePreserves ==
    ASSUME IInv, NEW k \in Keys, SetActive(k)
    PROVE  IInv'
<1>  USE DEF IInv
<1>1. /\ stage[k] \in StageDef
      /\ stage' = [stage EXCEPT ![k].active = ~@]
      /\ UNCHANGED <<app, req, rivals, unchecked, unstamped>>
  BY DEF SetActive, history, TypeOK, Defined
<1>2. /\ stage'[k] \in StageDef /\ stage'[k].role = stage[k].role
      /\ \A j \in Keys \ {k} : stage'[j] = stage[j]
  <2>1. stage'[k] = [stage[k] EXCEPT !.active = ~@]  BY <1>1 DEF TypeOK
  <2>2. \A j \in Keys \ {k} : stage'[j] = stage[j]  BY <1>1 DEF TypeOK
  <2>3. stage'[k] \in StageDef /\ stage'[k].role = stage[k].role
    BY <1>1, <2>1 DEF StageDef
  <2>  QED  BY <2>2, <2>3
<1>3. SameRoles
  BY <1>1, <1>2, PipelineAssumption DEF SameRoles, Defined
<1>4. TypeOK'
  <2>1. stage' \in [Keys -> StageDef \cup {NoStage}]  BY <1>1, <1>2 DEF TypeOK
  <2>  QED  BY <1>1, <2>1 DEF TypeOK
<1>5. SingletonRoles'  BY <1>1, <1>3 DEF SingletonRoles, SameRoles
<1>6. ApplicationsStand'
  BY <1>1, <1>3 DEF ApplicationsStand, StageExists, RoleEffects, SameRoles, Live
<1>7. ASSUME NEW v \in Workers  PROVE ReadInv(v)'
  BY <1>1, <1>3, ReadKept DEF Live
<1>  QED  BY <1>4, <1>5, <1>6, <1>7

\* A stage gets the role that was free, and its applications do not carry its marks yet.
LEMMA CommitStagePreserves ==
    ASSUME IInv, NEW w \in Workers, CommitStage(w)
    PROVE  IInv'
<1>  USE DEF IInv
<1>1. PICK r \in Request :
         /\ r = req[w] /\ r # NoRequest
         /\ r.op \in {"createStage", "updateStage"} /\ r.key \in Keys /\ r.role \in NewRoles
         /\ r.fresh \in BOOLEAN
  BY RequestFields DEF CommitStage, Pending
<1>2. PICK newRole \in BOOLEAN : newRole <=> r.op = "createStage" \/ stage[r.key].role # r.role
  OBVIOUS
<1>3. /\ Defined(r.key) <=> r.op = "updateStage"
      /\ stage' = [stage EXCEPT ![r.key] =
                     IF r.op = "createStage" THEN [role |-> r.role, active |-> TRUE]
                     ELSE [@ EXCEPT !.role = r.role]]
      /\ req' = StageWritten(w)
      /\ rivals' = IF ~r.fresh THEN rivals \cup {r.key}
                   ELSE IF newRole THEN rivals \ {r.key} ELSE rivals
      /\ unstamped' = IF newRole THEN unstamped \cup In(r.key) ELSE unstamped
      /\ UNCHANGED <<app, unchecked>>
  BY <1>1, <1>2 DEF CommitStage
<1>4. /\ stage'[r.key] \in StageDef /\ stage'[r.key].role = r.role
      /\ \A j \in Keys \ {r.key} : stage'[j] = stage[j]
  <2>1. r.role \in Roles  BY <1>1, PipelineAssumption
  <2>2. CASE r.op = "createStage"
    <3>1. stage'[r.key] = [role |-> r.role, active |-> TRUE]  BY <1>1, <1>3, <2>2 DEF TypeOK
    <3>2. stage'[r.key] \in StageDef /\ stage'[r.key].role = r.role
      BY <2>1, <3>1 DEF StageDef
    <3>3. \A j \in Keys \ {r.key} : stage'[j] = stage[j]  BY <1>3 DEF TypeOK
    <3>  QED  BY <3>2, <3>3
  <2>3. CASE r.op = "updateStage"
    <3>1. stage[r.key] \in StageDef  BY <1>1, <1>3, <2>3 DEF TypeOK, Defined
    <3>2. stage'[r.key] = [stage[r.key] EXCEPT !.role = r.role]
      BY <1>1, <1>3, <2>3 DEF TypeOK
    <3>  QED  BY <1>1, <1>3, <2>1, <3>1, <3>2 DEF StageDef, TypeOK
  <2>  QED  BY <1>1, <2>2, <2>3
<1>5. /\ Defined(r.key)' /\ \A j \in Keys \ {r.key} : Defined(j)' <=> Defined(j)
  BY <1>4, PipelineAssumption DEF Defined
<1>6. r.fresh /\ newRole /\ r.role \in SINGLETON_ROLES =>
         \A j \in Keys \ {r.key} : Defined(j) => stage[j].role # r.role
  <2>1. r.fresh => Holds(r)  BY <1>1 DEF ReadInv
  <2>2. NoKey \notin Keys  BY PipelineAssumption
  <2>  QED  BY <1>1, <1>2, <1>3, <2>1, <2>2 DEF Holds, assertSingleton
<1>7. /\ req' \in [Workers -> Request \cup {NoRequest}]
      /\ \A v \in Workers : ReadInv(v)'
  BY <1>3, ReadAfterStage
<1>8. TypeOK'
  <2>1. stage' \in [Keys -> StageDef \cup {NoStage}]  BY <1>3, <1>4 DEF TypeOK
  <2>2. rivals' \subseteq Keys  BY <1>1, <1>3 DEF TypeOK
  <2>3. unstamped' \subseteq Apps  BY <1>3 DEF TypeOK, In
  <2>  QED  BY <1>3, <1>7, <2>1, <2>2, <2>3 DEF TypeOK
<1>9. SingletonRoles'
  <2>1. ASSUME NEW j \in Keys, j # r.key, Defined(j),
               stage[j].role = r.role, r.role \in SINGLETON_ROLES
        PROVE  {j, r.key} \cap rivals' # {}
    <3>1. CASE ~r.fresh  BY <1>3, <3>1
    <3>2. CASE r.fresh /\ newRole  BY <1>6, <2>1, <3>2
    <3>3. CASE r.fresh /\ ~newRole
      <4>1. Defined(r.key) /\ stage[r.key].role = r.role  BY <1>1, <1>2, <1>3, <3>3
      <4>2. {j, r.key} \cap rivals # {}  BY <1>1, <2>1, <4>1 DEF SingletonRoles
      <4>  QED  BY <1>3, <3>3, <4>2
    <3>  QED  BY <1>1, <3>1, <3>2, <3>3
  <2>2. SUFFICES ASSUME NEW j \in Keys, NEW k \in Keys, j # k, Defined(j)', Defined(k)',
                        stage'[j].role = stage'[k].role, stage'[k].role \in SINGLETON_ROLES
                 PROVE  {j, k} \cap rivals' # {}
    BY DEF SingletonRoles
  <2>3. CASE k = r.key  BY <1>4, <1>5, <2>1, <2>2, <2>3
  <2>4. CASE j = r.key
    <3>1. {k, r.key} \cap rivals' # {}  BY <1>4, <1>5, <2>1, <2>2, <2>4
    <3>  QED  BY <2>4, <3>1
  <2>5. CASE j # r.key /\ k # r.key
    <3>1. {j, k} \cap rivals # {}  BY <1>4, <1>5, <2>2, <2>5 DEF SingletonRoles
    <3>  QED  BY <1>3, <2>5, <3>1
  <2>  QED  BY <2>3, <2>4, <2>5
<1>10. StageExists'
  BY <1>3, <1>5 DEF ApplicationsStand, StageExists, Live
<1>11. RoleEffects'
  <2>1. SUFFICES ASSUME NEW a \in Apps, a \notin unstamped', Live(a), app[a].stage \in Keys,
                        Defined(app[a].stage)'
                 PROVE  /\ stage'[app[a].stage].role = "enrolled" => app[a].enrolled
                        /\ stage'[app[a].stage].role \in {"accepted", "rejected"} => app[a].decided
    BY <1>3 DEF RoleEffects, Live
  <2>2. a \notin unstamped  BY <1>3, <2>1
  <2>3. CASE app[a].stage # r.key
    <3>1. Defined(app[a].stage) /\ stage'[app[a].stage] = stage[app[a].stage]
      BY <1>3, <1>4, <1>5, <2>1, <2>3 DEF Defined
    <3>  QED  BY <2>1, <2>2, <3>1 DEF ApplicationsStand, RoleEffects
  <2>4. CASE app[a].stage = r.key
    <3>1. ~newRole  BY <1>3, <2>1, <2>4 DEF In
    <3>2. Defined(r.key) /\ stage[r.key].role = stage'[r.key].role
      BY <1>1, <1>2, <1>3, <1>4, <3>1
    <3>  QED  BY <2>1, <2>2, <2>4, <3>2 DEF ApplicationsStand, RoleEffects
  <2>  QED  BY <2>3, <2>4
<1>  QED  BY <1>7, <1>8, <1>9, <1>10, <1>11 DEF ApplicationsStand

\* A stage that a fresh request removes is empty.
LEMMA RemoveStagePreserves ==
    ASSUME IInv, NEW w \in Workers, CommitRemoveStage(w)
    PROVE  IInv'
<1>  USE DEF IInv
<1>1. PICK r \in Request :
         r = req[w] /\ r # NoRequest /\ r.op = "removeStage" /\ r.key \in Keys
  BY RequestFields DEF CommitRemoveStage, Pending
<1>2. /\ stage' = [stage EXCEPT ![r.key] = NoStage]
      /\ req' = StageWritten(w)
      /\ rivals' = rivals \ {r.key}
      /\ unchecked' = IF r.fresh THEN unchecked ELSE unchecked \cup In(r.key)
      /\ UNCHANGED <<app, unstamped>>
  BY <1>1 DEF CommitRemoveStage
<1>3. r.fresh => In(r.key) = {}  BY <1>1 DEF ReadInv, Holds
<1>4. ~Defined(r.key)' /\ \A j \in Keys \ {r.key} : stage'[j] = stage[j]
  BY <1>1, <1>2 DEF TypeOK, Defined
<1>5. /\ req' \in [Workers -> Request \cup {NoRequest}]
      /\ \A v \in Workers : ReadInv(v)'
  BY <1>2, ReadAfterStage
<1>6. TypeOK'
  <2>1. stage' \in [Keys -> StageDef \cup {NoStage}]  BY <1>2 DEF TypeOK
  <2>2. unchecked' \subseteq Apps  BY <1>2 DEF TypeOK, In
  <2>  QED  BY <1>2, <1>5, <2>1, <2>2 DEF TypeOK
<1>7. SingletonRoles'  BY <1>2, <1>4 DEF SingletonRoles, Defined
<1>8. StageExists'
  <2>1. SUFFICES ASSUME NEW a \in Apps, a \notin unchecked', Live(a)
                 PROVE  app[a].stage \in Keys /\ Defined(app[a].stage)'
    BY <1>2 DEF StageExists, Live
  <2>2. app[a].stage \in Keys /\ Defined(app[a].stage)
    BY <1>2, <2>1 DEF ApplicationsStand, StageExists
  <2>3. app[a].stage # r.key  BY <1>2, <1>3, <2>1 DEF In
  <2>4. stage'[app[a].stage] = stage[app[a].stage]  BY <1>4, <2>2, <2>3
  <2>  QED  BY <1>2, <2>2, <2>4 DEF Defined
<1>9. RoleEffects'
  BY <1>2, <1>4 DEF ApplicationsStand, RoleEffects, Live, Defined
<1>  QED  BY <1>5, <1>6, <1>7, <1>8, <1>9 DEF ApplicationsStand

\* After a write to applications, each one that changed is excused, stands where a fresh
\* request said, or is gone.
LEMMA AppsPreserve ==
    ASSUME IInv, NEW w, req' = AppWritten(w), UNCHANGED <<stage, rivals>>,
           app' \in [Apps -> Application], unchecked' \subseteq Apps, unstamped' \subseteq Apps,
           \A a \in Apps \ unchecked' : Live(a)' =>
              \/ a \notin unchecked /\ Live(a) /\ app'[a].stage = app[a].stage
              \/ app'[a].stage \in Keys /\ Defined(app'[a].stage),
           \A a \in Apps \ unstamped' : Live(a)' =>
              \/ a \notin unstamped /\ app'[a] = app[a]
              \/ /\ stage[app'[a].stage].role = "enrolled" => app'[a].enrolled
                 /\ stage[app'[a].stage].role \in {"accepted", "rejected"} => app'[a].decided
    PROVE  IInv'
<1>  USE DEF IInv
<1>1. /\ req' \in [Workers -> Request \cup {NoRequest}]
      /\ \A v \in Workers : ReadInv(v)'
  BY ReadAfterApp
<1>2. TypeOK'  BY <1>1 DEF TypeOK
<1>3. SingletonRoles'  BY DEF SingletonRoles, Defined
<1>4. StageExists'  BY DEF ApplicationsStand, StageExists, Defined
<1>5. RoleEffects'  BY DEF ApplicationsStand, RoleEffects, Defined, Live
<1>  QED  BY <1>1, <1>2, <1>3, <1>4, <1>5 DEF ApplicationsStand

\* An application that is placed without a check is excused.
LEMMA PlacePreserves ==
    ASSUME IInv, NEW a \in Apps, NEW k \in Keys, PlaceApplication(a, k)
    PROVE  IInv'
<1>  USE DEF IInv
<1>1. /\ app' = [app EXCEPT ![a].status = "live", ![a].stage = k]
      /\ req' = AppWritten(NoRequest) /\ UNCHANGED <<stage, rivals>>
      /\ unchecked' = unchecked \cup {a} /\ unstamped' = unstamped \cup {a}
  BY DEF PlaceApplication
<1>2. /\ app'[a] = [app[a] EXCEPT !.status = "live", !.stage = k]
      /\ \A b \in Apps \ {a} : app'[b] = app[b]
  BY <1>1 DEF TypeOK
<1>3. app'[a] \in Application
  <2>1. app[a] \in Application  BY DEF TypeOK
  <2>  QED  BY <1>2, <2>1 DEF Application
<1>4. app' \in [Apps -> Application]  BY <1>1, <1>2, <1>3 DEF TypeOK
<1>5. unchecked' \subseteq Apps /\ unstamped' \subseteq Apps  BY <1>1 DEF TypeOK
<1>6. \A b \in Apps : b # a => app'[b] = app[b] /\ (Live(b)' <=> Live(b))
  BY <1>2 DEF Live
<1>  QED  BY <1>1, <1>4, <1>5, <1>6, AppsPreserve

\* A new application lands in a stage that exists, if its request is fresh.
LEMMA SubmitPreserves ==
    ASSUME IInv, NEW w \in Workers, CommitSubmit(w)
    PROVE  IInv'
<1>  USE DEF IInv
<1>1. PICK r \in Request :
         /\ r = req[w] /\ r # NoRequest /\ r.op = "create" /\ r.app \in Apps /\ r.key \in Keys
         /\ r.fresh \in BOOLEAN
  BY RequestFields DEF CommitSubmit, Pending
<1>2. /\ app' = [app EXCEPT ![r.app].status = "live", ![r.app].stage = r.key]
      /\ req' = AppWritten(w) /\ UNCHANGED <<stage, rivals>>
      /\ unchecked' = IF r.fresh THEN unchecked ELSE unchecked \cup {r.app}
      /\ unstamped' = unstamped \cup {r.app}
  BY <1>1 DEF CommitSubmit
<1>3. r.fresh => Defined(r.key)  BY <1>1 DEF ReadInv, Holds
<1>4. /\ app'[r.app] = [app[r.app] EXCEPT !.status = "live", !.stage = r.key]
      /\ \A b \in Apps \ {r.app} : app'[b] = app[b]
  BY <1>1, <1>2 DEF TypeOK
<1>5. app'[r.app] \in Application /\ app'[r.app].stage = r.key
  <2>1. app[r.app] \in Application  BY <1>1 DEF TypeOK
  <2>  QED  BY <1>1, <1>4, <2>1 DEF Application
<1>6. app' \in [Apps -> Application]  BY <1>2, <1>4, <1>5 DEF TypeOK
<1>7. unchecked' \subseteq Apps /\ unstamped' \subseteq Apps  BY <1>1, <1>2 DEF TypeOK
<1>8. \A b \in Apps : b # r.app => app'[b] = app[b] /\ (Live(b)' <=> Live(b))
  BY <1>4 DEF Live
<1>9. \A b \in Apps \ unchecked' : Live(b)' =>
         \/ b \notin unchecked /\ Live(b) /\ app'[b].stage = app[b].stage
         \/ app'[b].stage \in Keys /\ Defined(app'[b].stage)
  BY <1>1, <1>2, <1>3, <1>5, <1>8
<1>10. \A b \in Apps \ unstamped' : b \notin unstamped /\ app'[b] = app[b]
  BY <1>2, <1>8
<1>  QED  BY <1>2, <1>6, <1>7, <1>9, <1>10, AppsPreserve

\* A transition leaves its applications in the stage, with the marks of its role.
LEMMA MovePreserves ==
    ASSUME IInv, NEW w \in Workers, CommitMove(w)
    PROVE  IInv'
<1>  USE DEF IInv
<1>1. PICK r \in Request :
         /\ r = req[w] /\ r # NoRequest /\ r.op \in {"setStage", "bulk"}
         /\ r.key \in Keys /\ r.fresh \in BOOLEAN
  BY RequestFields DEF CommitMove, Pending
<1>2. PICK targets \in SUBSET Apps :
         /\ \A a \in targets : Live(a)
         /\ app' = [a \in Apps |->
                      IF a \in targets THEN stageData(app[a], r.key, r.role) ELSE app[a]]
         /\ req' = AppWritten(w) /\ UNCHANGED <<stage, rivals>>
         /\ unchecked' = IF r.fresh THEN unchecked \ targets ELSE unchecked \cup targets
         /\ unstamped' = IF r.fresh THEN unstamped \ targets ELSE unstamped \cup targets
  <2>  DEFINE ts == IF r.op = "setStage" THEN {r.app} \cap {a \in Apps : Live(a)} ELSE In(r.from)
  <2>1. ts \subseteq Apps /\ \A a \in ts : Live(a)  BY DEF In
  <2>2. /\ app' = [a \in Apps |->
                     IF a \in ts THEN stageData(app[a], r.key, r.role) ELSE app[a]]
        /\ req' = AppWritten(w) /\ UNCHANGED <<stage, rivals>>
        /\ unchecked' = IF r.fresh THEN unchecked \ ts ELSE unchecked \cup ts
        /\ unstamped' = IF r.fresh THEN unstamped \ ts ELSE unstamped \cup ts
    BY <1>1 DEF CommitMove
  <2>  HIDE DEF ts
  <2>  QED  BY <2>1, <2>2
<1>3. r.fresh => Defined(r.key) /\ stage[r.key].role = r.role  BY <1>1 DEF ReadInv, Holds
<1>4. \A a \in Apps \ targets : app'[a] = app[a]  BY <1>2
<1>5. ASSUME NEW a \in targets
      PROVE  /\ app'[a] \in Application /\ app'[a].stage = r.key
             /\ r.role = "enrolled" => app'[a].enrolled
             /\ r.role \in {"accepted", "rejected"} => app'[a].decided
  <2>1. app'[a] = stageData(app[a], r.key, r.role)  BY <1>2
  <2>2. app[a] \in Application  BY DEF TypeOK
  <2>  QED  BY <1>1, <2>1, <2>2 DEF stageData, Application
<1>6. app' \in [Apps -> Application]
  <2>1. \A a \in Apps : app'[a] \in Application  BY <1>4, <1>5 DEF TypeOK
  <2>2. app' = [a \in Apps |-> app'[a]]  BY <1>2
  <2>  QED  BY <2>1, <2>2
<1>7. unchecked' \subseteq Apps /\ unstamped' \subseteq Apps  BY <1>2 DEF TypeOK
<1>8. \A b \in Apps \ unchecked' : Live(b)' =>
         \/ b \notin unchecked /\ Live(b) /\ app'[b].stage = app[b].stage
         \/ app'[b].stage \in Keys /\ Defined(app'[b].stage)
  <2>1. ASSUME NEW b \in Apps, b \notin unchecked', Live(b)', b \in targets
        PROVE  app'[b].stage \in Keys /\ Defined(app'[b].stage)
    BY <1>1, <1>2, <1>3, <1>5, <2>1
  <2>2. ASSUME NEW b \in Apps, b \notin unchecked', Live(b)', b \notin targets
        PROVE  b \notin unchecked /\ Live(b) /\ app'[b].stage = app[b].stage
    BY <1>1, <1>2, <1>4, <2>2 DEF Live
  <2>  QED  BY <2>1, <2>2
<1>9. \A b \in Apps \ unstamped' : Live(b)' =>
         \/ b \notin unstamped /\ app'[b] = app[b]
         \/ /\ stage[app'[b].stage].role = "enrolled" => app'[b].enrolled
            /\ stage[app'[b].stage].role \in {"accepted", "rejected"} => app'[b].decided
  <2>1. ASSUME NEW b \in Apps, b \notin unstamped', b \in targets
        PROVE  /\ stage[app'[b].stage].role = "enrolled" => app'[b].enrolled
               /\ stage[app'[b].stage].role \in {"accepted", "rejected"} => app'[b].decided
    BY <1>1, <1>2, <1>3, <1>5, <2>1
  <2>2. ASSUME NEW b \in Apps, b \notin unstamped', b \notin targets
        PROVE  b \notin unstamped /\ app'[b] = app[b]
    BY <1>1, <1>2, <1>4, <2>2
  <2>  QED  BY <2>1, <2>2
<1>  QED  BY <1>2, <1>6, <1>7, <1>8, <1>9, AppsPreserve

\* A parent's choice moves the application, if at all, to a stage that exists.
LEMMA PackagePreserves ==
    ASSUME IInv, NEW w \in Workers, CommitPackage(w)
    PROVE  IInv'
<1>  USE DEF IInv
<1>1. PICK r \in Request :
         /\ r = req[w] /\ r # NoRequest /\ r.op = "package" /\ r.app \in Apps
         /\ r.key \in Keys \cup {NoKey} /\ r.fresh \in BOOLEAN
  BY RequestFields DEF CommitPackage, Pending
<1>2. UNCHANGED <<stage, rivals>>  BY DEF CommitPackage
<1>3. CASE r.key = NoKey \/ ~Live(r.app)
  <2>  DEFINE ops == {}
  <2>1. req' = Outdated(w, ops) /\ UNCHANGED <<app, unchecked, unstamped>>
    BY <1>1, <1>3 DEF CommitPackage
  <2>2. \A v \in Workers : v # w => req'[v] = req[v]
    BY <2>1 DEF Outdated, Pending
  <2>  HIDE DEF ops
  <2>3. req' \in [Workers -> Request \cup {NoRequest}] /\ req'[w] = NoRequest
    BY <2>1, OutdatedRequests
  <2>4. TypeOK'  BY <1>2, <2>1, <2>3 DEF TypeOK
  <2>5. SingletonRoles' /\ ApplicationsStand'  BY <1>2, <2>1, PropertiesUnchanged
  <2>6. ASSUME NEW v \in Workers  PROVE ReadInv(v)'
    <3>1. CASE v = w  BY <2>3, <3>1, NothingRead
    <3>2. CASE v # w
      <4>1. SameRoles  BY <1>2 DEF SameRoles, Defined
      <4>  QED  BY <2>1, <2>2, <3>2, <4>1, ReadKept DEF Live
    <3>  QED  BY <3>1, <3>2
  <2>  QED  BY <2>4, <2>5, <2>6
<1>4. CASE ~(r.key = NoKey \/ ~Live(r.app))
  <2>1. /\ app' = [app EXCEPT ![r.app].stage = r.key]
        /\ req' = AppWritten(w)
        /\ unchecked' = IF r.fresh THEN unchecked \ {r.app} ELSE unchecked \cup {r.app}
        /\ unstamped' = unstamped \cup {r.app}
    BY <1>1, <1>4 DEF CommitPackage
  <2>2. r.key \in Keys /\ (r.fresh => Defined(r.key))  BY <1>1, <1>4 DEF ReadInv, Holds
  <2>3. /\ app'[r.app] = [app[r.app] EXCEPT !.stage = r.key]
        /\ \A b \in Apps \ {r.app} : app'[b] = app[b]
    BY <1>1, <2>1 DEF TypeOK
  <2>4. app'[r.app] \in Application /\ app'[r.app].stage = r.key
    <3>1. app[r.app] \in Application  BY <1>1 DEF TypeOK
    <3>  QED  BY <2>2, <2>3, <3>1 DEF Application
  <2>5. app' \in [Apps -> Application]  BY <2>1, <2>3, <2>4 DEF TypeOK
  <2>6. unchecked' \subseteq Apps /\ unstamped' \subseteq Apps  BY <1>1, <2>1 DEF TypeOK
  <2>7. \A b \in Apps : b # r.app => app'[b] = app[b] /\ (Live(b)' <=> Live(b))
    BY <2>3 DEF Live
  <2>8. \A b \in Apps \ unchecked' : Live(b)' =>
           \/ b \notin unchecked /\ Live(b) /\ app'[b].stage = app[b].stage
           \/ app'[b].stage \in Keys /\ Defined(app'[b].stage)
    BY <1>1, <2>1, <2>2, <2>4, <2>7
  <2>9. \A b \in Apps \ unstamped' : b \notin unstamped /\ app'[b] = app[b]
    BY <2>1, <2>7
  <2>  QED  BY <1>2, <2>1, <2>5, <2>6, <2>8, <2>9, AppsPreserve
<1>  QED  BY <1>3, <1>4

\* An application that is deleted stands nowhere.
LEMMA RemovePreserves ==
    ASSUME IInv, NEW a \in Apps, remove(a)
    PROVE  IInv'
<1>  USE DEF IInv
<1>1. /\ app' = [app EXCEPT ![a] = [NoApplication EXCEPT !.status = "deleted"]]
      /\ unchecked' = unchecked \ {a} /\ unstamped' = unstamped \ {a}
      /\ UNCHANGED <<stage, req, rivals>>
  BY DEF remove
<1>2. [NoApplication EXCEPT !.status = "deleted"] \in Application
  BY DEF NoApplication, Application
<1>3. /\ ~Live(a)' /\ \A b \in Apps \ {a} : app'[b] = app[b] /\ (Live(b)' <=> Live(b))
  BY <1>1, <1>2 DEF TypeOK, Live, NoApplication
<1>4. TypeOK'
  <2>1. app' \in [Apps -> Application]  BY <1>1, <1>2 DEF TypeOK
  <2>  QED  BY <1>1, <2>1 DEF TypeOK
<1>5. SingletonRoles'  BY <1>1 DEF SingletonRoles, Defined
<1>6. StageExists'
  BY <1>1, <1>3 DEF ApplicationsStand, StageExists, Defined
<1>7. RoleEffects'
  BY <1>1, <1>3 DEF ApplicationsStand, RoleEffects, Defined
<1>8. ASSUME NEW v \in Workers  PROVE ReadInv(v)'
  <2>1. SameRoles  BY <1>1 DEF SameRoles, Defined
  <2>2. \A b \in Apps : Live(b)' => Live(b) /\ app'[b].stage = app[b].stage
    BY <1>3
  <2>  QED  BY <1>1, <2>1, <2>2, ReadKept
<1>  QED  BY <1>4, <1>5, <1>6, <1>7, <1>8 DEF ApplicationsStand

-----------------------------------------------------------------------------
(* Invariants *)

LEMMA InitInductive == Init => IInv
<1>  SUFFICES ASSUME Init  PROVE IInv
  OBVIOUS
<1>1. TypeOK  BY DEF Init, TypeOK, NoApplication, Application
<1>2. SingletonRoles  BY DEF Init, SingletonRoles, Defined
<1>3. ApplicationsStand
  BY DEF Init, ApplicationsStand, StageExists, RoleEffects, Live, NoApplication
<1>4. \A w \in Workers : ReadInv(w)  BY DEF Init, ReadInv
<1>  QED  BY <1>1, <1>2, <1>3, <1>4 DEF IInv

LEMMA NextInductive == IInv /\ [Next]_vars => IInv'
<1>  SUFFICES ASSUME IInv, [Next]_vars  PROVE IInv'
  OBVIOUS
<1>1. CASE ensureSeeded  BY <1>1, SeedPreserves
<1>2. ASSUME NEW k \in Keys, SetActive(k)  PROVE IInv'
  BY <1>2, SetActivePreserves
<1>3. ASSUME NEW a \in Apps, remove(a)  PROVE IInv'
  BY <1>3, RemovePreserves
<1>4. ASSUME NEW a \in Apps, NEW k \in Keys, PlaceApplication(a, k)  PROVE IInv'
  BY <1>4, PlacePreserves
<1>5. ASSUME NEW w \in Workers, NEW k \in Keys, NEW role \in NewRoles, BeginCreateStage(w, k, role)
      PROVE  IInv'
  <2>  DEFINE q == [op |-> "createStage", key |-> k, role |-> role, fresh |-> TRUE]
  <2>1. q \in Request  BY DEF Request
  <2>2. Holds(q)  BY <1>5 DEF BeginCreateStage, Holds
  <2>3. Begin(w, q)  BY <1>5 DEF BeginCreateStage
  <2>  HIDE DEF q
  <2>  QED  BY <2>1, <2>2, <2>3, BeginPreserves
<1>6. ASSUME NEW w \in Workers, NEW k \in Keys, NEW role \in NewRoles, BeginUpdateStage(w, k, role)
      PROVE  IInv'
  <2>  DEFINE q == [op |-> "updateStage", key |-> k, role |-> role, fresh |-> TRUE]
  <2>1. q \in Request  BY DEF Request
  <2>2. Holds(q)  BY <1>6 DEF BeginUpdateStage, Holds
  <2>3. Begin(w, q)  BY <1>6 DEF BeginUpdateStage
  <2>  HIDE DEF q
  <2>  QED  BY <2>1, <2>2, <2>3, BeginPreserves
<1>7. ASSUME NEW w \in Workers, NEW k \in Keys, BeginRemoveStage(w, k)  PROVE IInv'
  <2>  DEFINE q == [op |-> "removeStage", key |-> k, fresh |-> TRUE]
  <2>1. q \in Request  BY DEF Request
  <2>2. Holds(q)  BY <1>7 DEF BeginRemoveStage, Removable, Holds
  <2>3. Begin(w, q)  BY <1>7 DEF BeginRemoveStage
  <2>  HIDE DEF q
  <2>  QED  BY <2>1, <2>2, <2>3, BeginPreserves
<1>8. ASSUME NEW w \in Workers, NEW a \in Apps, NEW k \in Keys, BeginSubmit(w, a, k)
      PROVE  IInv'
  <2>  DEFINE q == [op |-> "create", app |-> a, key |-> k, fresh |-> TRUE]
  <2>1. q \in Request  BY DEF Request
  <2>2. Holds(q)  BY <1>8 DEF BeginSubmit, LandingKeys, keyByRole, Holds
  <2>3. Begin(w, q)  BY <1>8 DEF BeginSubmit
  <2>  HIDE DEF q
  <2>  QED  BY <2>1, <2>2, <2>3, BeginPreserves
<1>9. ASSUME NEW w \in Workers, NEW a \in Apps, NEW k \in Keys, BeginSetStage(w, a, k)
      PROVE  IInv'
  <2>  DEFINE q == [op |-> "setStage", app |-> a, key |-> k, role |-> stage[k].role,
                    fresh |-> TRUE]
  <2>1. stage[k].role \in Roles
    BY <1>9 DEF BeginSetStage, Defined, IInv, TypeOK, StageDef
  <2>2. q \in Request  BY <2>1 DEF Request
  <2>3. Holds(q)  BY <1>9 DEF BeginSetStage, Holds
  <2>4. Begin(w, q)  BY <1>9 DEF BeginSetStage
  <2>  HIDE DEF q
  <2>  QED  BY <2>2, <2>3, <2>4, BeginPreserves
<1>10. ASSUME NEW w \in Workers, NEW from \in Keys, NEW k \in Keys, BeginBulk(w, from, k)
       PROVE  IInv'
  <2>  DEFINE q == [op |-> "bulk", from |-> from, key |-> k, role |-> stage[k].role,
                    fresh |-> TRUE]
  <2>1. stage[k].role \in Roles
    BY <1>10 DEF BeginBulk, Defined, IInv, TypeOK, StageDef
  <2>2. q \in Request  BY <2>1 DEF Request
  <2>3. Holds(q)  BY <1>10 DEF BeginBulk, Holds
  <2>4. Begin(w, q)  BY <1>10 DEF BeginBulk
  <2>  HIDE DEF q
  <2>  QED  BY <2>2, <2>3, <2>4, BeginPreserves
<1>11. ASSUME NEW w \in Workers, NEW a \in Apps, NEW k \in Keys \cup {NoKey},
              BeginPackage(w, a, k)
       PROVE  IInv'
  <2>  DEFINE q == [op |-> "package", app |-> a, key |-> k, fresh |-> TRUE]
  <2>1. q \in Request  BY DEF Request
  <2>2. k # NoKey =>
           /\ Defined(k) /\ stage[k].role = "accepted"
           /\ app[a].stage \in Keys /\ Defined(app[a].stage)
           /\ stage[app[a].stage].role = "offer"
    BY <1>11 DEF BeginPackage, OpenOffer, keyByRole
  <2>3. Holds(q)  BY <2>2 DEF Holds
  <2>4. Begin(w, q)  BY <1>11 DEF BeginPackage
  <2>  HIDE DEF q
  <2>  QED  BY <2>1, <2>3, <2>4, BeginPreserves
<1>12. ASSUME NEW w \in Workers, CommitStage(w)  PROVE IInv'
  BY <1>12, CommitStagePreserves
<1>13. ASSUME NEW w \in Workers, CommitRemoveStage(w)  PROVE IInv'
  BY <1>13, RemoveStagePreserves
<1>14. ASSUME NEW w \in Workers, CommitSubmit(w)  PROVE IInv'
  BY <1>14, SubmitPreserves
<1>15. ASSUME NEW w \in Workers, CommitMove(w)  PROVE IInv'
  BY <1>15, MovePreserves
<1>16. ASSUME NEW w \in Workers, CommitPackage(w)  PROVE IInv'
  BY <1>16, PackagePreserves
<1>17. ASSUME NEW w \in Workers, Abandon(w)  PROVE IInv'
  BY <1>17, AbandonPreserves
<1>18. CASE UNCHANGED vars
  <2>1. TypeOK'  BY <1>18 DEF vars, IInv, TypeOK
  <2>2. SingletonRoles' /\ ApplicationsStand'
    BY <1>18, PropertiesUnchanged DEF vars, IInv
  <2>3. SameRoles  BY <1>18 DEF vars, SameRoles, Defined
  <2>4. \A w \in Workers : ReadInv(w)'
    BY <1>18, <2>3, ReadKept DEF vars, IInv, Live
  <2>  QED  BY <2>1, <2>2, <2>4 DEF IInv
<1>  QED
  BY <1>1, <1>2, <1>3, <1>4, <1>5, <1>6, <1>7, <1>8, <1>9, <1>10, <1>11, <1>12, <1>13, <1>14,
     <1>15, <1>16, <1>17, <1>18 DEF Next

\* Every request in flight may rely on what it checked, as long as it is fresh.
THEOREM AdmissionInductive == Spec => []IInv
BY InitInductive, NextInductive, PTL DEF Spec

\* Stages, applications and requests keep their types, for any number of each.
THEOREM AdmissionTypeCorrect == Spec => []TypeOK
<1>1. IInv => TypeOK  BY DEF IInv
<1>  QED  BY <1>1, AdmissionInductive, PTL

\* A role that drives automation belongs to one stage, unless a change of the pipeline
\* overtook the check for another.
THEOREM RolesStaySingle == Spec => []SingletonRoles
<1>1. IInv => SingletonRoles  BY DEF IInv
<1>  QED  BY <1>1, AdmissionInductive, PTL

\* Applications stand in stages that exist and carry their marks, however stages and
\* applications are changed at once.
THEOREM ApplicationsKeepStanding == Spec => []ApplicationsStand
<1>1. IInv => ApplicationsStand  BY DEF IInv
<1>  QED  BY <1>1, AdmissionInductive, PTL

-----------------------------------------------------------------------------
(* Steps *)

\* A stage goes only by a request to remove it, and a fresh one does not name the entry stage.
LEMMA EntryStep ==
    ASSUME IInv, [Next]_vars, NEW k \in Keys, Defined(k), stage[k].role = "entry",
           stage'[k] = NoStage
    PROVE  \E w \in Pending({"removeStage"}) : req[w].key = k /\ ~req[w].fresh
<1>1. ASSUME NEW w \in Workers, CommitRemoveStage(w)
      PROVE  \E v \in Pending({"removeStage"}) : req[v].key = k /\ ~req[v].fresh
  <2>1. w \in Pending({"removeStage"}) /\ req[w] # NoRequest /\ req[w].op = "removeStage"
    BY <1>1 DEF CommitRemoveStage, Pending
  <2>2. stage' = [stage EXCEPT ![req[w].key] = NoStage]  BY <1>1 DEF CommitRemoveStage
  <2>3. req[w].key = k  BY <2>2 DEF IInv, TypeOK, Defined
  <2>4. ~req[w].fresh  BY <2>1, <2>3 DEF IInv, ReadInv, Holds
  <2>  QED  BY <2>1, <2>3, <2>4
<1>2. ASSUME NEW w \in Workers, CommitStage(w)  PROVE FALSE
  <2>1. req[w].key \in Keys /\ req[w].op \in {"createStage", "updateStage"}
        /\ req[w].role \in Roles
    BY <1>2, RequestFields, PipelineAssumption DEF CommitStage, Pending, IInv
  <2>2. CASE k = req[w].key /\ req[w].op = "updateStage"
    <3>1. stage'[k] = [stage[k] EXCEPT !.role = req[w].role]
      BY <1>2, <2>1, <2>2 DEF CommitStage, IInv, TypeOK
    <3>2. stage[k] \in StageDef  BY DEF IInv, TypeOK, Defined
    <3>3. stage'[k] \in StageDef  BY <2>1, <3>1, <3>2 DEF StageDef
    <3>  QED  BY <3>3, PipelineAssumption
  <2>3. CASE k = req[w].key /\ req[w].op = "createStage"
    BY <1>2, <2>3 DEF CommitStage
  <2>4. CASE k # req[w].key
    BY <1>2, <2>4 DEF CommitStage, IInv, TypeOK, Defined
  <2>  QED  BY <2>1, <2>2, <2>3, <2>4
<1>3. ASSUME NEW j \in Keys, SetActive(j)  PROVE FALSE
  <2>1. stage[j] \in StageDef /\ stage[k] \in StageDef
    BY <1>3 DEF SetActive, Defined, IInv, TypeOK
  <2>2. stage'[j] = [stage[j] EXCEPT !.active = ~@] /\ (k # j => stage'[k] = stage[k])
    BY <1>3 DEF SetActive, IInv, TypeOK
  <2>3. stage'[j] \in StageDef  BY <2>1, <2>2 DEF StageDef
  <2>  QED  BY <2>1, <2>2, <2>3, PipelineAssumption
<1>4. stage' = stage => FALSE  BY DEF Defined
<1>5. ensureSeeded => FALSE  BY DEF ensureSeeded
<1>  QED
  BY <1>1, <1>2, <1>3, <1>4, <1>5
  DEF Next, vars, remove, PlaceApplication, BeginCreateStage, BeginUpdateStage,
      BeginRemoveStage, BeginSubmit, BeginSetStage, BeginBulk, BeginPackage, CommitSubmit,
      CommitMove, CommitPackage, Abandon, Begin

\* A fresh choice of a parent that is stored moves an application from the offer to acceptance.
LEMMA ParentStep ==
    ASSUME IInv, [Next]_vars, NEW w \in Pending({"package"}), req[w].fresh,
           req'[w] = NoRequest, app'[req[w].app].stage # app[req[w].app].stage
    PROVE  /\ stage[app[req[w].app].stage].role = "offer"
           /\ stage[app'[req[w].app].stage].role = "accepted"
<1>1. /\ w \in Workers /\ req[w] # NoRequest /\ req[w].op = "package"
      /\ req[w].app \in Apps /\ req[w].key \in Keys \cup {NoKey} /\ Holds(req[w])
  <2>1. w \in Workers /\ req[w] # NoRequest /\ req[w].op = "package"  BY DEF Pending
  <2>  QED  BY <2>1, RequestFields DEF IInv, ReadInv
<1>2. app' # app  OBVIOUS
<1>3. ASSUME NEW v, req' = AppWritten(v)  PROVE v = w
  <2>  DEFINE ops == {"removeStage", "package"}
  <2>1. req' = Outdated(v, ops) /\ req[w].op \in ops  BY <1>1, <1>3 DEF AppWritten
  <2>  HIDE DEF ops
  <2>2. SUFFICES ASSUME w # v  PROVE FALSE
    OBVIOUS
  <2>3. Outdated(v, ops)[w] # NoRequest
    BY <1>1, <2>1, <2>2, OutdatedOther DEF IInv
  <2>  QED  BY <2>1, <2>3
<1>4. CASE CommitPackage(w)
  <2>1. req[w].key # NoKey /\ Live(req[w].app)
    BY <1>2, <1>4 DEF CommitPackage
  <2>2. app'[req[w].app].stage = req[w].key
    <3>1. app' = [app EXCEPT ![req[w].app].stage = req[w].key]
      BY <1>4, <2>1 DEF CommitPackage
    <3>2. app[req[w].app] \in Application  BY <1>1 DEF IInv, TypeOK
    <3>  QED  BY <1>1, <3>1, <3>2 DEF IInv, TypeOK, Application
  <2>  QED  BY <1>1, <2>1, <2>2 DEF Holds
<1>5. ASSUME NEW a \in Apps, NEW k \in Keys, PlaceApplication(a, k)  PROVE FALSE
  <2>1. req' = AppWritten(NoRequest)  BY <1>5 DEF PlaceApplication
  <2>2. w = NoRequest  BY <1>3, <2>1
  <2>  QED  BY <1>1, <2>2, NoRequestAssumption
<1>6. ASSUME NEW v \in Workers, CommitSubmit(v)  PROVE FALSE
  BY <1>1, <1>3, <1>6 DEF CommitSubmit, Pending
<1>7. ASSUME NEW v \in Workers, CommitMove(v)  PROVE FALSE
  BY <1>1, <1>3, <1>7 DEF CommitMove, Pending
<1>8. ASSUME NEW v \in Workers, CommitPackage(v), v # w  PROVE FALSE
  BY <1>2, <1>3, <1>8 DEF CommitPackage
<1>9. ASSUME NEW a \in Apps, remove(a)  PROVE FALSE
  BY <1>1, <1>9 DEF remove
<1>  QED
  BY <1>2, <1>4, <1>5, <1>6, <1>7, <1>8, <1>9
  DEF Next, vars, ensureSeeded, SetActive, BeginCreateStage, BeginUpdateStage,
      BeginRemoveStage, BeginSubmit, BeginSetStage, BeginBulk, BeginPackage, CommitStage,
      CommitRemoveStage, Abandon, Begin

\* The entry stage goes only if it became that while its deletion was under way, and a parent
\* moves an application only from an open offer to acceptance.
THEOREM StepsStayAllowed == Spec => StepsAllowed
<1>1. IInv /\ [Next]_vars =>
         [\A k \in Keys :
             Defined(k) /\ stage[k].role = "entry" /\ stage'[k] = NoStage =>
                 \E w \in Pending({"removeStage"}) : req[w].key = k /\ ~req[w].fresh]_vars
  BY EntryStep
<1>2. IInv /\ [Next]_vars =>
         [\A w \in Pending({"package"}) :
             /\ req[w].fresh /\ req'[w] = NoRequest
             /\ app'[req[w].app].stage # app[req[w].app].stage
             => /\ stage[app[req[w].app].stage].role = "offer"
                /\ stage[app'[req[w].app].stage].role = "accepted"]_vars
  BY ParentStep
<1>  QED
  BY <1>1, <1>2, AdmissionInductive, PTL DEF Spec, StepsAllowed, EntryStays, ParentsOnlyConfirm
=============================================================================
