----------------------------- MODULE Provisioning -----------------------------
(***************************************************************************)
(* A tenant and its database schema: create, register and the migrations   *)
(* of src/src/tenants, with src/src/tenant/tenant-provision.service.ts.    *)
(*                                                                         *)
(* create and register insert the tenant's row, then make the schema, then *)
(* run the migrations in it, and register makes the first administrator    *)
(* last.  No transaction spans the two: a failure is undone by the handler *)
(* (create deletes the row and leaves the schema, register drops the       *)
(* schema and then deletes the row) and a crash by nobody.                 *)
(*                                                                         *)
(* A schema is deployable when `prisma migrate deploy' can bring it to     *)
(* ready: it is empty, or its tables have a recorded first migration.      *)
(* Made with `db push' it is pushed, and half while migrateOne has made    *)
(* its migrations table and not yet the row in it.  A failed migration     *)
(* stays recorded, and every later deploy refuses (failed).                *)
(*                                                                         *)
(* Slugs are unique, and the row of a slug is deleted by the request that  *)
(* inserted it or by nobody: a tenant is known by its slug here, and by    *)
(* its row in Foundations, which has the parents.                          *)
(*                                                                         *)
(* History variable, never read by the actions: broken, the slugs whose    *)
(* row and schema an interrupted or half undone request (or a change from  *)
(* foundation to school) has left apart.                                   *)
(***************************************************************************)
EXTENDS Requests

CONSTANTS Slugs     \* each names a schema: toSchemaName maps slugs to schemas one to one

Types == {"school", "network"}

VARIABLES
    owner,          \* [Slugs -> Types \cup {"none", "removed"}], the tenant with the slug
    schema,         \* [Slugs -> SchemaStates]
    broken

provisioningVars == <<req, owner, schema, broken>>

SchemaStates == {"none", "pushed", "half", "deployable", "failed", "ready"}

ProvisioningRequest ==
    [op: {"create", "register", "migrate"}, slug: Slugs, type: Types,
     step: {"insert", "schema", "prepare", "record", "deploy", "admin", "drop", "delete"}]

ASSUME ProvisioningAssumption == NoRequest \notin ProvisioningRequest

-----------------------------------------------------------------------------
(* create and register *)

\* The slug must be free; that of a tenant that was removed is not.
BeginCreate(w, op, s, type) ==
    /\ owner[s] = "none"
    /\ Begin(w, [op |-> op, step |-> "insert", slug |-> s, type |-> type])
    /\ UNCHANGED <<owner, schema, broken>>

\* Slugs are unique.  A foundation that is created is complete, one that registers has its
\* administrator still to come, and a school has its schema first.
InsertTenant(w) ==
    LET q == req[w] IN
    /\ At(w, {"create", "register"}, "insert")
    /\ owner[q.slug] = "none"
    /\ owner' = [owner EXCEPT ![q.slug] = q.type]
    /\ CASE q.type = "school" -> Goto(w, "schema")
         [] q.type = "network" /\ q.op = "register" -> Goto(w, "admin")
         [] OTHER -> Done(w)
    /\ UNCHANGED <<schema, broken>>

\* CREATE SCHEMA IF NOT EXISTS.
CreateSchema(w) ==
    LET s == req[w].slug IN
    /\ At(w, {"create", "register"}, "schema")
    /\ schema' = [schema EXCEPT ![s] = IF @ = "none" THEN "deployable" ELSE @]
    /\ Goto(w, "deploy")
    /\ UNCHANGED <<owner, broken>>

\* The slug, if a migration works on it while the tenant is away or on its way out.
Stray(w) ==
    {s \in {req[w].slug} : req[w].op = "migrate" /\
        (owner[s] = "none" \/ \E v \in Workers : At(v, {"register"}, "delete") /\ req[v].slug = s)}

\* `prisma migrate deploy' brings the schema up to date; it makes one that has gone.
Deploy(w) ==
    LET s == req[w].slug IN
    /\ At(w, {"create", "register", "migrate"}, "deploy")
    /\ schema[s] \in {"none", "deployable", "ready"}
    /\ schema' = [schema EXCEPT ![s] = "ready"]
    /\ broken' = (broken \ {s}) \cup Stray(w)
    /\ IF req[w].op = "register" THEN Goto(w, "admin") ELSE Done(w)
    /\ UNCHANGED owner

\* The schema cannot be made.  Or the deployment refuses, or breaks off: before the first
\* migration or inside one.
DeployFails(w, outcome) ==
    LET s == req[w].slug IN
    /\ \/ At(w, {"create", "register"}, "schema") /\ outcome = schema[s]
       \/ /\ At(w, {"create", "register", "migrate"}, "deploy")
          /\ outcome \in {schema[s]} \cup
                          (IF schema[s] \in {"none", "deployable"} THEN {"failed"} ELSE {})
    /\ schema' = [schema EXCEPT ![s] = outcome]
    /\ broken' = broken \cup Stray(w)
    /\ CASE req[w].op = "create" -> Goto(w, "delete")
         [] req[w].op = "register" -> Goto(w, "drop")
         [] OTHER -> Done(w)
    /\ UNCHANGED owner

\* The administrator: a platform user of a foundation, a user in the schema of a school.
\* It fails when the email is taken, or the database away.
CreateAdmin(w) ==
    /\ At(w, {"register"}, "admin")
    /\ Done(w) \/ Goto(w, "drop")
    /\ UNCHANGED <<owner, schema, broken>>

\* Mutant: register deletes the row and then drops the schema.
DropLast(w) ==
    LET s == req[w].slug IN
    /\ At(w, {"register"}, "drop")
    /\ \/ /\ owner[s] = req[w].type /\ schema[s] # "none"
          /\ owner' = [owner EXCEPT ![s] = "none"]
          /\ UNCHANGED <<req, schema, broken>>
       \/ /\ schema' = [schema EXCEPT ![s] = "none"] /\ Done(w)
          /\ UNCHANGED <<owner, broken>>

\* deprovision, in a rollback; what goes wrong in it is logged.
DropSchema(w) ==
    LET s == req[w].slug IN
    /\ At(w, {"register"}, "drop")
    /\ \/ schema' = [schema EXCEPT ![s] = "none"] /\ UNCHANGED broken
       \/ broken' = broken \cup {s} /\ UNCHANGED schema
    /\ Goto(w, "delete")
    /\ UNCHANGED owner

\* The row of a request that failed is deleted; what goes wrong in that is logged too.
DeleteTenant(w) ==
    LET s == req[w].slug IN
    /\ At(w, {"create", "register"}, "delete")
    /\ \/ /\ owner' = [owner EXCEPT ![s] = "none"]
          /\ broken' = broken \cup IF req[w].op = "create" THEN {s} ELSE {}
       \/ broken' = broken \cup {s} /\ UNCHANGED owner
    /\ Done(w)
    /\ UNCHANGED schema

-----------------------------------------------------------------------------
(* Changes and migrations *)

\* A foundation that becomes a school gets no schema; a school that becomes one keeps it.
retype(s, type) ==
    /\ owner[s] \in Types \ {type}
    /\ owner' = [owner EXCEPT ![s] = type]
    /\ broken' = broken \cup {s}
    /\ UNCHANGED <<req, schema>>

removeOwner(s) ==
    /\ owner[s] \in Types
    /\ owner' = [owner EXCEPT ![s] = "removed"]
    /\ UNCHANGED <<req, schema, broken>>

\* migrateTenant takes any tenant; migrateAll begins this for every live school at once.
BeginMigrate(w, s) ==
    /\ owner[s] \in Types
    /\ Begin(w, [op |-> "migrate", step |-> "prepare", slug |-> s, type |-> owner[s]])
    /\ UNCHANGED <<owner, schema, broken>>

\* migrateOne makes a schema that is missing.  Tables without a migrations table are given
\* one, and its first row in a second statement.
PrepareSchema(w) ==
    LET s == req[w].slug IN
    /\ At(w, {"migrate"}, "prepare")
    /\ schema' = [schema EXCEPT ![s] = CASE @ = "none" -> "deployable"
                                         [] @ = "pushed" -> "half"
                                         [] OTHER -> @]
    /\ broken' = broken \cup Stray(w)
    /\ Goto(w, IF schema[s] = "pushed" THEN "record" ELSE "deploy")
    /\ UNCHANGED owner

baselineInitMigration(w) ==
    LET s == req[w].slug IN
    /\ At(w, {"migrate"}, "record")
    /\ schema' = [schema EXCEPT ![s] = IF @ = "half" THEN "deployable" ELSE @]
    /\ Goto(w, "deploy")
    /\ UNCHANGED <<owner, broken>>

\* A request is refused (its slug has been taken meanwhile), or lost in a crash.
EndProvisioning(w) ==
    /\ req[w] # NoRequest
    /\ broken' = broken \cup IF req[w].step = "insert" THEN {} ELSE {req[w].slug}
    /\ Done(w)
    /\ UNCHANGED <<owner, schema>>

-----------------------------------------------------------------------------
\* A slug is free, or that of a school whose schema was made with `db push'.
ProvisioningInit ==
    /\ req = Idle
    /\ owner \in [Slugs -> {"none", "school"}]
    /\ schema = [s \in Slugs |-> IF owner[s] = "school" THEN "pushed" ELSE "none"]
    /\ broken = {s \in Slugs : owner[s] = "school"}

ProvisioningNext ==
    \/ \E w \in Workers :
          \/ \E s \in Slugs :
                \/ \E op \in {"create", "register"}, type \in Types : BeginCreate(w, op, s, type)
                \/ BeginMigrate(w, s)
          \/ InsertTenant(w)
          \/ CreateSchema(w)
          \/ Deploy(w)
          \/ \E outcome \in SchemaStates : DeployFails(w, outcome)
          \/ CreateAdmin(w)
          \/ DropSchema(w)
          \/ DeleteTenant(w)
          \/ PrepareSchema(w)
          \/ baselineInitMigration(w)
          \/ EndProvisioning(w)
    \/ \E s \in Slugs :
          \/ \E type \in Types : retype(s, type)
          \/ removeOwner(s)

ProvisioningSpec == ProvisioningInit /\ [][ProvisioningNext]_provisioningVars

-----------------------------------------------------------------------------
\* Every variable keeps its type.
ProvisioningTypeOK ==
    /\ req \in [Workers -> ProvisioningRequest \cup {NoRequest}]
    /\ owner \in [Slugs -> Types \cup {"none", "removed"}]
    /\ schema \in [Slugs -> SchemaStates]
    /\ broken \subseteq Slugs

\* A school that no request is making, undoing or migrating has its schema, migrated:
\* nobody's rollback takes away the schema of a tenant that another request has registered
\* under the same slug.  And a schema has a tenant.  Only a crash, a rollback that failed,
\* the rollback of create (which keeps the schema), a change of type, and a migration
\* overtaken by a rollback leave the two apart.
SchemasMatchSchools ==
    \A s \in Slugs \ broken :
        \/ /\ owner[s] = "school" => schema[s] = "ready"
           /\ schema[s] # "none" => owner[s] # "none"
        \/ \E w \in Workers : req[w] # NoRequest /\ req[w].slug = s
=============================================================================
