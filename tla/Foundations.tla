----------------------------- MODULE Foundations ------------------------------
(***************************************************************************)
(* Foundations (networks) and their schools: the parents of the tenants    *)
(* of src/src/tenants, and what src/src/networks lets a foundation change. *)
(*                                                                         *)
(* A school's foundation is checked when the school is written, two awaits *)
(* before, and not when the foundation is: a foundation with schools can   *)
(* be removed, or made a school.  A tenant whose registration fails is     *)
(* deleted for good, and the database then takes it from its schools.      *)
(* The superadmin's dashboard (src/src/superadmin) counts what there is.   *)
(*                                                                         *)
(* History variables, never read by the actions: demoted, the tenants that *)
(* were foundations once; raced, those two updates wrote at once.          *)
(***************************************************************************)
EXTENDS Requests, Sums

CONSTANTS
    Tenants,        \* identifiers of tenants; one may be used again only when no request knows it
    NoTenant,       \* an unused identifier, or no parent
    Keep            \* a field that the caller of update leaves out

TenantRow == [type: {"school", "network"}, parent: Tenants \cup {NoTenant}, deleted: BOOLEAN]

FoundationsRequest ==
    [op: {"create", "register", "update"}, row: Tenants \cup {NoTenant},
     type: {"school", "network", Keep}, parent: Tenants \cup {NoTenant, Keep}]

ASSUME FoundationsAssumption ==
    /\ NoTenant \notin Tenants \cup TenantRow
    /\ Keep \notin Tenants \cup {"school", "network", NoTenant}
    /\ NoRequest \notin FoundationsRequest

VARIABLES
    tenant,         \* [Tenants -> TenantRow \cup {NoTenant}]
    demoted, raced

foundationsVars == <<req, tenant, demoted, raced>>

-----------------------------------------------------------------------------
StoredTenant(t) == tenant[t] # NoTenant
LiveTenant(t) == StoredTenant(t) /\ ~tenant[t].deleted
LiveNetwork(t) == LiveTenant(t) /\ tenant[t].type = "network"

\* An identifier that is not used, nor remembered by a request.
FreshTenant(t) ==
    /\ ~StoredTenant(t)
    /\ \A v \in Workers : req[v] # NoRequest => t \notin {req[v].row, req[v].parent}

validateTenantHierarchy(type, parent) ==
    /\ type = "network" => parent = NoTenant
    /\ type = "school" /\ parent # NoTenant => LiveNetwork(parent)

\* The foreign key on the parent.
ParentExists(parent) == parent \in {NoTenant} \cup {t \in Tenants : StoredTenant(t)}

SchoolsUnder(parent) ==
    {t \in Tenants : LiveTenant(t) /\ tenant[t].type = "school" /\ tenant[t].parent = parent}

\* The tree of tenants: those without a parent, each with the tenants under it.
findAll ==
    [t \in {x \in Tenants : LiveTenant(x) /\ tenant[x].parent = NoTenant} |->
        {c \in Tenants : LiveTenant(c) /\ tenant[c].parent = t}]

\* The superadmin's: what there is, and the schools of each foundation.
getDashboard ==
    LET live == {t \in Tenants : LiveTenant(t)}
        foundations == {t \in live : LiveNetwork(t)}
    IN [totalOrganizations |-> Cardinality(live),
        totalSchools |-> Cardinality(live \ foundations),
        foundations |-> [t \in foundations |-> Cardinality(SchoolsUnder(t))]]

-----------------------------------------------------------------------------
(* Tenants come and go *)

\* create checks the parent; a tenant that registers has none.
CheckParent(w, op, type, parent) ==
    /\ IF op = "create" THEN validateTenantHierarchy(type, parent) ELSE parent = NoTenant
    /\ Begin(w, [op |-> op, row |-> NoTenant, type |-> type, parent |-> parent])
    /\ UNCHANGED <<tenant, demoted, raced>>

\* The insert.  A foundation that is created needs no more; the others can still fail.
AddTenant(w, t) ==
    LET q == req[w] IN
    /\ Pending(w, "create") \/ Pending(w, "register")
    /\ q.row = NoTenant /\ FreshTenant(t) /\ ParentExists(q.parent)
    /\ tenant' = [tenant EXCEPT ![t] =
                    [type |-> q.type, parent |-> q.parent, deleted |-> FALSE]]
    /\ IF q.op = "create" /\ q.type = "network"
       THEN Done(w)
       ELSE req' = [req EXCEPT ![w].row = t]
    /\ UNCHANGED <<demoted, raced>>

\* The rows without t, whose schools the foreign key leaves without a parent.
WithoutTenant(t) == [x \in Tenants |->
    IF x = t \/ ~StoredTenant(x) THEN NoTenant
    ELSE IF tenant[x].parent = t THEN [tenant[x] EXCEPT !.parent = NoTenant] ELSE tenant[x]]

\* The schema or the administrator could not be made: the row is deleted.
RollBack(w) ==
    LET t == req[w].row IN
    /\ Pending(w, "create") \/ Pending(w, "register")
    /\ t # NoTenant
    /\ tenant' = WithoutTenant(t)
    /\ demoted' = demoted \ {t} /\ raced' = raced \ {t}
    /\ Done(w)

\* A request ends with nothing more to write: its tenant is complete, or it was refused,
\* failed or was lost.
EndFoundations(w) ==
    /\ req[w] # NoRequest /\ Done(w)
    /\ UNCHANGED <<tenant, demoted, raced>>

\* A foundation is removed with its schools in place.
removeTenant(t) ==
    /\ LiveTenant(t)
    /\ tenant' = [tenant EXCEPT ![t].deleted = TRUE]
    /\ demoted' = demoted \cup {t}
    /\ UNCHANGED <<req, raced>>

-----------------------------------------------------------------------------
(* Changes *)

\* findOne, and the hierarchy of the row as it would be.
BeginTenantUpdate(w, t, type, parent) ==
    /\ LiveTenant(t)
    /\ validateTenantHierarchy(IF type = Keep THEN tenant[t].type ELSE type,
                               IF parent = Keep THEN tenant[t].parent ELSE parent)
    /\ Begin(w, [op |-> "update", row |-> t, type |-> type, parent |-> parent])
    /\ UNCHANGED <<tenant, demoted, raced>>

\* Mutant: the fields that were not given are written too.
WriteAsGiven(w) ==
    LET t == req[w].row IN
    /\ Pending(w, "update") /\ LiveTenant(t)
    /\ tenant' = [tenant EXCEPT ![t].type = req[w].type, ![t].parent = req[w].parent]
    /\ Done(w)
    /\ UNCHANGED <<demoted, raced>>

\* The fields that were given are written.
CommitTenantUpdate(w) ==
    LET q == req[w]
        t == q.row
        type == IF q.type = Keep THEN tenant[t].type ELSE q.type
        parent == IF q.parent = Keep THEN tenant[t].parent ELSE q.parent
    IN
    /\ Pending(w, "update") /\ LiveTenant(t) /\ ParentExists(parent)
    /\ tenant' = [tenant EXCEPT ![t].type = type, ![t].parent = parent]
    /\ demoted' = IF LiveNetwork(t) /\ type = "school" THEN demoted \cup {t} ELSE demoted
    /\ raced' = IF \E v \in Others(w) : Pending(v, "update") /\ req[v].row = t
                THEN raced \cup {t} ELSE raced
    /\ Done(w)

-----------------------------------------------------------------------------
FoundationsInit ==
    /\ req = Idle
    /\ tenant = [t \in Tenants |-> NoTenant]
    /\ demoted = {} /\ raced = {}

FoundationsNext ==
    \/ \E w \in Workers :
          \/ \E op \in {"create", "register"}, type \in {"school", "network"},
                p \in Tenants \cup {NoTenant} : CheckParent(w, op, type, p)
          \/ \E t \in Tenants :
                \/ AddTenant(w, t)
                \/ \E type \in {"school", "network", Keep}, p \in Tenants \cup {NoTenant, Keep} :
                      BeginTenantUpdate(w, t, type, p)
          \/ CommitTenantUpdate(w)
          \/ RollBack(w)
          \/ EndFoundations(w)
    \/ \E t \in Tenants : removeTenant(t)

FoundationsSpec == FoundationsInit /\ [][FoundationsNext]_foundationsVars

-----------------------------------------------------------------------------
\* Every variable keeps its type.
FoundationsTypeOK ==
    /\ req \in [Workers -> FoundationsRequest \cup {NoRequest}]
    /\ tenant \in [Tenants -> TenantRow \cup {NoTenant}]
    /\ demoted \subseteq Tenants /\ raced \subseteq Tenants

\* The parent of a school is a foundation, and a foundation has no parent: unless the
\* parent was removed or made a school since, which nothing checks, or two updates of the
\* tenant overlapped.  Only then is a tenant missing from the tree of them.
HierarchyKept ==
    /\ \A t \in Tenants : StoredTenant(t) /\ tenant[t].parent # NoTenant =>
          /\ tenant[t].type = "school" \/ t \in raced
          /\ LiveNetwork(tenant[t].parent) \/ tenant[t].parent \in demoted
    /\ \A t \in Tenants : LiveTenant(t) =>
          \/ t \in DOMAIN findAll \cup UNION {findAll[x] : x \in DOMAIN findAll}
          \/ tenant[t].parent \in demoted \cup raced

\* The schools that the dashboard shows with each foundation, and those of none, are all the
\* schools there are, unless a foundation was removed or made a school since.
SchoolsAddUp ==
    \/ SumOf(getDashboard.foundations) + Cardinality(SchoolsUnder(NoTenant))
          = getDashboard.totalSchools
    \/ demoted # {}
=============================================================================
