------------------------------- MODULE Records --------------------------------
(***************************************************************************)
(* Records with a key that no two may share: the users, platform users,    *)
(* student and teacher profiles, rooms and unavailable periods of          *)
(* src/src/users, auth, student-profiles, teacher-profiles, rooms and      *)
(* teacher-unavailability, and the import of users from a file.            *)
(*                                                                         *)
(* Every service looks for the key first, to answer with a conflict, and   *)
(* writes later; a unique index has the last word, and what it refuses is  *)
(* an internal error to the caller (a row in error to an import).  The     *)
(* services differ in whether they look among the removed records too,     *)
(* which the index always does.  The records of a kind do not meet those   *)
(* of another: a behaviour is about one kind.                              *)
(*                                                                         *)
(* History variable, never read by the actions: refused, why the index     *)
(* refused a record (its key was taken since the service looked, or is     *)
(* that of a record removed before).                                       *)
(***************************************************************************)
EXTENDS Requests, Sequences

CONSTANTS
    RecordIds, Keys,
    NoRecord,       \* an unused identifier
    ImportFiles     \* the keys, row by row, of the files imported

ASSUME RecordsAssumption == NoRecord \notin RecordIds /\ ImportFiles \subseteq Seq(Keys)

VARIABLES
    kind,           \* whose records: it never changes
    record,         \* [RecordIds -> [key: Keys, removed: BOOLEAN] \cup {NoRecord}]
    refused         \* SUBSET {"overtaken", "removed"}

recordsVars == <<req, kind, record, refused>>

\* What create and update look among, and whether remove keeps the row.
Service(create, update, keeps) == [create |-> create, update |-> update, keeps |-> keeps]

UsersService == Service("all", "live", TRUE)

createNetworkAdmin == Service("all", "none", TRUE)

createSuperadmin == Service("live", "none", TRUE)

StudentProfilesService == Service("all", "all", FALSE)

TeacherProfilesService == Service("all", "all", TRUE)

RoomsService == Service("live", "live", TRUE)

TeacherUnavailabilityService == Service("all", "none", FALSE)

Services ==
    [users          |-> UsersService,
     networkAdmins  |-> createNetworkAdmin,
     superadmins    |-> createSuperadmin,
     students       |-> StudentProfilesService,
     teachers       |-> TeacherProfilesService,
     rooms          |-> RoomsService,
     unavailability |-> TeacherUnavailabilityService]

-----------------------------------------------------------------------------
StoredRecord(r) == record[r] # NoRecord

NewRecords == {r \in RecordIds : ~StoredRecord(r)}

LiveRecord(r) == StoredRecord(r) /\ ~record[r].removed

\* The records, other than r, that a service sees with key k.
Holders(among, k, r) ==
    {x \in RecordIds \ {r} : /\ IF among = "all" THEN StoredRecord(x) ELSE LiveRecord(x)
                             /\ record[x].key = k}

\* Mutant: rooms and users are told apart by their live records alone.
NoIndex(k, r) == Holders("live", k, r) = {} \/ kind \in {"rooms", "users"}

UniqueKey(k, r) == Holders("all", k, r) = {}

\* Why the index refuses k: one of its holders was there when the service looked.
Reasons(w, k, r) ==
    {IF x \in req[w].there THEN "removed" ELSE "overtaken" : x \in Holders("all", k, r)}

-----------------------------------------------------------------------------
(* The services *)

BeginCreateRecord(w, k) ==
    /\ Holders(Services[kind].create, k, NoRecord) = {}
    /\ Begin(w, [op |-> "create", key |-> k, there |-> Holders("all", k, NoRecord)])
    /\ UNCHANGED <<kind, record, refused>>

CommitCreateRecord(w) ==
    LET k == req[w].key  r == AnyOf(NewRecords) IN
    /\ Pending(w, "create") /\ NewRecords # {}
    /\ IF UniqueKey(k, NoRecord)
       THEN /\ record' = [record EXCEPT ![r] = [key |-> k, removed |-> FALSE]]
            /\ UNCHANGED refused
       ELSE refused' = refused \cup Reasons(w, k, NoRecord) /\ UNCHANGED record
    /\ Done(w)
    /\ UNCHANGED kind

BeginUpdateRecord(w, r, k) ==
    /\ Services[kind].update # "none"
    /\ LiveRecord(r)
    /\ Holders(Services[kind].update, k, r) = {}
    /\ Begin(w, [op |-> "update", record |-> r, key |-> k, there |-> Holders("all", k, r)])
    /\ UNCHANGED <<kind, record, refused>>

\* By identifier: a record that was removed meanwhile changes too.
CommitUpdateRecord(w) ==
    LET k == req[w].key  r == req[w].record IN
    /\ Pending(w, "update") /\ StoredRecord(r)
    /\ IF UniqueKey(k, r)
       THEN record' = [record EXCEPT ![r].key = k] /\ UNCHANGED refused
       ELSE refused' = refused \cup Reasons(w, k, r) /\ UNCHANGED record
    /\ Done(w)
    /\ UNCHANGED kind

\* The platform users are not removed here.
removeRecord(r) ==
    /\ LiveRecord(r) /\ kind \notin {"networkAdmins", "superadmins"}
    /\ record' = [record EXCEPT ![r] =
                    IF Services[kind].keeps THEN [@ EXCEPT !.removed = TRUE] ELSE NoRecord]
    /\ UNCHANGED <<req, kind, refused>>

LoseRecordRequest(w) ==
    /\ req[w] # NoRequest /\ Done(w)
    /\ UNCHANGED <<kind, record, refused>>

-----------------------------------------------------------------------------
(* The import: row by row, one failing row does not stop the next *)

importFromFile(w, f) ==
    /\ kind = "users"
    /\ Begin(w, [op |-> "import", step |-> "look", file |-> f, row |-> 1,
                 created |-> 0, skipped |-> 0, errors |-> 0])
    /\ UNCHANGED <<kind, record, refused>>

\* Goes on to the next row, with the counts of q.
NextRow(w, q) == req' = [req EXCEPT ![w] = [q EXCEPT !.step = "look", !.row = @ + 1]]

CreatedRow(w) == NextRow(w, [req[w] EXCEPT !.created = @ + 1])

SkipRow(w) == NextRow(w, [req[w] EXCEPT !.skipped = @ + 1])

RowInError(w) == NextRow(w, [req[w] EXCEPT !.errors = @ + 1])

LookRow(w) ==
    LET q == req[w] IN
    /\ At(w, {"import"}, "look") /\ q.row <= Len(q.file)
    /\ IF Holders("all", q.file[q.row], NoRecord) # {} THEN SkipRow(w) ELSE Goto(w, "insert")
    /\ UNCHANGED <<kind, record, refused>>

InsertRow(w) ==
    LET q == req[w]  k == q.file[q.row]  r == AnyOf(NewRecords) IN
    /\ At(w, {"import"}, "insert") /\ NewRecords # {}
    /\ IF UniqueKey(k, NoRecord)
       THEN /\ record' = [record EXCEPT ![r] = [key |-> k, removed |-> FALSE]]
            /\ CreatedRow(w)
       ELSE RowInError(w) /\ UNCHANGED record
    /\ UNCHANGED <<kind, refused>>

\* A row the database has no answer for.
FailRow(w) ==
    /\ At(w, {"import"}, "look") \/ At(w, {"import"}, "insert")
    /\ req[w].row <= Len(req[w].file)
    /\ RowInError(w)
    /\ UNCHANGED <<kind, record, refused>>

-----------------------------------------------------------------------------
RecordsInit ==
    /\ req = Idle
    /\ kind \in DOMAIN Services
    /\ record = [r \in RecordIds |-> NoRecord]
    /\ refused = {}

RecordsNext ==
    \/ \E w \in Workers :
          \/ \E k \in Keys :
                \/ BeginCreateRecord(w, k)
                \/ \E r \in RecordIds : BeginUpdateRecord(w, r, k)
          \/ CommitCreateRecord(w)
          \/ InsertRow(w)
          \/ CommitUpdateRecord(w)
          \/ LoseRecordRequest(w)
          \/ \E f \in ImportFiles : importFromFile(w, f)
          \/ LookRow(w)
          \/ FailRow(w)
    \/ \E r \in RecordIds : removeRecord(r)

RecordsSpec == RecordsInit /\ [][RecordsNext]_recordsVars

-----------------------------------------------------------------------------
CreateRequest == [op: {"create"}, key: Keys, there: SUBSET RecordIds]

UpdateRequest == [op: {"update"}, record: RecordIds, key: Keys, there: SUBSET RecordIds]

ImportRequest ==
    [op: {"import"}, step: {"look", "insert"}, file: ImportFiles, row: Nat,
     created: Nat, skipped: Nat, errors: Nat]

\* Every variable keeps its type.
RecordsTypeOK ==
    /\ req \in [Workers -> CreateRequest \cup UpdateRequest \cup ImportRequest \cup {NoRequest}]
    /\ kind \in DOMAIN Services
    /\ record \in [RecordIds -> [key: Keys, removed: BOOLEAN] \cup {NoRecord}]
    /\ refused \subseteq {"overtaken", "removed"}

\* No two records of a kind share a key, removed ones included.  The index refuses what a
\* service let through only if the key was taken meanwhile, or, where the service looks at
\* the live records alone (rooms, a user's new username), by a removed one.
\* An import accounts for every row it has been through, once.
RecordsAnswered ==
    /\ \A r, x \in RecordIds :
          StoredRecord(r) /\ StoredRecord(x) /\ record[r].key = record[x].key => r = x
    /\ "removed" \in refused => kind \in {"users", "rooms"}
    /\ \A w \in Workers : Pending(w, "import") =>
          req[w].created + req[w].skipped + req[w].errors + 1 = req[w].row
=============================================================================
