------------------------------ MODULE SampleData ------------------------------
(***************************************************************************)
(* The seeds of a school's schema: src/prisma/tenant/seed.ts (demo),       *)
(* seed-schools.ts (schools) and seed-attendance-feature.ts (feature).     *)
(* Each says that it is idempotent: it may be run again, after a crash or  *)
(* when the school has worked with its data.                               *)
(*                                                                         *)
(* A seed writes table after table, and row after row it looks for the     *)
(* fixture and creates it, or keeps, corrects or revives what it found.    *)
(* The tables differ in what they look for, in the unique index that has   *)
(* the last word, and in what the school can do to the row.  A behaviour   *)
(* is about one fixture of one table, and holds for every fixture that is  *)
(* seeded the same way.  The values of the fixtures are left out.          *)
(*                                                                         *)
(* History variables, never read by the actions: ran; overlapped, two      *)
(* runs, or a run and the school, were at the fixture at once; touched,    *)
(* the school has changed or removed it; failures, why a run stopped with  *)
(* an error.                                                               *)
(***************************************************************************)
EXTENDS Requests

CONSTANTS
    RowIds,
    NoRow           \* an unused identifier

SampleRow == [removed: BOOLEAN, edited: {"no", "unkeyed", "freed", "kept", "past"}]

SeedRequest == [op: {"seed"}, step: {"look", "write"}, row: RowIds \cup {NoRow}]

ASSUME SampleDataAssumption ==
    /\ NoRow \notin RowIds \cup SampleRow
    /\ NoRequest \notin SeedRequest

\* look: what is looked for, a live row or a stored one (upsert: in the write itself).
\* index: whose keys are unique, the live rows', all rows', none.  found: what is done to a row
\* that is found.  edits: what hides the row from the seed and frees the key, or keeps it; what
\* frees a second key, which is unique and not looked for (nisn, nik: "unkeyed"), and gives it
\* to a row of the school's ("taken"); and the day, when the key follows it ("past").
\* removal: what the school's removing does to the row.
Table(look, index, found, edits, removal) ==
    [look |-> look, index |-> index, found |-> found, edits |-> edits, removal |-> removal]

-----------------------------------------------------------------------------
(* The tables, phase by phase of each seed *)

Users == Table("stored", "all", "revive", {"freed"}, "keeps")

\* Looked for by the email, which nobody can change.
Staff == [Users EXCEPT !.edits = {}]

\* A student's account can be renamed: its profile has the nisn and the nik still.
Profile(found) ==
    Table("stored", "all", found, {"kept", "freed", "unkeyed", "taken"}, "erases")

FeatureStart ==
    [subjects       |-> Table("live", "none", "correct", {}, "never"),
     rooms          |-> Table("upsert", "all", "revive", {"freed"}, "keeps"),
     periodTemplates |-> Table("upsert", "all", "correct", {}, "never"),
     periodRows     |-> Table("upsert", "all", "correct", {"freed"}, "erases"),
     users          |-> Staff,
     teacherProfiles |-> Table("stored", "all", "revive", {}, "keeps")]

FeatureClasses ==
    [classrooms     |-> Table("upsert", "all", "revive", {"freed"}, "keeps"),
     homerooms      |-> Table("live", "live", "correct", {}, "keeps"),
     classSubjects  |-> Table("upsert", "all", "correct", {}, "never"),
     requirements   |-> Table("stored", "all", "correct", {}, "never")]

FeaturePupils ==
    [users          |-> Users,
     studentProfiles |-> Profile("correct"),
     guardians      |-> Table("stored", "none", "correct", {"freed"}, "erases")]

FeatureTimetable ==
    [schedules      |-> Table("upsert", "all", "revive", {}, "keeps"),
     entries        |-> Table("live", "live", "correct", {"freed", "kept"}, "keeps")]

\* A homeroom mark has no lesson, and the index knows no two rows without one as equal.
FeatureMarks ==
    [homeroomMarks  |-> Table("live", "none", "correct", {}, "never"),
     lessonMarks    |-> Table("live", "all", "correct", {}, "never")]

SchoolStart ==
    [subjects       |-> Table("live", "none", "keep", {}, "never"),
     rooms          |-> Table("live", "all", "keep", {"freed"}, "keeps"),
     periodRows     |-> FeatureStart.periodRows,
     users          |-> Staff,
     teacherProfiles |-> Table("stored", "all", "keep", {}, "keeps")]

SchoolClasses ==
    [classrooms     |-> Table("live", "all", "keep", {"freed"}, "keeps"),
     homerooms      |-> Table("live", "live", "keep", {}, "keeps"),
     classSubjects  |-> Table("stored", "all", "keep", {}, "never"),
     requirements   |-> Table("stored", "all", "keep", {}, "never")]

SchoolPupils ==
    [users          |-> Users,
     studentProfiles |-> Profile("keep"),
     guardians      |-> Table("stored", "none", "keep", {"freed"}, "erases")]

\* Portfolio and achievement entries, and their attachments.
SchoolWorks ==
    [entries        |-> Table("stored", "none", "keep", {"freed"}, "erases"),
     attachments    |-> Table("stored", "none", "keep", {}, "erases")]

\* A timetable that was archived has another status, and is revived with it.
SchoolTimetable ==
    [schedules      |-> Table("stored", "all", "revive", {}, "keeps"),
     entries        |-> Table("live", "live", "keep", {"freed", "kept"}, "keeps"),
     unavailability |-> Table("stored", "all", "keep", {}, "erases")]

\* Of the thirty school days until the day of the run, and a lesson that is chosen by the
\* place of the day among them.
SchoolMarks == [marks |-> Table("stored", "all", "keep", {"past"}, "never")]

DemoStart ==
    [classrooms     |-> Table("upsert", "all", "keep", {"freed"}, "keeps"),
     subjects       |-> Table("stored", "none", "keep", {}, "never"),
     rooms          |-> SchoolStart.rooms]

DemoTeachers ==
    [users          |-> Staff,
     teacherProfiles |-> Table("stored", "all", "keep", {"unkeyed", "taken"}, "keeps"),
     classSubjects  |-> SchoolClasses.classSubjects,
     homerooms      |-> SchoolClasses.homerooms]

\* One guardian is enough, whatever the name.
DemoPupils ==
    [users          |-> Users,
     studentProfiles |-> SchoolPupils.studentProfiles,
     guardians      |-> Table("stored", "none", "keep", {}, "erases")]

DemoWorks ==
    [portfolios     |-> SchoolWorks.entries,
     achievements   |-> SchoolWorks.entries]

DemoTimetable ==
    [periodTemplates |-> FeatureStart.periodTemplates,
     periodRows     |-> FeatureStart.periodRows,
     requirements   |-> Table("upsert", "all", "correct", {}, "never"),
     schedules      |-> Table("upsert", "all", "revive", {}, "keeps"),
     entries        |-> SchoolTimetable.entries,
     unavailability |-> SchoolTimetable.unavailability]

Phases ==
    {FeatureStart, FeatureClasses, FeaturePupils, FeatureTimetable, FeatureMarks, SchoolStart,
     SchoolClasses, SchoolPupils, SchoolWorks, SchoolTimetable, SchoolMarks, DemoStart,
     DemoTeachers, DemoPupils, DemoWorks, DemoTimetable}

Tables == UNION {{phase[t] : t \in DOMAIN phase} : phase \in Phases}

-----------------------------------------------------------------------------
VARIABLES
    table,          \* Tables: it never changes
    rows,           \* [RowIds -> SampleRow \cup {NoRow}]
    ran,            \* BOOLEAN, a run has come past since the school touched it, or the day turned
    overlapped, touched, failures

sampleVars == <<req, table, rows, ran, overlapped, touched, failures>>

StoredRow(r) == rows[r] # NoRow

LiveRow(r) == StoredRow(r) /\ ~rows[r].removed

\* The seed looks for the first key.
SeenEdits == {"no", "unkeyed"}

\* Mutant: the rows of a table without a unique index are not looked for.
NotLookedFor ==
    {r \in RowIds : /\ table.index # "none" /\ StoredRow(r) /\ rows[r].edited \in SeenEdits
                    /\ (table.look = "live" => LiveRow(r))}

\* The rows in which the seed sees its fixture.
Matching ==
    {r \in RowIds : /\ StoredRow(r) /\ rows[r].edited \in SeenEdits
                    /\ (table.look = "live" => LiveRow(r))}

\* The rows that have a key of the fixture's, where it is unique.
KeyHolders ==
    {r \in RowIds : /\ table.index # "none" /\ StoredRow(r)
                    /\ rows[r].edited \in SeenEdits \cup {"kept"}
                    /\ (table.index = "live" => LiveRow(r))}

HasSecondKey == "taken" \in table.edits

SecondKeyHolders == {r \in RowIds : StoredRow(r) /\ rows[r].edited \in {"no", "kept"}}

-----------------------------------------------------------------------------
BeginSeed(w) ==
    /\ Begin(w, [op |-> "seed", step |-> "look", row |-> NoRow])
    /\ overlapped' = (overlapped \/ Others(w) # {})
    /\ UNCHANGED <<table, rows, ran, touched, failures>>

Look(w) ==
    /\ At(w, {"seed"}, "look") /\ table.look # "upsert"
    /\ IF Matching = {} THEN Goto(w, "write")
       ELSE \E r \in Matching : req' = [req EXCEPT ![w].step = "write", ![w].row = r]
    /\ UNCHANGED <<table, rows, ran, overlapped, touched, failures>>

\* The run goes on to the next fixture.
Passed(w) == ran' = TRUE /\ Done(w) /\ UNCHANGED failures

\* The run stops: none of the fixtures that follow is seeded.
Stop(w, why) == failures' = failures \cup why /\ Done(w) /\ UNCHANGED <<rows, ran>>

\* A correction writes the second key again.
WriteFound(w, r) ==
    LET again == HasSecondKey /\ table.found = "correct" IN
    IF again /\ SecondKeyHolders \ {r} # {} THEN Stop(w, {"edited"})
    ELSE /\ rows' = [rows EXCEPT
                ![r].removed = table.found # "revive" /\ @,
                ![r].edited = CASE again /\ @ = "unkeyed" -> "no"
                                [] again /\ @ = "freed" -> "kept"
                                [] OTHER -> @]
         /\ Passed(w)

CreateRow(w) ==
    IF KeyHolders # {}
    THEN Stop(w, {IF rows[r].edited = "kept" THEN "edited"
                  ELSE IF rows[r].removed THEN "removed" ELSE "overtaken" : r \in KeyHolders})
    ELSE LET new == {r \in RowIds : ~StoredRow(r)} IN
            /\ new # {}
            /\ rows' = [rows EXCEPT ![AnyOf(new)] = [removed |-> FALSE, edited |-> "no"]]
            /\ Passed(w)

\* An update of a row that the school has deleted meanwhile fails, if there is one.
WriteFixture(w) ==
    LET r == req[w].row IN
    /\ At(w, {"seed"}, "write")
    /\ CASE r = NoRow -> CreateRow(w)
         [] r # NoRow /\ StoredRow(r) -> WriteFound(w, r)
         [] OTHER -> IF table.found = "keep" THEN Passed(w) /\ UNCHANGED rows ELSE Stop(w, {"gone"})
    /\ UNCHANGED <<table, overlapped, touched>>

\* Prisma's upsert by a unique key is one statement.
UpsertFixture(w) ==
    /\ At(w, {"seed"}, "look") /\ table.look = "upsert"
    /\ IF Matching = {} THEN CreateRow(w) ELSE \E r \in Matching : WriteFound(w, r)
    /\ UNCHANGED <<table, overlapped, touched>>

\* The run is killed, or fails at another table.
KillSeed(w) ==
    /\ req[w] # NoRequest /\ Done(w)
    /\ UNCHANGED <<table, rows, ran, overlapped, touched, failures>>

Touch(row, r) ==
    /\ rows' = [rows EXCEPT ![r] = row]
    /\ ran' = FALSE /\ touched' = TRUE
    /\ overlapped' = (overlapped \/ req # Idle)
    /\ UNCHANGED <<req, table, failures>>

SchoolEdits(r, edit) ==
    /\ LiveRow(r) /\ rows[r].edited = "no" /\ edit \in table.edits
    /\ Touch([rows[r] EXCEPT !.edited = edit], r)

SchoolRemoves(r) ==
    /\ LiveRow(r) /\ table.removal # "never"
    /\ Touch(IF table.removal = "keeps" THEN [rows[r] EXCEPT !.removed = TRUE] ELSE NoRow, r)

\* A row of the school's own, or another's, gets the fixture's second key.
SchoolTakesKey(r) ==
    /\ HasSecondKey /\ ~StoredRow(r) /\ SecondKeyHolders = {}
    /\ Touch([removed |-> FALSE, edited |-> "kept"], r)

\* The fixture of another day has another key; the runs in flight are at that of their day.
NextDay ==
    /\ "past" \in table.edits
    /\ rows' = [r \in RowIds |-> IF StoredRow(r) THEN [rows[r] EXCEPT !.edited = "past"] ELSE NoRow]
    /\ req' = Idle /\ ran' = FALSE
    /\ UNCHANGED <<table, overlapped, touched, failures>>

-----------------------------------------------------------------------------
SampleInit ==
    /\ req = Idle
    /\ table \in Tables
    /\ rows = [r \in RowIds |-> NoRow]
    /\ ran = FALSE /\ overlapped = FALSE /\ touched = FALSE
    /\ failures = {}

SampleNext ==
    \/ \E w \in Workers :
          \/ BeginSeed(w)
          \/ Look(w)
          \/ WriteFixture(w)
          \/ UpsertFixture(w)
          \/ KillSeed(w)
    \/ \E r \in RowIds :
          \/ \E edit \in {"freed", "kept", "unkeyed"} : SchoolEdits(r, edit)
          \/ SchoolRemoves(r)
          \/ SchoolTakesKey(r)
    \/ NextDay

SampleSpec == SampleInit /\ [][SampleNext]_sampleVars

-----------------------------------------------------------------------------
\* Every variable keeps its type.
SampleTypeOK ==
    /\ req \in [Workers -> SeedRequest \cup {NoRequest}]
    /\ table \in Tables
    /\ rows \in [RowIds -> SampleRow \cup {NoRow}]
    /\ ran \in BOOLEAN /\ overlapped \in BOOLEAN /\ touched \in BOOLEAN
    /\ failures \subseteq {"removed", "edited", "overtaken", "gone"}

\* A seed that is run again, after a crash too, makes no second fixture of one key (and of one
\* day, where the key follows it), and none fails for what a seed has left: only two runs at
\* once can, where no index keeps them apart.  What the school did is another matter: a run
\* fails on a row that was removed where the seed sees the live rows only, and the index all;
\* on one that was changed and kept its key; and on a profile with the nisn or the nik of its
\* own.  A run that came past leaves a live fixture, unless it keeps a removed row as it is.
SeedIdempotent ==
    LET fixtures == {r \in RowIds : LiveRow(r) /\ rows[r].edited \in SeenEdits} IN
    /\ Cardinality(fixtures) > 1 => overlapped /\ table.index = "none"
    /\ ~overlapped => "overtaken" \notin failures
    /\ ~touched => failures \subseteq {"overtaken"}
    /\ "removed" \in failures => overlapped \/ (table.look = "live" /\ table.index = "all")
    /\ "edited" \in failures => table.index = "live" \/ HasSecondKey
    /\ ran /\ ~overlapped => fixtures # {} \/ (table.look # "live" /\ table.found # "revive")
=============================================================================
