----------------------------- MODULE MCBackOffice -----------------------------
(***************************************************************************)
(* The parts of the back office that share nothing but the requests in     *)
(* flight, each on its own: a behaviour is about one part, and the others  *)
(* stay as they begin.  The identifiers i1, i2, i3 stand for rows, keys or *)
(* objects of whatever part runs.                                          *)
(***************************************************************************)
EXTENDS Provisioning, Foundations, Clients, Sessions, ResetCodes, Records, Guardians,
        StoredFiles, AttendanceReports, Branches, Dashboards, SampleData, SampleYear, TimetableNews,
        CategoryProofs, TLC

CONSTANTS w1, w2, i1, i2, i3, p1, p2

MCSymmetry == Permutations({w1, w2}) \cup Permutations({p1, p2})

\* Two classes of one grade and year, the timetable of one with a lesson on Mondays, and a
\* later year; a month ends after the first day.
MCTermDates == [t1 |-> [start |-> 1, end |-> 1], t2 |-> [start |-> 2, end |-> 4]]
MCMonthStarts == {1, 2, 5}
MCStartClasses == [c \in {"c1", "c2"} |-> [grade |-> 10, year |-> "t1", removed |-> FALSE]]
MCTimetableOf == [l \in {"l1"} |-> "tt"]
MCStartTimetables == [tt |-> [class |-> "c1", year |-> "t1", removed |-> FALSE]]
MCStartLessons == [l \in {"l1"} |-> [subject |-> "s1", weekday |-> 1, removed |-> FALSE]]

MCImportFiles == {<<"a", "b", "a">>}

\* A school with one student: new or set up, with or without contracts and timetables, and its
\* marks none, all attended, or some missed.
MCAttendance(counted, missed) ==
    [age \in Ages |-> [attended |-> IF age = "today" THEN counted[1] ELSE counted[2], missed |-> missed]]

MCStartFigures ==
    {[users |-> u, activeUsers30d |-> u, students |-> 1, teachers |-> t, classrooms |-> c,
      schedules |-> s[1], publishedSchedules |-> s[2], homeroomAssignments |-> c,
      activeContracts |-> 2 * t, contractsExpiring30d |-> e[1], contractsExpiring90d |-> e[2],
      settingsConfigured |-> 1, attendance |-> a] :
        u \in {0, 2}, t \in {0, 1}, c \in {0, 1}, s \in {<<0, 0>>, <<2, 2>>, <<1, 0>>},
        e \in {<<0, 0>>, <<0, 1>>, <<2, 2>>},
        a \in {MCAttendance(<<0, 0>>, 0), MCAttendance(<<2, 2>>, 0), MCAttendance(<<0, 1>>, 1)}}

VARIABLE part       \* the part that the behaviour is about

Init ==
    /\ part \in {"provisioning", "foundations", "clients", "sessions", "codes", "records",
                 "guardians", "files", "reports", "branches", "dashboards", "seeds", "year",
                 "news", "proofs"}
    /\ ProvisioningInit /\ (part # "provisioning" => \A s \in Slugs : owner[s] = "none")
    /\ FoundationsInit /\ ClientsInit
    /\ SessionsInit /\ (part # "sessions" => \A s \in Schools : networkOf[s] = Nobody)
    /\ ResetCodesInit
    /\ RecordsInit /\ (part # "records" => kind = "users")
    /\ GuardiansInit
    /\ FilesInit /\ (part # "files" => fileKind = "photo")
    /\ ReportsInit /\ activeYears = {"t1"} /\ (part # "reports" => enrolments = Pupils \X {"c1"})
    /\ BranchesInit
    /\ DashboardsInit /\ (part # "dashboards" => figures = CHOOSE m \in StartFigures : TRUE)
    /\ SampleInit /\ (part # "seeds" => table = CHOOSE x \in Tables : TRUE)
    /\ YearInit /\ (part # "year" => seedOf = "demo" /\ ~unscoped)
    /\ NewsInit /\ (part # "news" => members = {})
    /\ ProofsInit /\ (part # "proofs" => category = "non_kf" /\ source = "unverified")

Next ==
    /\ UNCHANGED part
    /\ IF part = "provisioning" THEN ProvisioningNext ELSE UNCHANGED <<owner, schema, broken>>
    /\ IF part = "foundations" THEN FoundationsNext ELSE UNCHANGED <<tenant, demoted, raced>>
    /\ IF part = "clients" THEN ClientsNext ELSE UNCHANGED <<clients, lastAccess, pool, now>>
    /\ IF part = "sessions" THEN SessionsNext
       ELSE UNCHANGED <<networkOf, refreshToken, scopeOf, ended, crossed, outdated>>
    /\ IF part = "codes" THEN ResetCodesNext
       ELSE UNCHANGED <<issued, otp, attempts, resets, compared, overtaken>>
    /\ IF part = "records" THEN RecordsNext ELSE UNCHANGED <<kind, record, refused>>
    /\ IF part = "guardians" THEN GuardiansNext ELSE UNCHANGED <<guardian, disputed, unset>>
    /\ IF part = "files" THEN FilesNext ELSE UNCHANGED <<fileKind, file, stored, open, removed, torn, leaked>>
    /\ IF part = "reports" THEN ReportsNext /\ UNCHANGED req ELSE UNCHANGED reportsVars
    /\ IF part = "branches" THEN BranchesNext
       ELSE UNCHANGED <<branchOf, policyOf, strayed, hollow, slipped>>
    /\ IF part = "dashboards" THEN DashboardsNext /\ UNCHANGED req ELSE UNCHANGED dashboardsVars
    /\ IF part = "seeds" THEN SampleNext
       ELSE UNCHANGED <<table, rows, ran, overlapped, touched, failures>>
    /\ IF part = "year" THEN YearNext
       ELSE UNCHANGED <<seedOf, unscoped, terms, assigned, shown, enrolled, ajar, dropped>>
    /\ IF part = "news" THEN NewsNext
       ELSE UNCHANGED <<status, archived, members, told, toldTwice, joined, silent, atOnce>>
    /\ IF part = "proofs" THEN ProofsNext ELSE UNCHANGED <<proof, category, source, last, astray>>

backOfficeVars ==
    <<part, provisioningVars, foundationsVars, clientsVars, sessionsVars, resetCodesVars,
      recordsVars, guardiansVars, filesVars, reportsVars, branchesVars, dashboardsVars, sampleVars,
      yearVars, newsVars, proofsVars>>

Spec == Init /\ [][Next]_backOfficeVars

-----------------------------------------------------------------------------
\* The variables of the part that runs keep their types.
TypeOK ==
    /\ part = "provisioning" => ProvisioningTypeOK
    /\ part = "foundations" => FoundationsTypeOK
    /\ part = "clients" => ClientsTypeOK
    /\ part = "sessions" => SessionsTypeOK
    /\ part = "codes" => ResetCodesTypeOK
    /\ part = "records" => RecordsTypeOK
    /\ part = "guardians" => GuardiansTypeOK
    /\ part = "files" => FilesTypeOK
    /\ part = "reports" => ReportsTypeOK
    /\ part = "branches" => BranchesTypeOK
    /\ part = "dashboards" => DashboardsTypeOK
    /\ part = "seeds" => SampleTypeOK
    /\ part = "year" => YearTypeOK
    /\ part = "news" => NewsTypeOK
    /\ part = "proofs" => ProofsTypeOK

\* A tenant that is a school has its schema, and its parent is a foundation.
TenantsKept ==
    /\ part = "provisioning" => SchemasMatchSchools
    /\ part = "foundations" => HierarchyKept

\* A student has one primary guardian, an applicant the category of the last proof, and a
\* class hears once of its timetable (Guardians, CategoryProofs, TimetableNews).
StudentsKept ==
    /\ part = "guardians" => OnePrimaryGuardian
    /\ part = "proofs" => CategoryFollowsProof
    /\ part = "news" => TimetableAnnounced

\* A seed leaves what one run leaves, however often it is run (SampleData, SampleYear).
SeedsSettle ==
    /\ part = "seeds" => SeedIdempotent
    /\ part = "year" => SampleSettles

\* The figures of an attendance page add up, and the pages read together agree; the dashboard is
\* right about a school that nobody changes; and the superadmin's counts every school under its
\* foundation (AttendanceReports, Dashboards, Foundations).
FiguresAgree ==
    /\ part = "reports" => ReportsAgree
    /\ part = "dashboards" => DashboardSound
    /\ part = "foundations" => SchoolsAddUp
=============================================================================
