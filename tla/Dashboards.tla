------------------------------ MODULE Dashboards ------------------------------
(***************************************************************************)
(* The foundation's dashboard: dashboard of src/src/networks, which counts *)
(* for every school its users, contracts, timetables and attendance marks, *)
(* derives a health score, a level and flags, and adds the schools up.     *)
(*                                                                         *)
(* The fifteen counts of a school are queries of their own, sent at once,  *)
(* one for each window of the attendance too: each sees the school as it   *)
(* is when it runs.  A report may hold some figures from before a change   *)
(* and others from after it.                                               *)
(***************************************************************************)
EXTENDS Sums, FiniteSetsExt

CONSTANTS
    StartFigures,   \* the figures of a school when a dashboard is begun
    MaxFigure,      \* bound on the figures
    MaxChanges      \* bound on the changes while the counts run

\* contractsExpiring counts every contract by its end date, the active contracts are counted by
\* their status; homeroom assignments outlive their classrooms.
Metrics == {"users", "activeUsers30d", "students", "teachers", "classrooms", "schedules",
            "publishedSchedules", "homeroomAssignments", "activeContracts",
            "contractsExpiring30d", "contractsExpiring90d", "settingsConfigured"}

\* The marks that the daily window has, and those the longer ones have besides.
Ages == {"today", "earlier this week", "earlier this month"}

Windows == {"daily", "weekly", "monthly"}

\* What holds of a school at any one time.
Consistent(m) ==
    /\ \A k \in Metrics : m[k] \in 0..MaxFigure
    /\ m.settingsConfigured <= 1
    /\ m.activeUsers30d <= m.users
    /\ m.publishedSchedules <= m.schedules
    /\ m.contractsExpiring30d <= m.contractsExpiring90d
    /\ m.attendance \in [Ages -> [attended: 0..MaxFigure, missed: 0..MaxFigure]]

ASSUME DashboardsAssumption ==
    /\ MaxFigure \in Nat \ {0} /\ MaxChanges \in Nat
    /\ \A m \in StartFigures : DOMAIN m = Metrics \cup {"attendance"} /\ Consistent(m)

VARIABLES
    figures,        \* the school as it is now
    seen,           \* as it was at any time since the dashboard was begun
    changes         \* 0..MaxChanges

dashboardsVars == <<figures, seen, changes>>

-----------------------------------------------------------------------------
(* Scores, from 0 to 100, rounded half up *)

rounded(n, d) == (2 * n + d) \div (2 * d)

rate(window) == IF window.total = 0 THEN 0 ELSE rounded(1000 * window.attended, window.total)

Window(counted) == [attended |-> counted.attended, total |-> counted.attended + counted.missed]

mergeAttendanceWindows(v, w) == [attended |-> v.attended + w.attended, total |-> v.total + w.total]

\* The windows of a dashboard end today and are 1, 7 and 30 days long.
getAttendanceWindow(marks, window) ==
    LET daily == Window(marks["today"])
        weekly == mergeAttendanceWindows(daily, Window(marks["earlier this week"]))
    IN CASE window = "daily" -> daily
         [] window = "weekly" -> weekly
         [] window = "monthly" -> mergeAttendanceWindows(weekly, Window(marks["earlier this month"]))

\* What a dashboard may hold of a school: every figure as it was at some time since its begin.
Figure(school, k) == IF k \in Windows THEN getAttendanceWindow(school.attendance, k) ELSE school[k]

Reports ==
    LET varying == {k \in Metrics \cup Windows : \E s \in seen : Figure(s, k) # Figure(figures, k)} IN
    {[k \in Metrics \cup Windows |-> Figure(IF k \in varying THEN school[k] ELSE figures, k)] :
        school \in [varying -> seen]}

\* A rate is in tenths of a percent.
weightedAttendanceScore(m) ==
    rounded(25 * rate(m["daily"]) + 35 * rate(m["weekly"]) + 40 * rate(m["monthly"]), 1000)

contractScore(m) ==
    LET soon == m.contractsExpiring30d
        extended == Max({0, m.contractsExpiring90d - soon})
    IN IF m.activeContracts = 0
       THEN IF m.teachers = 0 THEN 100 ELSE 40
       ELSE Max({0, rounded(100 * m.activeContracts - 70 * soon - 30 * extended, m.activeContracts)})

activityScore(m) == IF m.users = 0 THEN 0 ELSE rounded(100 * m.activeUsers30d, m.users)

\* The share of the timetables that is published, and of the classrooms with a teacher.
scheduleScore(m) ==
    IF m.classrooms = 0 THEN 0
    ELSE LET of == Max({1, m.schedules})
             published == IF m.schedules = 0 THEN 0 ELSE m.publishedSchedules
             homerooms == Min({m.classrooms, m.homeroomAssignments})
         IN rounded(60 * published * m.classrooms + 40 * homerooms * of, of * m.classrooms)

setupScore(m) ==
    50 * m.settingsConfigured + (IF m.teachers > 0 THEN 25 ELSE 0) + (IF m.classrooms > 0 THEN 25 ELSE 0)

healthScore(m) ==
    rounded(35 * weightedAttendanceScore(m) + 25 * contractScore(m) + 15 * activityScore(m)
              + 15 * scheduleScore(m) + 10 * setupScore(m), 100)

healthLevel(m) ==
    CASE healthScore(m) >= 80 -> "healthy"
      [] healthScore(m) \in 60..79 -> "attention"
      [] OTHER -> "risk"

buildSchoolFlags(m) ==
    LET Flag(name, when) == IF when THEN {name} ELSE {} IN
    Flag("missing_settings", m.settingsConfigured = 0)
        \cup Flag("no_students", m.students = 0)
        \cup Flag("no_teachers", m.teachers = 0)
        \cup Flag("attendance_data_missing", m["monthly"].total = 0)
        \cup Flag("low_monthly_attendance", rate(m["monthly"]) < 900)
        \cup Flag("low_weekly_attendance", rate(m["weekly"]) < 900)
        \cup Flag("low_daily_attendance", rate(m["daily"]) < 900)
        \cup Flag("contracts_expiring_soon", m.contractsExpiring30d > 0)
        \cup Flag("no_published_schedules", m.publishedSchedules = 0 /\ m.schedules > 0)
        \cup Flag("no_schedules", m.schedules = 0)
        \cup Flag("no_homeroom_assignments", m.homeroomAssignments = 0 /\ m.classrooms > 0)
        \cup Flag("inactive_users", m.activeUsers30d = 0 /\ m.users > 0)

\* The summary of two schools; what is added up like the users is left out.
dashboard(m, x) ==
    LET Level(level) == Cardinality({i \in {1, 2} : healthLevel(IF i = 1 THEN m ELSE x) = level})
    IN [schools |-> 2, users |-> m.users + x.users,
        levels |-> [level \in {"healthy", "attention", "risk"} |-> Level(level)],
        attendance |-> [window \in Windows |-> mergeAttendanceWindows(m[window], x[window])]]

-----------------------------------------------------------------------------
(* The school, while the counts run *)

\* What one write of the program changes: one figure, or a figure and a part of it.
Together == {{k} : k \in Metrics} \cup
    {{"users", "activeUsers30d"}, {"schedules", "publishedSchedules"},
     {"contractsExpiring30d", "contractsExpiring90d"}}

Change(school) ==
    /\ changes < MaxChanges /\ changes' = changes + 1
    /\ Consistent(school)
    /\ figures' = school /\ seen' = seen \cup {school}

ChangeFigures(ks, d) ==
    Change([k \in DOMAIN figures |-> IF k \in ks THEN figures[k] + d ELSE figures[k]])

MarkPupil(age, outcome) == Change([figures EXCEPT !.attendance[age][outcome] = @ + 1])

\* A mark that is saved again, with another outcome.
CorrectMark(age, from, to) ==
    /\ from # to
    /\ Change([figures EXCEPT !.attendance[age][from] = @ - 1, !.attendance[age][to] = @ + 1])

DashboardsInit == figures \in StartFigures /\ seen = {figures} /\ changes = 0

DashboardsNext ==
    \/ \E ks \in Together, d \in {-1, 1} : ChangeFigures(ks, d)
    \/ \E age \in Ages, to \in {"attended", "missed"} :
          \/ MarkPupil(age, to)
          \/ \E from \in {"attended", "missed"} : CorrectMark(age, from, to)

DashboardsSpec == DashboardsInit /\ [][DashboardsNext]_dashboardsVars

-----------------------------------------------------------------------------
\* Every variable keeps its type.
DashboardsTypeOK ==
    /\ figures \in seen
    /\ \A school \in seen : DOMAIN school = Metrics \cup {"attendance"} /\ Consistent(school)
    /\ changes \in 0..MaxChanges

\* A window has at least the marks of a shorter one.
Nested(m) == m["daily"].total <= m["weekly"].total /\ m["weekly"].total <= m["monthly"].total

\* Whatever is read, a score is not negative, and is over 100 only if more users were counted
\* as active, or more timetables as published, than there were of them.  A school that is shown
\* without marks this month is not healthy, nor without a flag for the day, unless a shorter
\* window has marks or these counts are off: and a window has more marks than a longer one only
\* if marks were saved while the windows were counted.
ScoreSound ==
    \A m \in Reports :
        LET off == m.activeUsers30d > m.users \/ m.publishedSchedules > m.schedules
            missing == "attendance_data_missing" \in buildSchoolFlags(m)
        IN /\ healthScore(m) >= 0
           /\ healthScore(m) > 100 => off
           /\ missing /\ healthLevel(m) = "healthy" => off \/ ~Nested(m)
           /\ missing /\ Nested(m) => "low_daily_attendance" \in buildSchoolFlags(m)
           /\ (\A school \in seen : school.attendance = figures.attendance) => Nested(m)

\* The summary of two schools counts each under one level, and its rate is between theirs.
SummarySound ==
    \A m, x \in Reports :
        LET sum == dashboard(m, x) IN
        /\ SumOf(sum.levels) = sum.schools
        /\ \A window \in Windows :
              LET rates == {rate(v) : v \in {y \in {m[window], x[window]} : y.total > 0}} IN
              IF rates = {} THEN rate(sum.attendance[window]) = 0
              ELSE rate(sum.attendance[window]) \in Min(rates)..Max(rates)

\* A dashboard is right about a school that nobody changes, and wrong about another only
\* where two of its counts saw different schools.
DashboardSound == ScoreSound /\ SummarySound
=============================================================================
