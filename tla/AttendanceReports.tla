--------------------------- MODULE AttendanceReports ---------------------------
(***************************************************************************)
(* What is read from the attendance marks: the pages of the homeroom and   *)
(* subject teachers, the principal's summary, the parents' and the         *)
(* student's own, of src/src/attendance/attendance.service.ts.  How a mark *)
(* is written is in SchoolYear; here a mark is one step.                   *)
(*                                                                         *)
(* The pages select marks in different ways: by the class of the mark, by  *)
(* the pupils enrolled now, by the lesson, by its weekday, by the year of  *)
(* the mark.  A mark remembers the class and year it was made in; what it  *)
(* refers to changes under it: the pupil's enrolments, the class's grade   *)
(* and year, the timetable's class, the lesson's subject and weekday, each *)
(* of which may be removed too.                                            *)
(*                                                                         *)
(* What SchoolYear shows to happen at overlapped requests happens here: a  *)
(* pupil may have two classes, a day of the homeroom two marks, and the    *)
(* school two active terms.                                                *)
(*                                                                         *)
(* History variables, never read by the actions: moved, the pupils of whom *)
(* an enrolment has ended; shifted, the lessons whose timetable was given  *)
(* to another class.                                                       *)
(***************************************************************************)
EXTENDS Sums, FiniteSetsExt, SequencesExt

CONSTANTS
    Pupils,
    Classes,
    GradeLevels,
    TermDates,          \* [academic years -> [start: Nat, end: Nat]]
    MonthStarts,        \* the first days of the months, with that after the last
    Lessons,            \* schedule entries
    TimetableOf,        \* [Lessons -> timetables]
    Subjects,
    Weekdays,           \* of the lessons: 1 is Monday, 0 that the lesson is in the tray
    StartClasses,       \* the classes, timetables and lessons as a behaviour finds them
    StartTimetables,
    StartLessons,
    MarkDays,           \* the days that are marked; day 1 is a Monday
    Marked,             \* the statuses that are given
    Unscheduled,        \* the lesson of a homeroom mark, and its subject in a summary
    MaxMarks,           \* bound on the marks that are stored
    MaxAltered          \* bound on the changes of what the marks refer to

Statuses == {"present", "late", "excused", "sick", "absent"}

AcademicYears == DOMAIN TermDates

\* copy: the place of a mark among those of the pupil, lesson and day, in order of creation.
AttendanceMark == [pupil: Pupils, class: Classes, year: AcademicYears,
                   lesson: Lessons \cup {Unscheduled}, day: MarkDays, copy: 1..MaxMarks, status: Marked]

Classroom == [grade: GradeLevels, year: AcademicYears, removed: BOOLEAN]

Timetable == [class: Classes, year: AcademicYears, removed: BOOLEAN]

ScheduleEntry == [subject: Subjects, weekday: Weekdays, removed: BOOLEAN]

ASSUME AttendanceReportsAssumption ==
    /\ Marked \subseteq Statuses /\ MaxMarks \in Nat /\ MaxAltered \in Nat
    /\ Unscheduled \notin Lessons
    /\ StartClasses \in [Classes -> Classroom]
    /\ TimetableOf \in [Lessons -> DOMAIN StartTimetables]
    /\ StartTimetables \in [DOMAIN StartTimetables -> Timetable]
    /\ StartLessons \in [Lessons -> ScheduleEntry]
    /\ MarkDays \subseteq Nat /\ MonthStarts \subseteq Nat
    /\ \A d \in MarkDays : \E m, n \in MonthStarts : m <= d /\ d < n

VARIABLES
    enrolments,     \* SUBSET (Pupils \X Classes), the active ones
    marks,          \* SUBSET AttendanceMark
    classroom,      \* [Classes -> Classroom]
    timetable,      \* [timetables -> Timetable]
    lesson,         \* [Lessons -> ScheduleEntry]
    activeYears,    \* SUBSET AcademicYears
    moved, shifted,
    altered         \* 0..MaxAltered

entitiesVars == <<classroom, timetable, lesson, activeYears>>

reportsVars == <<enrolments, marks, entitiesVars, moved, shifted, altered>>

-----------------------------------------------------------------------------
(* Days *)

isoWeekday(d) == ((d - 1) % 7) + 1

startOfWeek(d) == d - isoWeekday(d) + 1

monthStart(d) == Max({m \in MonthStarts : m <= d})

addMonth(m) == Min({n \in MonthStarts : n > m})

\* The year that a termly page is about: that of the date, an active one before the others
\* and a later one before an earlier; or, with none, the active one that began last.
resolveAcademicYearForTerm(d) ==
    LET Latest(ys) == {y \in ys : \A x \in ys : TermDates[x].start <= TermDates[y].start}
        dated == {y \in AcademicYears : d \in TermDates[y].start..TermDates[y].end}
    IN CASE dated \cap activeYears # {} -> Latest(dated \cap activeYears)
         [] dated # {} /\ dated \cap activeYears = {} -> Latest(dated)
         [] OTHER -> Latest(activeYears)

\* The days of a page, and the year its marks must be of (every year, unless it is termly).
resolveAttendanceRange(period, d) ==
    LET Of(first, next) == {[days |-> first..(next - 1), years |-> AcademicYears]} IN
    CASE period = "daily" -> Of(d, d + 1)
      [] period = "weekly" -> Of(startOfWeek(d), startOfWeek(d) + 7)
      [] period = "monthly" -> Of(monthStart(d), addMonth(monthStart(d)))
      [] period = "termly" ->
            {[days |-> TermDates[y].start..TermDates[y].end, years |-> {y}] :
                y \in resolveAcademicYearForTerm(d)}

-----------------------------------------------------------------------------
(* Sums *)

Counts(ms) == [st \in Statuses |-> Cardinality({m \in ms : m.status = st})]

Attended(ms) == {m \in ms : m.status \in {"present", "late"}}

\* Hundredths of a percent, rounded half up.
attendanceRate(ms) ==
    IF ms = {} THEN 0
    ELSE (2 * 10000 * Cardinality(Attended(ms)) + Cardinality(ms)) \div (2 * Cardinality(ms))

Totals(ms) == [total |-> Cardinality(ms), statuses |-> Counts(ms), rate |-> attendanceRate(ms)]

SubjectOf(l) == IF l = Unscheduled THEN Unscheduled ELSE lesson[l].subject

\* One row per value of Key among the marks.
Buckets(ms, Key(_)) == [k \in {Key(m) : m \in ms} |-> Totals({m \in ms : Key(m) = k})]

buildSummary(ms) == [sum |-> Totals(ms), bySubject |-> Buckets(ms, LAMBDA m : SubjectOf(m.lesson))]

\* A day without marks is in it too.
DailyTotals(ms, days) == [d \in days |-> Totals({m \in ms : m.day = d})]

buildWeeklySummary(ms, first) ==
    LET week == {m \in ms : m.day \in first..(first + 6)} IN
    [sum |-> Totals(week), days |-> DailyTotals(week, first..(first + 6))]

buildGradeBuckets(ms) ==
    [g \in {classroom[m.class].grade : m \in ms} |->
        LET grade == {m \in ms : classroom[m.class].grade = g} IN
        [sum |-> Totals(grade), classrooms |-> Buckets(grade, LAMBDA m : m.class)]]

Roster(c) == {p \in Pupils : <<p, c>> \in enrolments}

FirstMade(ms) == {m \in ms : \A n \in ms : m.copy <= n.copy}

\* The mark of every pupil of the class, made in that class, or the first of two.
buildRoster(c, ms) == [p \in Roster(c) |-> FirstMade({m \in ms : m.pupil = p /\ m.class = c})]

\* A row per child, in the order of the guardian rows.
buildStudentAttendanceBuckets(children, ms) ==
    [i \in DOMAIN children |-> buildSummary({m \in ms : m.pupil = children[i]})]

OnRoster(roster) == UNION {roster[p] : p \in DOMAIN roster}

-----------------------------------------------------------------------------
(* Pages *)

\* The pupils who are in one of the classes now.
Enrolled(cs) == UNION {Roster(c) : c \in cs}

\* Mutant: the marks of the lessons are among those of the homeroom.
EveryMark(cs, days) ==
    {m \in marks : m.pupil \in Enrolled(cs) /\ m.class \in cs /\ m.day \in days}

\* Those of the pupils who are in the classes now, made in these classes, of no lesson.
HomeroomMarks(cs, days) ==
    {m \in marks : /\ m.pupil \in Enrolled(cs) /\ m.class \in cs /\ m.day \in days
                   /\ m.lesson = Unscheduled}

\* For the homeroom teacher of the classes cs, removed ones too.
findHomeroomAttendance(cs, d) ==
    LET of == HomeroomMarks(cs, {d})
        In(c) == {m \in of : m.class = c}
    IN [students |-> [c \in cs |-> buildRoster(c, In(c))],
        classrooms |-> [c \in cs |-> Totals(In(c))],
        summary |-> Totals(of),
        week |-> buildWeeklySummary(
                    HomeroomMarks(cs, startOfWeek(d)..(startOfWeek(d) + 6)), startOfWeek(d))]

ClassOf(l) == timetable[TimetableOf[l]].class

\* Those that are not removed, nor is their timetable.
LiveLessons(ls) == {l \in ls : ~lesson[l].removed /\ ~timetable[TimetableOf[l]].removed}

\* Those of the day's weekday, unless the teacher asks for one lesson.
DailyLessons(ls, one, d) == {l \in LiveLessons(ls) : one \/ lesson[l].weekday = isoWeekday(d)}

\* For the teacher of the lessons ls.
findSubjectAttendance(ls, one, d) ==
    LET daily == DailyLessons(ls, one, d)
        of == {m \in marks : m.lesson \in daily /\ m.day = d}
        week == {m \in marks : m.lesson \in LiveLessons(ls)}
    IN [entries |-> [l \in daily |-> buildRoster(ClassOf(l), {m \in of : m.lesson = l})],
        summary |-> buildSummary(of),
        week |-> buildWeeklySummary(week, startOfWeek(d))]

\* For the principal: without the classes that are removed.
findGradeSummary(days) ==
    LET of == {m \in marks : m.day \in days /\ ~classroom[m.class].removed} IN
    [summary |-> buildSummary(of), grades |-> buildGradeBuckets(of)]

\* For the parent of the children.
findParentAttendance(children, range) ==
    LET of == {m \in marks : /\ m.pupil \in ToSet(children) /\ m.day \in range.days
                             /\ m.year \in range.years}
    IN [summary |-> buildSummary(of),
        days |-> DailyTotals(of, range.days),
        children |-> buildStudentAttendanceBuckets(children, of)]

findStudentAttendance(p) == buildSummary({m \in marks : m.pupil = p})

-----------------------------------------------------------------------------
(* Marks *)

NextCopy(old) ==
    {k \in 1..MaxMarks : /\ \A m \in old : m.copy < k
                         /\ k = 1 \/ \E m \in old : m.copy = k - 1}

\* The lesson is one of the class and its year, and stored, if its timetable is or not; the day
\* need not be its weekday.  A second mark replaces the first, with the class of now, unless
\* both were saved at once: the unique key has no effect on the marks of no lesson.
createAttendance(p, c, l, d, st) ==
    LET old == {m \in marks : m.pupil = p /\ m.lesson = l /\ m.day = d}
        Mark(k) == [pupil |-> p, class |-> c, year |-> classroom[c].year, lesson |-> l, day |-> d,
                    copy |-> k, status |-> st]
    IN
    /\ <<p, c>> \in enrolments /\ ~classroom[c].removed
    /\ l # Unscheduled => /\ ~lesson[l].removed /\ ClassOf(l) = c
                          /\ timetable[TimetableOf[l]].year = classroom[c].year
    /\ \/ \E m \in old : marks' = (marks \ {m}) \cup {Mark(m.copy)}
       \/ /\ old = {} \/ l = Unscheduled
          /\ Cardinality(marks) < MaxMarks
          /\ \E k \in NextCopy(old) : marks' = marks \cup {Mark(k)}
    /\ UNCHANGED <<enrolments, entitiesVars, moved, shifted, altered>>

-----------------------------------------------------------------------------
(* What they refer to *)

Alters == altered < MaxAltered /\ altered' = altered + 1

\* Also one who is in another class, if two enrolments overlap.
assignStudent(p, c) ==
    /\ Alters
    /\ ~classroom[c].removed /\ <<p, c>> \notin enrolments
    /\ enrolments' = enrolments \cup {<<p, c>>}
    /\ UNCHANGED <<marks, entitiesVars, moved, shifted>>

unassignStudent(p, c) ==
    /\ Alters
    /\ <<p, c>> \in enrolments
    /\ enrolments' = enrolments \ {<<p, c>>}
    /\ moved' = moved \cup {p}
    /\ UNCHANGED <<marks, entitiesVars, shifted>>

updateClassroom(c, grade, year) ==
    /\ Alters
    /\ ~classroom[c].removed
    /\ classroom' = [classroom EXCEPT ![c].grade = grade, ![c].year = year]
    /\ UNCHANGED <<enrolments, marks, timetable, lesson, activeYears, moved, shifted>>

removeClassroom(c) ==
    /\ Alters
    /\ ~classroom[c].removed
    /\ classroom' = [classroom EXCEPT ![c].removed = TRUE]
    /\ UNCHANGED <<enrolments, marks, timetable, lesson, activeYears, moved, shifted>>

updateTimetable(t, c, year) ==
    /\ Alters
    /\ ~timetable[t].removed
    /\ c # timetable[t].class => ~classroom[c].removed
    /\ timetable' = [timetable EXCEPT ![t].class = c, ![t].year = year]
    /\ shifted' = shifted \cup {l \in Lessons : TimetableOf[l] = t /\ c # ClassOf(l)}
    /\ UNCHANGED <<enrolments, marks, classroom, lesson, activeYears, moved>>

archiveTimetable(t) ==
    /\ Alters
    /\ ~timetable[t].removed
    /\ timetable' = [timetable EXCEPT ![t].removed = TRUE]
    /\ UNCHANGED <<enrolments, marks, classroom, lesson, activeYears, moved, shifted>>

updateScheduleEntry(l, subject, weekday) ==
    /\ Alters
    /\ l \in LiveLessons(Lessons)
    /\ lesson' = [lesson EXCEPT ![l].subject = subject, ![l].weekday = weekday]
    /\ UNCHANGED <<enrolments, marks, classroom, timetable, activeYears, moved, shifted>>

removeScheduleEntry(l) ==
    /\ Alters
    /\ ~lesson[l].removed
    /\ lesson' = [lesson EXCEPT ![l].removed = TRUE]
    /\ UNCHANGED <<enrolments, marks, classroom, timetable, activeYears, moved, shifted>>

\* The others are demoted, but for those that were activated at once.
activateYear(y) ==
    /\ Alters
    /\ \E others \in {{}, activeYears} : activeYears' = others \cup {y}
    /\ UNCHANGED <<enrolments, marks, classroom, timetable, lesson, moved, shifted>>

-----------------------------------------------------------------------------
ReportsInit ==
    /\ \E c \in [Pupils -> Classes] : enrolments = {<<p, c[p]>> : p \in Pupils}
    /\ classroom = StartClasses /\ timetable = StartTimetables /\ lesson = StartLessons
    /\ activeYears \in {{y} : y \in AcademicYears}
    /\ marks = {} /\ moved = {} /\ shifted = {} /\ altered = 0

ReportsNext ==
    \/ \E p \in Pupils, c \in Classes :
          \/ \E l \in Lessons \cup {Unscheduled}, d \in MarkDays, st \in Marked :
                createAttendance(p, c, l, d, st)
          \/ assignStudent(p, c) \/ unassignStudent(p, c)
    \/ \E c \in Classes :
          removeClassroom(c) \/ \E g \in GradeLevels, y \in AcademicYears : updateClassroom(c, g, y)
    \/ \E t \in DOMAIN StartTimetables :
          \/ archiveTimetable(t)
          \/ \E c \in Classes, y \in AcademicYears : updateTimetable(t, c, y)
    \/ \E l \in Lessons :
          \/ removeScheduleEntry(l)
          \/ \E s \in Subjects, weekday \in Weekdays : updateScheduleEntry(l, s, weekday)
    \/ \E y \in AcademicYears : activateYear(y)

ReportsSpec == ReportsInit /\ [][ReportsNext]_reportsVars

-----------------------------------------------------------------------------
\* Every variable keeps its type.
ReportsTypeOK ==
    /\ enrolments \subseteq Pupils \X Classes
    /\ marks \subseteq AttendanceMark
    /\ classroom \in [Classes -> Classroom]
    /\ timetable \in [DOMAIN StartTimetables -> Timetable]
    /\ lesson \in [Lessons -> ScheduleEntry]
    /\ activeYears \subseteq AcademicYears
    /\ moved \subseteq Pupils /\ shifted \subseteq Lessons
    /\ altered \in 0..MaxAltered

Summed(rows) == SumOf([k \in DOMAIN rows |-> rows[k].total])

\* The homeroom page: nobody is twice on the roster of a class, and every class has on it the
\* marks it sums up, unless one is of a pupil who has left a class, or the second of a day; the
\* classes and the days add up to the page.  The day and the week are two queries: nothing is
\* said of the one by the other.
HomeroomPageAgrees(cs, d) ==
    LET page == findHomeroomAttendance(cs, d) IN
    /\ Summed(page.classrooms) = page.summary.total
    /\ Summed(page.week.days) = page.week.sum.total
    /\ \A c \in cs : LET row == page.students[c] IN
          /\ \A p \in DOMAIN row : Cardinality(row[p]) <= 1
          /\ \/ Totals(OnRoster(row)) = page.classrooms[c]
             \/ \E m \in marks : m.class = c /\ m.day = d /\ (m.pupil \in moved \/ m.copy > 1)

\* The subject page: what is on the rosters is in the sum, and a mark of a lesson is on its
\* roster unless the pupil has left a class, the timetable was given to another, the lesson or its
\* timetable is removed, or it was made on another weekday than the lesson has now.
SubjectPageAgrees(ls, one, d) ==
    LET page == findSubjectAttendance(ls, one, d)
        listed == UNION {OnRoster(page.entries[l]) : l \in DOMAIN page.entries}
        Astray(m) == m.pupil \in moved \/ m.lesson \in shifted
    IN
    /\ Cardinality(listed) <= page.summary.sum.total
    /\ \/ Totals(listed) = page.summary.sum
       \/ \E m \in marks : m.lesson \in ls /\ m.day = d /\ Astray(m)
    /\ Summed(page.summary.bySubject) = page.summary.sum.total
    /\ Summed(page.week.days) = page.week.sum.total
    /\ \A m \in marks : m.lesson \in ls /\ m.day = d /\ m \notin listed =>
          \/ Astray(m) \/ lesson[m.lesson].removed \/ timetable[TimetableOf[m.lesson]].removed
          \/ ~one /\ lesson[m.lesson].weekday # isoWeekday(d)

\* The parents' page: the children and the days add up to it, if no child is named by two
\* guardian rows; it is about the day that is asked for, but for a termly one; and the day is
\* in the week as it is on a page of its own, if nothing is saved between the two.
ParentPageAgrees(children, d) ==
    /\ \A period \in {"daily", "weekly", "monthly", "termly"} :
          \A range \in resolveAttendanceRange(period, d) :
              LET page == findParentAttendance(children, range)
                  listed == Summed([i \in DOMAIN children |-> page.children[i].sum])
              IN
              /\ Summed(page.days) = page.summary.sum.total
              /\ listed >= page.summary.sum.total
              /\ IsInjective(children) => listed = page.summary.sum.total
              /\ period # "termly" => d \in range.days
    /\ \A day \in resolveAttendanceRange("daily", d), week \in resolveAttendanceRange("weekly", d) :
          findParentAttendance(children, day).summary.sum.total
            = findParentAttendance(children, week).days[d].total

\* A rate is from 0 to 100 percent.  It is rounded, so that 100 does not mean that all came: of
\* twenty thousand marks, one may be missed.
RateSound ==
    /\ attendanceRate(marks) \in 0..10000
    /\ attendanceRate(marks) = 10000 =>
          20000 * (Cardinality(marks) - Cardinality(Attended(marks))) <= Cardinality(marks)

\* However marks, classes and timetables have changed, the figures of every page add up, and
\* pages that are read with nothing saved between them agree: the principal counts every mark
\* once, as its grade's, its class's and its pupil's, but for those of the removed classes.
ReportsAgree ==
    /\ \A d \in MarkDays :
          /\ \A cs \in SUBSET Classes \ {{}} : HomeroomPageAgrees(cs, d)
          /\ \A ls \in SUBSET Lessons \ {{}}, one \in BOOLEAN : SubjectPageAgrees(ls, one, d)
          /\ \A p, q \in Pupils : ParentPageAgrees(<<p, q>>, d)
    /\ LET page == findGradeSummary(MarkDays) IN
          /\ Summed([g \in DOMAIN page.grades |-> page.grades[g].sum]) = page.summary.sum.total
          /\ \A g \in DOMAIN page.grades :
                Summed(page.grades[g].classrooms) = page.grades[g].sum.total
          /\ Summed(page.summary.bySubject) = page.summary.sum.total
          /\ Summed([p \in Pupils |-> findStudentAttendance(p).sum])
                = page.summary.sum.total + Cardinality({m \in marks : classroom[m.class].removed})
    /\ RateSound
=============================================================================
