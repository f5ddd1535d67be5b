------------------------------ MODULE SchoolYear ------------------------------
(***************************************************************************)
(* What a school year is made of: the active term                          *)
(* (src/src/academic-years), who is enrolled in which class                *)
(* (src/src/classrooms), and the attendance marks of one day               *)
(* (src/src/attendance).                                                   *)
(*                                                                         *)
(* Each rule here is kept by a query before the write: one active term,    *)
(* one class per student, one mark per student and lesson. Only a mark     *)
(* that names its lesson has a unique index behind it; the mark of the     *)
(* homeroom names none, and its index holds a null, which never equals     *)
(* another. The transactions run at READ COMMITTED: an UPDATE sees what    *)
(* was committed when it began, and checks a row again that another        *)
(* transaction wrote meanwhile, but does not find rows that match only     *)
(* since.                                                                  *)
(*                                                                         *)
(* Who may call a handler is left out, and so is what a mark says.         *)
(* Students are all active, so that both ways to assign them check the     *)
(* same.                                                                   *)
(*                                                                         *)
(* History variables, which no action depends on: req[w].fresh (what w     *)
(* read still stands), overtaken, late and repeated (what was written      *)
(* otherwise)                                                              *)
(***************************************************************************)
EXTENDS Naturals

CONSTANTS
    Terms, Classes, Students,
    Lessons,        \* schedule entries of the day
    Homeroom,       \* no schedule entry: the mark of the homeroom teacher
    Workers, NoRequest

ASSUME SchoolYearAssumption == Homeroom \notin Lessons

Periods == Lessons \cup {Homeroom}

VARIABLES
    term,           \* [Terms -> TermStatus]
    removed,        \* SUBSET Classes, soft-deleted
    enrolment,      \* [Students \X Classes -> EnrolmentStatus]
    marks,          \* [Students \X Periods -> Nat], how many records
    req,            \* [Workers -> Request \cup {NoRequest}]
    overtaken,      \* history: terms activated while another one was
    late,           \* history: enrolments written after another of the student
    repeated        \* history: students whose mark was added twice at once

vars == <<term, removed, enrolment, marks, req, overtaken, late, repeated>>
history == <<overtaken, late, repeated>>

-----------------------------------------------------------------------------
TermStatus == {"none", "inactive", "active"}
EnrolmentStatus == {"none", "active", "ended"}

\* seen: the terms the demoting UPDATE found; existing: students with a mark.
Request ==
    [op: {"activate"}, term: Terms, new: BOOLEAN, seen: SUBSET Terms, fresh: BOOLEAN]
      \cup [op: {"assign"}, class: Classes, students: SUBSET Students, fresh: BOOLEAN]
      \cup [op: {"unassign"}, class: Classes, student: Students]
      \cup [op: {"check", "mark"}, students: SUBSET Students, period: Periods,
            existing: SUBSET Students, fresh: BOOLEAN]

ASSUME NoRequestAssumption == NoRequest \notin Request

Is(w, op) == req[w] # NoRequest /\ req[w].op = op
Begins(w, r) == req[w] = NoRequest /\ req' = [req EXCEPT ![w] = r]

\* w is done, and what the requests in stale have read is out of date.
Ends(w, stale) ==
    req' = [v \in Workers |->
              IF v = w THEN NoRequest
              ELSE IF v \in stale THEN [req[v] EXCEPT !.fresh = FALSE] ELSE req[v]]

\* An await throws, the database rolls back a deadlock, or the process dies.
FailRequest(w) ==
    /\ req[w] # NoRequest
    /\ Ends(w, {})
    /\ UNCHANGED <<term, removed, enrolment, marks, history>>

-----------------------------------------------------------------------------
(* Terms *)

CreateInactive(t) ==
    /\ term[t] = "none"
    /\ term' = [term EXCEPT ![t] = "inactive"]
    /\ UNCHANGED <<removed, enrolment, marks, req, history>>

\* Mutant: nobody is demoted.
DemotedNone(t) == {}

\* The terms the activation of t is to demote.
Demoted(t) == {x \in Terms \ {t} : term[x] = "active"}

\* activate, and create with isActive, for a term that is there or not yet.
BeginActivate(w, t) ==
    /\ Begins(w, [op |-> "activate", term |-> t, new |-> (term[t] = "none"),
                  seen |-> Demoted(t), fresh |-> TRUE])
    /\ UNCHANGED <<term, removed, enrolment, marks, history>>

CommitActivate(w) ==
    /\ Is(w, "activate")
    /\ req[w].new => term[req[w].term] = "none"     \* label and semester are unique
    /\ LET t == req[w].term IN
         /\ term' = [x \in Terms |-> IF x = t THEN "active"
                                     ELSE IF x \in req[w].seen THEN "inactive" ELSE term[x]]
         /\ overtaken' = (overtaken \ (req[w].seen \cup {t}))
                           \cup (IF req[w].fresh THEN {} ELSE {t})
    /\ Ends(w, {v \in Workers : Is(v, "activate")})
    /\ UNCHANGED <<removed, enrolment, marks, late, repeated>>

-----------------------------------------------------------------------------
(* Enrolment *)

removeClass(c) ==
    /\ c \notin removed
    /\ removed' = removed \cup {c}
    /\ UNCHANGED <<term, enrolment, marks, req, history>>

\* Mutant: enrolments in removed classes do not count.
EnrolledInLive(s) == \E c \in Classes \ removed : enrolment[<<s, c>>] = "active"

\* An enrolment of a removed class keeps a student from being enrolled again.
Enrolled(s) == \E c \in Classes : enrolment[<<s, c>>] = "active"

\* assignStudent and assignMultipleStudents.
BeginAssign(w, c) ==
    /\ c \notin removed
    /\ \E students \in SUBSET Students \ {{}} :
          /\ \A s \in students : ~Enrolled(s)
          /\ Begins(w, [op |-> "assign", class |-> c, students |-> students, fresh |-> TRUE])
    /\ UNCHANGED <<term, removed, enrolment, marks, history>>

CommitAssign(w) ==
    /\ Is(w, "assign")
    /\ LET rows == req[w].students \X {req[w].class} IN
         /\ enrolment' = [row \in DOMAIN enrolment |->
                            IF row \in rows THEN "active" ELSE enrolment[row]]
         /\ late' = IF req[w].fresh THEN late \ rows ELSE late \cup rows
    /\ Ends(w, {v \in Workers : Is(v, "assign") /\ req[v].students \cap req[w].students # {}})
    /\ UNCHANGED <<term, removed, marks, overtaken, repeated>>

BeginUnassign(w, s, c) ==
    /\ enrolment[<<s, c>>] = "active"
    /\ Begins(w, [op |-> "unassign", class |-> c, student |-> s])
    /\ UNCHANGED <<term, removed, enrolment, marks, history>>

\* Mutant: the row is given no status the schema has.
UnassignedAs(status) == "removed"

\* transferred, graduated or dropped.
Unassigned(status) == "ended"

CommitUnassign(w) ==
    /\ Is(w, "unassign")
    /\ LET row == <<req[w].student, req[w].class>> IN
         /\ enrolment' = [enrolment EXCEPT ![row] = Unassigned(@)]
         /\ late' = late \ {row}
    /\ Ends(w, {})
    /\ UNCHANGED <<term, removed, marks, overtaken, repeated>>

-----------------------------------------------------------------------------
(* Attendance *)

BeginMark(w, c, p) ==
    /\ c \notin removed
    /\ \E students \in SUBSET Students \ {{}} :
          /\ \A s \in students : enrolment[<<s, c>>] = "active"
          /\ Begins(w, [op |-> "check", students |-> students, period |-> p,
                        existing |-> {}, fresh |-> TRUE])
    /\ UNCHANGED <<term, removed, enrolment, marks, history>>

Marked(students, p) == {s \in students : marks[<<s, p>>] > 0}

\* The transaction looks for the records it is to update.
FindMarks(w) ==
    /\ Is(w, "check")
    /\ req' = [req EXCEPT ![w].op = "mark",
                          ![w].existing = Marked(req[w].students, req[w].period),
                          ![w].fresh = TRUE]
    /\ UNCHANGED <<term, removed, enrolment, marks, history>>

\* Mutant: no unique index on student, date and lesson.
AllowsAll(added, p) == TRUE

\* The index allows the new records.
UniqueAllows(added, p) == p = Homeroom \/ Marked(added, p) = {}

\* It updates those and inserts the others; a duplicate rolls all of them back.
CommitMarks(w) ==
    /\ Is(w, "mark")
    /\ LET added == req[w].students \ req[w].existing
           p == req[w].period IN
         IF UniqueAllows(added, p)
         THEN /\ marks' = [m \in DOMAIN marks |->
                             IF m \in added \X {p} THEN marks[m] + 1 ELSE marks[m]]
              /\ repeated' = IF req[w].fresh THEN repeated ELSE repeated \cup added
              /\ Ends(w, {v \in Workers : Is(v, "mark") /\ req[v].period = p
                                            /\ req[v].students \cap added # {}})
         ELSE Ends(w, {}) /\ UNCHANGED <<marks, repeated>>
    /\ UNCHANGED <<term, removed, enrolment, overtaken, late>>

-----------------------------------------------------------------------------
Init ==
    /\ term = [t \in Terms |-> "none"]
    /\ removed = {}
    /\ enrolment = [row \in Students \X Classes |-> "none"]
    /\ marks = [m \in Students \X Periods |-> 0]
    /\ req = [w \in Workers |-> NoRequest]
    /\ overtaken = {} /\ late = {} /\ repeated = {}

Next ==
    \/ \E t \in Terms : CreateInactive(t) \/ \E w \in Workers : BeginActivate(w, t)
    \/ \E c \in Classes : removeClass(c) \/ \E w \in Workers : BeginAssign(w, c)
    \/ \E w \in Workers, s \in Students, c \in Classes : BeginUnassign(w, s, c)
    \/ \E w \in Workers, c \in Classes, p \in Periods : BeginMark(w, c, p)
    \/ \E w \in Workers :
          \/ CommitActivate(w) \/ CommitAssign(w) \/ CommitUnassign(w)
          \/ FindMarks(w) \/ CommitMarks(w) \/ FailRequest(w)

Spec == Init /\ [][Next]_vars

-----------------------------------------------------------------------------
(* Properties *)

TypeOK ==
    /\ term \in [Terms -> TermStatus]
    /\ removed \subseteq Classes
    /\ enrolment \in [Students \X Classes -> EnrolmentStatus]
    /\ marks \in [Students \X Periods -> Nat]
    /\ req \in [Workers -> Request \cup {NoRequest}]
    /\ overtaken \subseteq Terms
    /\ late \subseteq Students \X Classes
    /\ repeated \subseteq Students

\* There is one active term at most, unless one of two was activated by a request that
\* another activation had overtaken.
OneActiveTerm ==
    \A s, t \in Terms :
        s # t /\ term[s] = "active" /\ term[t] = "active" => {s, t} \cap overtaken # {}

\* A student is in one class at most, removed ones included, unless one of two
\* enrolments was written after the other had overtaken its check.
OneClassPerStudent ==
    \A s \in Students, c, d \in Classes :
        c # d /\ enrolment[<<s, c>>] = "active" /\ enrolment[<<s, d>>] = "active" =>
            {<<s, c>>, <<s, d>>} \cap late # {}

\* A lesson has one mark per student, whoever saves it how often at once; the day of the
\* homeroom too, unless two saves both found no mark.
OneMark ==
    \A s \in Students, p \in Periods :
        marks[<<s, p>>] <= 1 \/ (p = Homeroom /\ s \in repeated)
=============================================================================
