------------------------------- MODULE Homeroom -------------------------------
(***************************************************************************)
(* Homeroom teachers: src/src/homeroom-assignments, and the homeroom side  *)
(* effect of a signed letter (src/src/contracts).                          *)
(*                                                                         *)
(* Who is the homeroom teacher of a class is stored twice: as the active   *)
(* assignment of the class, and as homeroomUserId on the class, which is   *)
(* what teachers are shown. create, deactivate and remove read the         *)
(* assignment first and write both in one transaction later; a letter      *)
(* writes both in three writes with no transaction; update edits the       *)
(* assignment alone. A partial unique index keeps a second active          *)
(* assignment out. A teacher profile and its user are one here (they are   *)
(* one to one).                                                            *)
(*                                                                         *)
(* History variable, never read by the actions: drifted, the classes whose *)
(* copy was written by a handler that was overtaken, or has yet to be      *)
(* written.                                                                *)
(***************************************************************************)
EXTENDS Naturals

CONSTANTS
    Rows,           \* identifiers of assignments
    Classes, Teachers, Years,
    NoRow,          \* an unused identifier, or no active assignment
    NoUser,         \* homeroomUserId is null
    Workers, NoRequest

Assignment == [class: Classes, teacher: Teachers, year: Years,
               active: BOOLEAN, deleted: BOOLEAN]

ASSUME HomeroomAssumption ==
    /\ NoRow \notin Rows \cup Assignment
    /\ NoUser \notin Teachers

VARIABLES
    assignment,     \* [Rows -> Assignment \cup {NoRow}]
    homeroom,       \* [Classes -> Teachers \cup {NoUser}], Classroom.homeroomUserId
    req,            \* [Workers -> Request \cup {NoRequest}]
    drifted         \* history: SUBSET Classes

vars == <<assignment, homeroom, req, drifted>>

-----------------------------------------------------------------------------
Request ==
    [op: {"create"}, class: Classes, teacher: Teachers, year: Years, replaces: Rows \cup {NoRow}]
      \cup [op: {"deactivate", "remove"}, row: Rows, class: Classes, wasActive: BOOLEAN]
      \cup [op: {"letter"}, step: {"end", "create", "point"}, row: Rows \cup {NoRow},
            class: Classes, teacher: Teachers, year: Years]

ASSUME NoRequestAssumption == NoRequest \notin Request

Stored(r) == assignment[r] # NoRow
Found(r) == Stored(r) /\ ~assignment[r].deleted
Active(r) == Found(r) /\ assignment[r].active
ActiveIn(c) == {r \in Rows : Active(r) /\ assignment[r].class = c}

\* homeroom_assignments_one_active_per_classroom_idx allows an active row for c once
\* the rows in ended have been ended.
UniqueActive(c, ended) == ActiveIn(c) \subseteq ended

Inserted(c, t, y) ==
    [class |-> c, teacher |-> t, year |-> y, active |-> TRUE, deleted |-> FALSE]

\* The assignments with those in `ended' ended.
Ended(ended) == [r \in Rows |->
    IF r \in ended THEN [assignment[r] EXCEPT !.active = FALSE] ELSE assignment[r]]

\* The class, other than c, that r has been moved to since a handler read it as c's.
MovedTo(r, c) == {k \in Classes \ {c} : r \in ActiveIn(k)}

Done(w) == req' = [req EXCEPT ![w] = NoRequest]

Pending(w, op) == req[w] # NoRequest /\ req[w].op = op

Begin(w, request) ==
    /\ req[w] = NoRequest
    /\ req' = [req EXCEPT ![w] = request]
    /\ UNCHANGED <<assignment, homeroom, drifted>>

-----------------------------------------------------------------------------
(* The homeroom service *)

BeginCreate(w, c, t, y) ==
    /\ \A r \in ActiveIn(c) : assignment[r].teacher # t
    /\ \E old \in IF ActiveIn(c) = {} THEN {NoRow} ELSE ActiveIn(c) :
          Begin(w, [op |-> "create", class |-> c, teacher |-> t, year |-> y, replaces |-> old])

\* Ends the assignment that was read, inserts the new one and writes the class.
CommitCreate(w, r) ==
    LET q == req[w] IN
    /\ Pending(w, "create")
    /\ ~Stored(r)
    /\ UniqueActive(q.class, {q.replaces})
    /\ assignment' = [Ended({q.replaces}) EXCEPT ![r] = Inserted(q.class, q.teacher, q.year)]
    /\ homeroom' = [homeroom EXCEPT ![q.class] = q.teacher]
    /\ drifted' = (drifted \ {q.class}) \cup MovedTo(q.replaces, q.class)
    /\ Done(w)

\* The index refuses the new row and the transaction is rolled back.
RefuseCreate(w) ==
    LET q == req[w] IN
    /\ Pending(w, "create")
    /\ ~UniqueActive(q.class, {q.replaces})
    /\ Done(w)
    /\ UNCHANGED <<assignment, homeroom, drifted>>

\* update moves an assignment to another class, teacher or year and leaves the class rows
\* alone.  What it reads first are references that never go away.
update(r, c, t, y) ==
    LET old == assignment[r] IN
    /\ Found(r)
    /\ old.active => UniqueActive(c, {r})
    /\ assignment' = [assignment EXCEPT ![r].class = c, ![r].teacher = t, ![r].year = y]
    /\ drifted' = IF old.active /\ <<c, t>> # <<old.class, old.teacher>>
                  THEN drifted \cup {old.class, c} ELSE drifted
    /\ UNCHANGED <<homeroom, req>>

\* deactivate and remove.
BeginEnd(w, r, op) ==
    /\ Found(r)
    /\ Begin(w, [op |-> op, row |-> r, class |-> assignment[r].class,
                 wasActive |-> assignment[r].active])

\* Mutant: the class is left alone.
ClearedNever(q) == homeroom

\* The class is cleared if the assignment was active when it was read.
Cleared(q) == IF q.wasActive THEN [homeroom EXCEPT ![q.class] = NoUser] ELSE homeroom

\* The assignment is still the active one of the class the handler read.
Current(r, c) == r \in ActiveIn(c)

CommitEnd(w) ==
    \E op \in {"deactivate", "remove"} :
        LET q == req[w] IN
        /\ Pending(w, op)
        /\ assignment' = [Ended({q.row}) EXCEPT ![q.row].deleted = @ \/ op = "remove"]
        /\ homeroom' = Cleared(q)
        /\ drifted' = IF ~q.wasActive THEN drifted
                      ELSE IF Current(q.row, q.class) THEN drifted \ {q.class}
                      ELSE drifted \cup {q.class} \cup MovedTo(q.row, q.class)
        /\ Done(w)

-----------------------------------------------------------------------------
(* The side effect of a signed homeroom letter: three writes, errors swallowed *)

BeginLetter(w, c, t, y) ==
    Begin(w, [op |-> "letter", step |-> "end", row |-> NoRow, class |-> c, teacher |-> t, year |-> y])

\* Only the assignments of the letter's own academic year are ended.
Superseded(q) == {r \in ActiveIn(q.class) : assignment[r].year = q.year}

LetterEnds(w) ==
    LET q == req[w] IN
    /\ Pending(w, "letter") /\ q.step = "end"
    /\ assignment' = Ended(Superseded(q))
    /\ drifted' = IF Superseded(q) = {} THEN drifted ELSE drifted \cup {q.class}
    /\ req' = [req EXCEPT ![w].step = "create"]
    /\ UNCHANGED homeroom

LetterCreates(w, r) ==
    LET q == req[w] IN
    /\ Pending(w, "letter") /\ q.step = "create"
    /\ ~Stored(r)
    /\ UniqueActive(q.class, {})
    /\ assignment' = [assignment EXCEPT ![r] = Inserted(q.class, q.teacher, q.year)]
    /\ drifted' = drifted \cup {q.class}
    /\ req' = [req EXCEPT ![w].step = "point", ![w].row = r]
    /\ UNCHANGED homeroom

\* Mutant: the assignment's id lands in the user column.
PointedToRow(q) == [homeroom EXCEPT ![q.class] = q.row]

Pointed(q) == [homeroom EXCEPT ![q.class] = q.teacher]

LetterPoints(w) ==
    LET q == req[w] IN
    /\ Pending(w, "letter") /\ q.step = "point"
    /\ homeroom' = Pointed(q)
    /\ drifted' = IF Current(q.row, q.class) /\ assignment[q.row].teacher = q.teacher
                  THEN drifted \ {q.class} ELSE drifted \cup {q.class}
    /\ Done(w)
    /\ UNCHANGED assignment

\* A write fails (the index is one reason) or the process dies: what was written stays.
Abandon(w) ==
    /\ req[w] # NoRequest
    /\ Done(w)
    /\ UNCHANGED <<assignment, homeroom, drifted>>

-----------------------------------------------------------------------------
Init ==
    /\ assignment = [r \in Rows |-> NoRow]
    /\ homeroom = [c \in Classes |-> NoUser]
    /\ req = [w \in Workers |-> NoRequest]
    /\ drifted = {}

Next ==
    \/ \E w \in Workers, c \in Classes, t \in Teachers, y \in Years :
          BeginCreate(w, c, t, y) \/ BeginLetter(w, c, t, y)
    \/ \E w \in Workers, r \in Rows :
          \/ CommitCreate(w, r) \/ LetterCreates(w, r)
          \/ \E op \in {"deactivate", "remove"} : BeginEnd(w, r, op)
    \/ \E r \in Rows, c \in Classes, t \in Teachers, y \in Years : update(r, c, t, y)
    \/ \E w \in Workers :
          RefuseCreate(w) \/ CommitEnd(w) \/ LetterEnds(w) \/ LetterPoints(w) \/ Abandon(w)

Spec == Init /\ [][Next]_vars

-----------------------------------------------------------------------------
(* Properties *)

TypeOK ==
    /\ assignment \in [Rows -> Assignment \cup {NoRow}]
    /\ homeroom \in [Classes -> Teachers \cup {NoUser}]
    /\ req \in [Workers -> Request \cup {NoRequest}]
    /\ drifted \subseteq Classes

\* A class has one homeroom teacher at most, however assignments, edits and letters
\* race for it.
OneHomeroomTeacher ==
    \A r, s \in Rows :
        r # s /\ Active(r) /\ Active(s) => assignment[r].class # assignment[s].class

\* What a class shows is who its active assignment names, and nobody when there is none,
\* unless the last to write the copy was overtaken by another request, a letter is or
\* stays half written, or the assignment was edited.
ShowsHomeroomTeacher ==
    \A c \in Classes \ drifted :
        /\ \A r \in ActiveIn(c) : homeroom[c] = assignment[r].teacher
        /\ ActiveIn(c) = {} => homeroom[c] = NoUser

\* A class has one homeroom teacher, and shows it.
HomeroomCoherent == OneHomeroomTeacher /\ ShowsHomeroomTeacher
=============================================================================
