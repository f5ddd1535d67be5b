---------------------------- MODULE HomeroomProofs ----------------------------
(***************************************************************************)
(* Proofs about Homeroom: types, one homeroom teacher a class, and the     *)
(* copy that the class shows.  Shape of the argument: what is inductive    *)
(* besides the two properties is that a request that is to end an          *)
(* assignment knows a stored one, and that an assignment it found ended    *)
(* has not become active since (HeldInv).                                  *)
(***************************************************************************)
EXTENDS Homeroom, TLAPS

HeldInv(w) ==
    /\ Pending(w, "create") /\ req[w].replaces # NoRow => Stored(req[w].replaces)
    /\ Pending(w, "deactivate") \/ Pending(w, "remove") =>
          /\ Stored(req[w].row)
          /\ ~req[w].wasActive => ~assignment[req[w].row].active

IInv == TypeOK /\ HomeroomCoherent /\ \A w \in Workers : HeldInv(w)

-----------------------------------------------------------------------------
(* Rows and requests *)

\* The fields of a stored assignment.
LEMMA StoredFields ==
    ASSUME TypeOK, NEW r \in Rows, Stored(r)
    PROVE  /\ assignment[r] \in Assignment
           /\ assignment[r].class \in Classes /\ assignment[r].teacher \in Teachers
           /\ assignment[r].year \in Years
           /\ assignment[r].active \in BOOLEAN /\ assignment[r].deleted \in BOOLEAN
BY DEF TypeOK, Stored, Assignment

\* A new row is a stored one.
LEMMA InsertedFields ==
    ASSUME NEW c \in Classes, NEW t \in Teachers, NEW y \in Years
    PROVE  /\ Inserted(c, t, y) \in Assignment /\ Inserted(c, t, y) # NoRow
           /\ Inserted(c, t, y).class = c /\ Inserted(c, t, y).teacher = t
           /\ Inserted(c, t, y).active = TRUE /\ Inserted(c, t, y).deleted = FALSE
<1>1. Inserted(c, t, y) \in Assignment  BY DEF Inserted, Assignment
<1>2. Inserted(c, t, y) # NoRow  BY <1>1, HomeroomAssumption
<1>3. /\ Inserted(c, t, y).class = c /\ Inserted(c, t, y).teacher = t
      /\ Inserted(c, t, y).active = TRUE /\ Inserted(c, t, y).deleted = FALSE
  BY DEF Inserted
<1>  QED  BY <1>1, <1>2, <1>3

\* Ending rows keeps who and where they are, and leaves the others alone.
LEMMA EndedRows ==
    ASSUME TypeOK, NEW ended, NEW r \in Rows, r \in ended => Stored(r)
    PROVE  /\ Ended(ended)[r] \in Assignment \cup {NoRow}
           /\ Ended(ended)[r] = NoRow <=> assignment[r] = NoRow
           /\ r \notin ended => Ended(ended)[r] = assignment[r]
           /\ r \in ended =>
                 /\ Ended(ended)[r].active = FALSE
                 /\ Ended(ended)[r].deleted = assignment[r].deleted
                 /\ Ended(ended)[r].class = assignment[r].class
                 /\ Ended(ended)[r].teacher = assignment[r].teacher
BY HomeroomAssumption DEF TypeOK, Ended, Stored, Assignment

\* What each kind of request holds.
LEMMA RequestFields ==
    ASSUME TypeOK, NEW w \in Workers, req[w] # NoRequest
    PROVE  /\ req[w].op \in {"create", "deactivate", "remove", "letter"}
           /\ req[w].class \in Classes
           /\ req[w].op = "create" => /\ req[w].teacher \in Teachers /\ req[w].year \in Years
                                      /\ req[w].replaces \in Rows \cup {NoRow}
           /\ req[w].op \in {"deactivate", "remove"} =>
                 req[w].row \in Rows /\ req[w].wasActive \in BOOLEAN
           /\ req[w].op = "letter" =>
                 /\ req[w].teacher \in Teachers /\ req[w].year \in Years
                 /\ req[w].row \in Rows \cup {NoRow}
                 /\ req[w].step \in {"end", "create", "point"}
                 /\ req[w] \in [op: {"letter"}, step: {"end", "create", "point"},
                                row: Rows \cup {NoRow}, class: Classes, teacher: Teachers,
                                year: Years]
<1>1. req[w] \in Request  BY DEF TypeOK
<1>  QED  BY <1>1 DEF Request

-----------------------------------------------------------------------------
(* How the active rows of a class may change *)

\* The rows and the copies of a class that is not drifted stay coherent if each active row of
\* it was active there before, with the same teacher, and none went, and the copy stayed.
LEMMA ClassUndisturbed ==
    ASSUME ShowsHomeroomTeacher, NEW c \in Classes \ drifted,
           ActiveIn(c)' = ActiveIn(c),
           \A r \in ActiveIn(c) : assignment'[r].teacher = assignment[r].teacher,
           homeroom'[c] = homeroom[c]
    PROVE  /\ \A r \in ActiveIn(c)' : homeroom'[c] = assignment'[r].teacher
           /\ ActiveIn(c)' = {} => homeroom'[c] = NoUser
BY DEF ShowsHomeroomTeacher

\* Requests keep what they know, if rows stay stored and the ended ones stay ended.
LEMMA HeldKept ==
    ASSUME TypeOK, NEW w \in Workers, HeldInv(w), req'[w] = req[w],
           \A r \in Rows : Stored(r) => Stored(r)' /\ (~assignment[r].active => ~assignment'[r].active)
    PROVE  HeldInv(w)'
<1>1. CASE Pending(w, "create") /\ req[w].replaces # NoRow
  <2>1. req[w].replaces \in Rows  BY <1>1, RequestFields DEF Pending
  <2>  QED  BY <1>1, <2>1 DEF HeldInv, Stored, Pending
<1>2. CASE Pending(w, "deactivate") \/ Pending(w, "remove")
  <2>1. req[w].row \in Rows  BY <1>2, RequestFields DEF Pending
  <2>  QED  BY <1>2, <2>1 DEF HeldInv, Stored, Pending
<1>  QED  BY <1>1, <1>2 DEF HeldInv, Pending

-----------------------------------------------------------------------------
(* The inductive step, one lemma for each kind of action *)

\* Requests that begin change no row; what a new one knows is what it read.
LEMMA BeginPreserves ==
    ASSUME IInv, NEW w \in Workers, NEW q \in Request, Begin(w, q),
           q.op = "create" /\ q.replaces # NoRow => Stored(q.replaces),
           q.op \in {"deactivate", "remove"} =>
              Stored(q.row) /\ (~q.wasActive => ~assignment[q.row].active)
    PROVE  IInv'
<1>  USE DEF IInv
<1>1. TypeOK'  BY DEF TypeOK, Begin
<1>2. HomeroomCoherent'
  BY DEF Begin, HomeroomCoherent, OneHomeroomTeacher, ShowsHomeroomTeacher, Active, Found,
         Stored, ActiveIn
<1>3. ASSUME NEW v \in Workers  PROVE HeldInv(v)'
  <2>1. CASE v = w
    <3>1. req'[w] = q /\ assignment' = assignment  BY DEF Begin, TypeOK
    <3>  QED  BY <2>1, <3>1 DEF HeldInv, Pending, Stored
  <2>2. CASE v # w
    BY <2>2, HeldKept DEF Begin, TypeOK, Stored
  <2>  QED  BY <2>1, <2>2
<1>  QED  BY <1>1, <1>2, <1>3

\* A request that is refused or lost.
LEMMA QuitPreserves ==
    ASSUME IInv, NEW w \in Workers, Done(w), UNCHANGED <<assignment, homeroom, drifted>>
    PROVE  IInv'
<1>  USE DEF IInv
<1>1. TypeOK'  BY DEF TypeOK, Done
<1>2. HomeroomCoherent'
  BY DEF HomeroomCoherent, OneHomeroomTeacher, ShowsHomeroomTeacher, Active, Found, Stored,
         ActiveIn
<1>3. ASSUME NEW v \in Workers  PROVE HeldInv(v)'
  <2>1. req'[v] = NoRequest \/ req'[v] = req[v]  BY DEF Done, TypeOK
  <2>2. CASE req'[v] = NoRequest  BY <2>2 DEF HeldInv, Pending
  <2>3. CASE req'[v] = req[v]  BY <2>3, HeldKept DEF Stored
  <2>  QED  BY <2>1, <2>2, <2>3
<1>  QED  BY <1>1, <1>2, <1>3

\* create: the row that was read is ended, wherever it is now, and the new one is the only
\* active row of its class, by the index.
LEMMA CommitCreatePreserves ==
    ASSUME IInv, NEW w \in Workers, NEW r \in Rows, CommitCreate(w, r)
    PROVE  IInv'
<1>  USE DEF IInv
<1>  DEFINE q == req[w]
            new == Inserted(q.class, q.teacher, q.year)
<1>1. /\ req[w] # NoRequest /\ q.op = "create" /\ q.class \in Classes /\ q.teacher \in Teachers
      /\ q.year \in Years /\ q.replaces \in Rows \cup {NoRow}
      /\ q.replaces # NoRow => Stored(q.replaces)
  BY RequestFields DEF CommitCreate, Pending, HeldInv
<1>2. /\ new \in Assignment /\ new # NoRow /\ new.class = q.class /\ new.teacher = q.teacher
      /\ new.active = TRUE /\ new.deleted = FALSE
  <2>1. q.class \in Classes /\ q.teacher \in Teachers /\ q.year \in Years  BY <1>1
  <2>  HIDE DEF q
  <2>2. new \in Assignment /\ new # NoRow  BY <2>1, InsertedFields
  <2>3. new.class = q.class /\ new.teacher = q.teacher  BY DEF Inserted
  <2>4. new.active = TRUE /\ new.deleted = FALSE  BY DEF Inserted
  <2>  QED  BY <2>2, <2>3, <2>4
<1>3. \A s \in Rows : assignment'[s] = IF s = r THEN new ELSE Ended({q.replaces})[s]
  BY DEF CommitCreate, Ended
<1>4. q.replaces # r /\ NoRow \notin Rows  BY <1>1, HomeroomAssumption DEF CommitCreate
<1>5. ASSUME NEW s \in Rows, s # r
      PROVE  /\ assignment'[s] \in Assignment \cup {NoRow}
             /\ Stored(s)' <=> Stored(s)
             /\ s # q.replaces => assignment'[s] = assignment[s]
             /\ s = q.replaces =>
                   /\ assignment'[s].active = FALSE
                   /\ assignment'[s].class = assignment[s].class
                   /\ assignment'[s].teacher = assignment[s].teacher
  <2>1. s \in {q.replaces} => Stored(s)  BY <1>1, <1>4
  <2>2. assignment'[s] = Ended({q.replaces})[s]  BY <1>3, <1>5
  <2>3. /\ Ended({q.replaces})[s] \in Assignment \cup {NoRow}
        /\ Ended({q.replaces})[s] = NoRow <=> assignment[s] = NoRow
        /\ s \notin {q.replaces} => Ended({q.replaces})[s] = assignment[s]
        /\ s \in {q.replaces} =>
              /\ Ended({q.replaces})[s].active = FALSE
              /\ Ended({q.replaces})[s].class = assignment[s].class
              /\ Ended({q.replaces})[s].teacher = assignment[s].teacher
    BY <2>1, EndedRows, Zenon
  <2>  HIDE DEF q
  <2>  QED  BY <2>2, <2>3 DEF Stored
<1>6. /\ \A s \in Rows \ {r} : Active(s)' <=> Active(s) /\ s # q.replaces
      /\ \A s \in Rows \ {r} : Active(s)' => assignment'[s] = assignment[s]
  BY <1>5 DEF Active, Found, Stored
<1>7. Active(r)' /\ assignment'[r] = new
  BY <1>2, <1>3 DEF Active, Found, Stored
<1>8. /\ \A s \in Rows : Active(s) /\ assignment[s].class = q.class => s = q.replaces
      /\ ~Active(r)
  BY DEF CommitCreate, UniqueActive, ActiveIn, Active, Found
<1>9. TypeOK'
  <2>1. assignment' \in [Rows -> Assignment \cup {NoRow}]
    BY <1>2, <1>5, <1>7 DEF CommitCreate, Ended
  <2>2. homeroom' \in [Classes -> Teachers \cup {NoUser}]  BY <1>1 DEF CommitCreate, TypeOK
  <2>3. req' \in [Workers -> Request \cup {NoRequest}]  BY DEF CommitCreate, Done, TypeOK
  <2>4. drifted' \subseteq Classes  BY DEF CommitCreate, MovedTo, TypeOK
  <2>  QED  BY <2>1, <2>2, <2>3, <2>4 DEF TypeOK
<1>10. OneHomeroomTeacher'
  BY <1>2, <1>6, <1>7, <1>8 DEF OneHomeroomTeacher, HomeroomCoherent
<1>11. ASSUME NEW c \in Classes, c \notin drifted'
       PROVE  /\ \A s \in ActiveIn(c)' : homeroom'[c] = assignment'[s].teacher
              /\ ActiveIn(c)' = {} => homeroom'[c] = NoUser
  <2>1. CASE c = q.class
    <3>1. ActiveIn(c)' = {r}  BY <1>2, <1>6, <1>7, <1>8, <2>1 DEF ActiveIn
    <3>2. homeroom'[c] = q.teacher  BY <2>1 DEF CommitCreate, TypeOK
    <3>  QED  BY <1>2, <1>7, <3>1, <3>2
  <2>2. CASE c # q.class
    <3>1. c \notin drifted /\ q.replaces \notin ActiveIn(c)
      BY <1>11, <2>2 DEF CommitCreate, MovedTo
    <3>2. ActiveIn(c)' = ActiveIn(c)
      BY <1>2, <1>6, <1>7, <1>8, <2>2, <3>1 DEF ActiveIn
    <3>3. \A s \in ActiveIn(c) : assignment'[s].teacher = assignment[s].teacher
      BY <1>6, <1>8, <3>1 DEF ActiveIn
    <3>4. homeroom'[c] = homeroom[c]  BY <2>2 DEF CommitCreate, TypeOK
    <3>  QED  BY <3>1, <3>2, <3>3, <3>4, ClassUndisturbed DEF HomeroomCoherent
  <2>  QED  BY <2>1, <2>2
<1>12. ASSUME NEW v \in Workers  PROVE HeldInv(v)'
  <2>1. CASE v = w
    <3>1. req'[w] = NoRequest  BY DEF CommitCreate, Done, TypeOK
    <3>  QED  BY <2>1, <3>1 DEF HeldInv, Pending
  <2>2. CASE v # w
    <3>1. req'[v] = req[v]  BY <2>2 DEF CommitCreate, Done, TypeOK
    <3>2. \A s \in Rows : Stored(s) =>
             Stored(s)' /\ (~assignment[s].active => ~assignment'[s].active)
      BY <1>5 DEF CommitCreate, Stored
    <3>  QED  BY <3>1, <3>2, HeldKept
  <2>  QED  BY <2>1, <2>2
<1>  QED  BY <1>9, <1>10, <1>11, <1>12 DEF HomeroomCoherent, ShowsHomeroomTeacher

\* The requests other than w keep what they know, and w is over or a letter.
LEMMA HeldStep ==
    ASSUME TypeOK, \A v \in Workers : HeldInv(v), NEW w \in Workers,
           \A v \in Workers \ {w} : req'[v] = req[v],
           req'[w] = NoRequest \/ req'[w].op = "letter",
           \A s \in Rows : Stored(s) => Stored(s)' /\ (~assignment[s].active => ~assignment'[s].active)
    PROVE  \A v \in Workers : HeldInv(v)'
<1>1. ASSUME NEW v \in Workers, v # w  PROVE HeldInv(v)'  BY <1>1, HeldKept
<1>2. HeldInv(w)'  BY DEF HeldInv, Pending
<1>  QED  BY <1>1, <1>2

\* deactivate and remove: the row that was read is ended, wherever it is now, and the class
\* it was read in is cleared.
LEMMA CommitEndPreserves ==
    ASSUME IInv, NEW w \in Workers, CommitEnd(w)
    PROVE  IInv'
<1>  USE DEF IInv
<1>  DEFINE q == req[w]
<1>1. PICK op \in {"deactivate", "remove"} :
         /\ Pending(w, op)
         /\ assignment' = [Ended({q.row}) EXCEPT ![q.row].deleted = @ \/ op = "remove"]
  BY DEF CommitEnd
<1>2. /\ q.row \in Rows /\ q.class \in Classes /\ q.wasActive \in BOOLEAN
      /\ Stored(q.row) /\ (~q.wasActive => ~assignment[q.row].active)
  BY <1>1, RequestFields DEF Pending, HeldInv
<1>3. /\ homeroom' = Cleared(q)
      /\ drifted' = IF ~q.wasActive THEN drifted
                    ELSE IF Current(q.row, q.class) THEN drifted \ {q.class}
                    ELSE drifted \cup {q.class} \cup MovedTo(q.row, q.class)
      /\ Done(w)
  BY DEF CommitEnd
<1>  HIDE DEF q
<1>4. /\ assignment' \in [Rows -> Assignment \cup {NoRow}]
      /\ \A s \in Rows \ {q.row} : assignment'[s] = assignment[s]
      /\ assignment'[q.row] # NoRow /\ assignment'[q.row].active = FALSE
  <2>1. assignment[q.row] \in Assignment  BY <1>2, StoredFields
  <2>2. assignment'[q.row] = [[assignment[q.row] EXCEPT !.active = FALSE]
                                EXCEPT !.deleted = @ \/ op = "remove"]
    BY <1>1, <1>2 DEF Ended
  <2>3. assignment'[q.row] \in Assignment /\ assignment'[q.row].active = FALSE
    BY <2>1, <2>2 DEF Assignment
  <2>4. \A s \in Rows \ {q.row} : assignment'[s] = assignment[s]  BY <1>1 DEF Ended
  <2>5. assignment' = [s \in Rows |-> assignment'[s]]  BY <1>1 DEF Ended
  <2>6. \A s \in Rows : assignment'[s] \in Assignment \cup {NoRow}  BY <2>3, <2>4 DEF TypeOK
  <2>7. assignment' \in [Rows -> Assignment \cup {NoRow}]  BY <2>5, <2>6
  <2>8. assignment'[q.row] # NoRow  BY <2>3, HomeroomAssumption
  <2>  QED  BY <2>3, <2>4, <2>7, <2>8
<1>5. \A s \in Rows : /\ Active(s)' <=> Active(s) /\ s # q.row
                      /\ Active(s)' => assignment'[s] = assignment[s]
  BY <1>2, <1>4 DEF Active, Found, Stored
<1>6. TypeOK'
  <2>1. homeroom' \in [Classes -> Teachers \cup {NoUser}]  BY <1>2, <1>3 DEF Cleared, TypeOK
  <2>2. req' \in [Workers -> Request \cup {NoRequest}]  BY <1>3 DEF Done, TypeOK
  <2>3. drifted' \subseteq Classes  BY <1>2, <1>3 DEF MovedTo, TypeOK
  <2>  QED  BY <1>4, <2>1, <2>2, <2>3 DEF TypeOK
<1>7. OneHomeroomTeacher'  BY <1>5 DEF OneHomeroomTeacher, HomeroomCoherent
<1>8. ASSUME NEW c \in Classes, c \notin drifted'
      PROVE  /\ \A s \in ActiveIn(c)' : homeroom'[c] = assignment'[s].teacher
             /\ ActiveIn(c)' = {} => homeroom'[c] = NoUser
  <2>1. CASE q.wasActive /\ Current(q.row, q.class) /\ c = q.class
    <3>1. \A s \in ActiveIn(c) : s = q.row
      BY <2>1 DEF ActiveIn, Current, OneHomeroomTeacher, HomeroomCoherent
    <3>2. ActiveIn(c)' = {}  BY <1>5, <3>1 DEF ActiveIn
    <3>3. homeroom'[c] = NoUser  BY <1>2, <1>3, <2>1 DEF Cleared, TypeOK
    <3>  QED  BY <3>2, <3>3
  <2>2. CASE ~(q.wasActive /\ Current(q.row, q.class) /\ c = q.class)
    <3>1. c \notin drifted /\ q.row \notin ActiveIn(c)
      BY <1>2, <1>3, <1>8, <2>2 DEF MovedTo, Current, ActiveIn, Active
    <3>2. ActiveIn(c)' = ActiveIn(c)  BY <1>5, <3>1 DEF ActiveIn
    <3>3. \A s \in ActiveIn(c) : assignment'[s].teacher = assignment[s].teacher
      BY <1>5, <3>2 DEF ActiveIn
    <3>4. homeroom'[c] = homeroom[c]  BY <1>2, <1>3, <1>8, <2>2 DEF Cleared, TypeOK
    <3>  QED  BY <3>1, <3>2, <3>3, <3>4, ClassUndisturbed DEF HomeroomCoherent
  <2>  QED  BY <2>1, <2>2
<1>9. \A v \in Workers : HeldInv(v)'
  <2>1. \A v \in Workers \ {w} : req'[v] = req[v]  BY <1>3 DEF Done, TypeOK
  <2>2. req'[w] = NoRequest  BY <1>3 DEF Done, TypeOK
  <2>3. ASSUME NEW s \in Rows, Stored(s)
        PROVE  Stored(s)' /\ (~assignment[s].active => ~assignment'[s].active)
    <3>1. CASE s = q.row  BY <1>4, <3>1 DEF Stored
    <3>2. CASE s # q.row  BY <1>4, <2>3, <3>2 DEF Stored
    <3>  QED  BY <3>1, <3>2
  <2>  QED  BY <2>1, <2>2, <2>3, HeldStep
<1>  QED  BY <1>6, <1>7, <1>8, <1>9 DEF HomeroomCoherent, ShowsHomeroomTeacher

\* update: the index keeps an active assignment out of a class that has one, and a class that
\* is left or entered is drifted.
LEMMA UpdatePreserves ==
    ASSUME IInv, NEW r \in Rows, NEW c \in Classes, NEW t \in Teachers, NEW y \in Years,
           update(r, c, t, y)
    PROVE  IInv'
<1>  USE DEF IInv
<1>1. Found(r) /\ Stored(r) /\ assignment[r] \in Assignment  BY StoredFields DEF update, Found
<1>2. /\ assignment' \in [Rows -> Assignment \cup {NoRow}]
      /\ \A s \in Rows \ {r} : assignment'[s] = assignment[s]
      /\ Stored(r)' /\ assignment'[r].class = c /\ assignment'[r].teacher = t
      /\ (assignment'[r].active <=> assignment[r].active)
      /\ (assignment'[r].deleted <=> assignment[r].deleted)
  <2>1. assignment'[r] = [[[assignment[r] EXCEPT !.class = c] EXCEPT !.teacher = t]
                            EXCEPT !.year = y]
    BY DEF update, TypeOK
  <2>2. assignment'[r] \in Assignment  BY <1>1, <2>1 DEF Assignment
  <2>3. \A s \in Rows \ {r} : assignment'[s] = assignment[s]  BY DEF update, TypeOK
  <2>4. assignment' = [s \in Rows |-> assignment'[s]]  BY DEF update, TypeOK
  <2>5. /\ assignment'[r].class = c /\ assignment'[r].teacher = t
        /\ (assignment'[r].active <=> assignment[r].active)
        /\ (assignment'[r].deleted <=> assignment[r].deleted)
    BY <1>1, <2>1 DEF Assignment
  <2>6. assignment' \in [Rows -> Assignment \cup {NoRow}]  BY <2>2, <2>3, <2>4 DEF TypeOK
  <2>7. Stored(r)'  BY <2>2, HomeroomAssumption DEF Stored
  <2>  QED  BY <2>3, <2>5, <2>6, <2>7
<1>3. \A s \in Rows : /\ Active(s)' <=> Active(s)
                      /\ s # r => assignment'[s] = assignment[s]
  BY <1>1, <1>2 DEF Active, Found, Stored
<1>4. TypeOK'  BY <1>1, <1>2 DEF update, TypeOK, Assignment
<1>5. OneHomeroomTeacher'
  <2>1. Active(r) => \A s \in Rows : Active(s) /\ assignment[s].class = c => s = r
    BY DEF update, UniqueActive, ActiveIn, Active
  <2>  QED  BY <1>2, <1>3, <2>1 DEF OneHomeroomTeacher, HomeroomCoherent
<1>6. ASSUME NEW k \in Classes, k \notin drifted'
      PROVE  /\ \A s \in ActiveIn(k)' : homeroom'[k] = assignment'[s].teacher
             /\ ActiveIn(k)' = {} => homeroom'[k] = NoUser
  <2>1. /\ k \notin drifted
        /\ Active(r) => \/ k # assignment[r].class /\ k # c
                        \/ c = assignment[r].class /\ t = assignment[r].teacher
    BY <1>6 DEF update, Active
  <2>2. ActiveIn(k)' = ActiveIn(k)  BY <1>2, <1>3, <2>1 DEF ActiveIn
  <2>3. \A s \in ActiveIn(k) : assignment'[s].teacher = assignment[s].teacher
    BY <1>2, <1>3, <2>1 DEF ActiveIn
  <2>4. homeroom'[k] = homeroom[k]  BY DEF update
  <2>  QED  BY <2>1, <2>2, <2>3, <2>4, ClassUndisturbed DEF HomeroomCoherent
<1>7. ASSUME NEW v \in Workers  PROVE HeldInv(v)'
  <2>1. \A s \in Rows : Stored(s) => Stored(s)' /\ (~assignment[s].active => ~assignment'[s].active)
    BY <1>2 DEF Stored
  <2>  QED  BY <2>1, HeldKept DEF update
<1>  QED  BY <1>4, <1>5, <1>6, <1>7 DEF HomeroomCoherent, ShowsHomeroomTeacher

\* A letter ends the assignments of its own year: none of another class.
LEMMA LetterEndsPreserves ==
    ASSUME IInv, NEW w \in Workers, LetterEnds(w)
    PROVE  IInv'
<1>  USE DEF IInv
<1>  DEFINE q == req[w]
            ended == Superseded(q)
<1>1. /\ q # NoRequest /\ q.op = "letter" /\ q.class \in Classes
      /\ q \in [op: {"letter"}, step: {"end", "create", "point"}, row: Rows \cup {NoRow},
                class: Classes, teacher: Teachers, year: Years]
  BY RequestFields DEF LetterEnds, Pending
<1>2. /\ assignment' = Ended(ended) /\ homeroom' = homeroom
      /\ drifted' = IF ended = {} THEN drifted ELSE drifted \cup {q.class}
      /\ req' = [req EXCEPT ![w] = [q EXCEPT !.step = "create"]]
  BY DEF LetterEnds
<1>3. \A s \in ended : s \in ActiveIn(q.class) /\ Active(s) /\ Stored(s)
  BY DEF Superseded, ActiveIn, Active, Found
<1>  HIDE DEF q, ended
<1>4. ASSUME NEW s \in Rows
      PROVE  /\ assignment'[s] \in Assignment \cup {NoRow}
             /\ Stored(s)' <=> Stored(s)
             /\ s \notin ended => assignment'[s] = assignment[s]
             /\ s \in ended => assignment'[s].active = FALSE
  BY <1>2, <1>3, EndedRows DEF Stored
<1>5. \A s \in Rows : /\ Active(s)' <=> Active(s) /\ s \notin ended
                      /\ Active(s)' => assignment'[s] = assignment[s]
  BY <1>4 DEF Active, Found, Stored
<1>6. req'[w].op = "letter" /\ req'[w] \in Request /\ \A v \in Workers \ {w} : req'[v] = req[v]
  BY <1>1, <1>2 DEF TypeOK, Request
<1>7. TypeOK'
  <2>1. assignment' \in [Rows -> Assignment \cup {NoRow}]  BY <1>2, <1>4 DEF Ended
  <2>2. req' \in [Workers -> Request \cup {NoRequest}]  BY <1>2, <1>6 DEF TypeOK
  <2>  QED  BY <1>1, <1>2, <2>1, <2>2 DEF TypeOK
<1>8. OneHomeroomTeacher'  BY <1>5 DEF OneHomeroomTeacher, HomeroomCoherent
<1>9. ASSUME NEW c \in Classes, c \notin drifted'
      PROVE  /\ \A s \in ActiveIn(c)' : homeroom'[c] = assignment'[s].teacher
             /\ ActiveIn(c)' = {} => homeroom'[c] = NoUser
  <2>1. c \notin drifted /\ \A s \in ended : s \notin ActiveIn(c)
    BY <1>2, <1>3, <1>9 DEF ActiveIn
  <2>2. ActiveIn(c)' = ActiveIn(c)  BY <1>5, <2>1 DEF ActiveIn
  <2>3. \A s \in ActiveIn(c) : assignment'[s].teacher = assignment[s].teacher
    BY <1>5, <2>2 DEF ActiveIn
  <2>  QED  BY <1>2, <2>1, <2>2, <2>3, ClassUndisturbed DEF HomeroomCoherent
<1>10. \A v \in Workers : HeldInv(v)'
  <2>1. ASSUME NEW s \in Rows, Stored(s)
        PROVE  Stored(s)' /\ (~assignment[s].active => ~assignment'[s].active)
    BY <1>4, <2>1
  <2>  QED  BY <1>6, <2>1, HeldStep
<1>  QED  BY <1>7, <1>8, <1>9, <1>10 DEF HomeroomCoherent, ShowsHomeroomTeacher

\* The new assignment of a letter finds its class empty, by the index.
LEMMA LetterCreatesPreserves ==
    ASSUME IInv, NEW w \in Workers, NEW r \in Rows, LetterCreates(w, r)
    PROVE  IInv'
<1>  USE DEF IInv
<1>  DEFINE q == req[w]
            new == Inserted(q.class, q.teacher, q.year)
<1>1. /\ q # NoRequest /\ q.op = "letter" /\ q.class \in Classes
      /\ q.teacher \in Teachers /\ q.year \in Years
      /\ q \in [op: {"letter"}, step: {"end", "create", "point"}, row: Rows \cup {NoRow},
                class: Classes, teacher: Teachers, year: Years]
  BY RequestFields DEF LetterCreates, Pending
<1>2. /\ assignment' = [assignment EXCEPT ![r] = new] /\ homeroom' = homeroom
      /\ drifted' = drifted \cup {q.class} /\ ~Stored(r)
      /\ req' = [req EXCEPT ![w] = [[q EXCEPT !.step = "point"] EXCEPT !.row = r]]
  BY DEF LetterCreates
<1>3. \A s \in Rows : Active(s) => assignment[s].class # q.class
  BY DEF LetterCreates, UniqueActive, ActiveIn
<1>  HIDE DEF q
<1>4. /\ new \in Assignment /\ new # NoRow /\ new.class = q.class
      /\ new.active = TRUE /\ new.deleted = FALSE
  <2>1. q.class \in Classes /\ q.teacher \in Teachers /\ q.year \in Years  BY <1>1
  <2>2. new \in Assignment /\ new # NoRow  BY <2>1, InsertedFields
  <2>3. new.class = q.class /\ new.active = TRUE /\ new.deleted = FALSE  BY DEF Inserted
  <2>  QED  BY <2>2, <2>3
<1>5. assignment'[r] = new /\ \A s \in Rows \ {r} : assignment'[s] = assignment[s]
  BY <1>2 DEF TypeOK
<1>6. /\ \A s \in Rows \ {r} : Active(s)' <=> Active(s)
      /\ ~Active(r)
  BY <1>2, <1>5 DEF Active, Found, Stored
<1>7. req'[w].op = "letter" /\ req'[w] \in Request /\ \A v \in Workers \ {w} : req'[v] = req[v]
  BY <1>1, <1>2 DEF TypeOK, Request
<1>8. TypeOK'
  <2>1. assignment' \in [Rows -> Assignment \cup {NoRow}]  BY <1>2, <1>4 DEF TypeOK
  <2>2. req' \in [Workers -> Request \cup {NoRequest}]  BY <1>2, <1>7 DEF TypeOK
  <2>  QED  BY <1>1, <1>2, <2>1, <2>2 DEF TypeOK
<1>9. OneHomeroomTeacher'
  BY <1>3, <1>4, <1>5, <1>6 DEF OneHomeroomTeacher, HomeroomCoherent
<1>10. ASSUME NEW c \in Classes, c \notin drifted'
       PROVE  /\ \A s \in ActiveIn(c)' : homeroom'[c] = assignment'[s].teacher
              /\ ActiveIn(c)' = {} => homeroom'[c] = NoUser
  <2>1. c \notin drifted /\ c # q.class  BY <1>2, <1>10
  <2>2. ActiveIn(c)' = ActiveIn(c)  BY <1>4, <1>5, <1>6, <2>1 DEF ActiveIn
  <2>3. \A s \in ActiveIn(c) : assignment'[s].teacher = assignment[s].teacher
    BY <1>5, <1>6 DEF ActiveIn
  <2>  QED  BY <1>2, <2>1, <2>2, <2>3, ClassUndisturbed DEF HomeroomCoherent
<1>11. \A v \in Workers : HeldInv(v)'
  <2>1. ASSUME NEW s \in Rows, Stored(s)
        PROVE  Stored(s)' /\ (~assignment[s].active => ~assignment'[s].active)
    BY <1>2, <1>5, <2>1 DEF Stored
  <2>  QED  BY <1>7, <2>1, HeldStep
<1>  QED  BY <1>8, <1>9, <1>10, <1>11 DEF HomeroomCoherent, ShowsHomeroomTeacher

\* The last write of a letter makes the class show its teacher, and the class is coherent if
\* the letter's assignment is still there.
LEMMA LetterPointsPreserves ==
    ASSUME IInv, NEW w \in Workers, LetterPoints(w)
    PROVE  IInv'
<1>  USE DEF IInv
<1>  DEFINE q == req[w]
<1>1. q.class \in Classes /\ q.teacher \in Teachers
  BY RequestFields DEF LetterPoints, Pending
<1>2. /\ homeroom' = [homeroom EXCEPT ![q.class] = q.teacher] /\ assignment' = assignment
      /\ drifted' = IF Current(q.row, q.class) /\ assignment[q.row].teacher = q.teacher
                    THEN drifted \ {q.class} ELSE drifted \cup {q.class}
      /\ Done(w)
  BY DEF LetterPoints, Pointed
<1>  HIDE DEF q
<1>3. TypeOK'  BY <1>1, <1>2 DEF TypeOK, Done
<1>4. OneHomeroomTeacher' /\ \A c \in Classes : ActiveIn(c)' = ActiveIn(c)
  BY <1>2 DEF OneHomeroomTeacher, HomeroomCoherent, ActiveIn, Active, Found, Stored
<1>5. ASSUME NEW c \in Classes, c \notin drifted'
      PROVE  /\ \A s \in ActiveIn(c)' : homeroom'[c] = assignment'[s].teacher
             /\ ActiveIn(c)' = {} => homeroom'[c] = NoUser
  <2>1. CASE c = q.class
    <3>1. q.row \in ActiveIn(c) /\ assignment[q.row].teacher = q.teacher
      BY <1>2, <1>5, <2>1 DEF Current
    <3>2. \A s \in ActiveIn(c) : s = q.row
      BY <3>1 DEF ActiveIn, OneHomeroomTeacher, HomeroomCoherent
    <3>3. homeroom'[c] = q.teacher  BY <1>2, <2>1 DEF TypeOK
    <3>  QED  BY <1>2, <1>4, <3>1, <3>2, <3>3
  <2>2. CASE c # q.class
    <3>1. c \notin drifted /\ homeroom'[c] = homeroom[c]  BY <1>2, <1>5, <2>2 DEF TypeOK
    <3>  QED  BY <1>2, <1>4, <3>1 DEF HomeroomCoherent, ShowsHomeroomTeacher
  <2>  QED  BY <2>1, <2>2
<1>6. \A v \in Workers : HeldInv(v)'
  <2>1. req'[w] = NoRequest /\ \A v \in Workers \ {w} : req'[v] = req[v]
    BY <1>2 DEF Done, TypeOK
  <2>2. \A s \in Rows : Stored(s) => Stored(s)' /\ (~assignment[s].active => ~assignment'[s].active)
    BY <1>2 DEF Stored
  <2>  QED  BY <2>1, <2>2, HeldStep
<1>  QED  BY <1>3, <1>4, <1>5, <1>6 DEF HomeroomCoherent, ShowsHomeroomTeacher

-----------------------------------------------------------------------------
(* The theorems *)

\* Nothing is stored at first.
LEMMA InitInductive == Init => IInv
<1>  SUFFICES ASSUME Init  PROVE IInv  OBVIOUS
<1>1. TypeOK  BY DEF Init, TypeOK
<1>2. \A r \in Rows : ~Stored(r) /\ ~Active(r)  BY DEF Init, Stored, Active, Found
<1>3. \A c \in Classes : ActiveIn(c) = {} /\ homeroom[c] = NoUser
  BY <1>2 DEF Init, ActiveIn
<1>4. HomeroomCoherent
  BY <1>2, <1>3 DEF HomeroomCoherent, OneHomeroomTeacher, ShowsHomeroomTeacher
<1>5. \A w \in Workers : HeldInv(w)  BY DEF Init, HeldInv, Pending
<1>  QED  BY <1>1, <1>4, <1>5 DEF IInv

\* Every step keeps the invariant.
LEMMA NextInductive == IInv /\ [Next]_vars => IInv'
<1>  SUFFICES ASSUME IInv, [Next]_vars  PROVE IInv'  OBVIOUS
<1>1. ASSUME NEW w \in Workers, NEW c \in Classes, NEW t \in Teachers, NEW y \in Years,
             BeginCreate(w, c, t, y)
      PROVE  IInv'
  <2>1. PICK old \in IF ActiveIn(c) = {} THEN {NoRow} ELSE ActiveIn(c) :
          Begin(w, [op |-> "create", class |-> c, teacher |-> t, year |-> y, replaces |-> old])
    BY <1>1 DEF BeginCreate
  <2>2. old \in Rows \cup {NoRow} /\ (old # NoRow => Stored(old))
    BY DEF ActiveIn, Active, Found
  <2>  DEFINE q == [op |-> "create", class |-> c, teacher |-> t, year |-> y, replaces |-> old]
  <2>3. q \in Request /\ q.op = "create" /\ q.replaces = old  BY <2>2 DEF Request
  <2>4. Begin(w, q)  BY <2>1
  <2>  HIDE DEF q
  <2>  QED  BY <2>2, <2>3, <2>4, BeginPreserves
<1>2. ASSUME NEW w \in Workers, NEW c \in Classes, NEW t \in Teachers, NEW y \in Years,
             BeginLetter(w, c, t, y)
      PROVE  IInv'
  <2>  DEFINE q == [op |-> "letter", step |-> "end", row |-> NoRow, class |-> c, teacher |-> t,
                    year |-> y]
  <2>1. q \in Request /\ q.op = "letter"  BY DEF Request
  <2>2. Begin(w, q)  BY <1>2 DEF BeginLetter
  <2>  HIDE DEF q
  <2>  QED  BY <2>1, <2>2, BeginPreserves
<1>3. ASSUME NEW w \in Workers, NEW r \in Rows, NEW op \in {"deactivate", "remove"},
             BeginEnd(w, r, op)
      PROVE  IInv'
  <2>  DEFINE q == [op |-> op, row |-> r, class |-> assignment[r].class,
                    wasActive |-> assignment[r].active]
  <2>1. Stored(r) /\ assignment[r].class \in Classes /\ assignment[r].active \in BOOLEAN
    BY <1>3, StoredFields DEF BeginEnd, Found, IInv
  <2>2. /\ q \in Request /\ q.op \in {"deactivate", "remove"} /\ q.row = r
        /\ q.wasActive = assignment[r].active
    BY <2>1 DEF Request
  <2>3. Begin(w, q)  BY <1>3 DEF BeginEnd
  <2>  HIDE DEF q
  <2>4. Stored(q.row) /\ (~q.wasActive => ~assignment[q.row].active)  BY <2>1, <2>2
  <2>5. q.op # "create"  BY <2>2
  <2>  QED  BY <2>2, <2>3, <2>4, <2>5, BeginPreserves
<1>4. ASSUME NEW w \in Workers, RefuseCreate(w) \/ Abandon(w)
      PROVE  IInv'
  BY <1>4, QuitPreserves DEF RefuseCreate, Abandon
<1>5. ASSUME UNCHANGED vars  PROVE IInv'
  BY <1>5 DEF vars, IInv, TypeOK, HomeroomCoherent, OneHomeroomTeacher, ShowsHomeroomTeacher,
              ActiveIn, Active, Found, Stored, HeldInv, Pending
<1>  QED
  BY <1>1, <1>2, <1>3, <1>4, <1>5, CommitCreatePreserves, CommitEndPreserves, UpdatePreserves,
     LetterEndsPreserves, LetterCreatesPreserves, LetterPointsPreserves DEF Next

\* The inductive invariant of the homeroom assignments.
THEOREM HomeroomInductive == Spec => []IInv
BY InitInductive, NextInductive, PTL DEF Spec

\* The state stays well typed.
THEOREM HomeroomTypeCorrect == Spec => []TypeOK
<1>1. IInv => TypeOK  BY DEF IInv
<1>  QED  BY <1>1, HomeroomInductive, PTL

\* A class has one homeroom teacher at most, whatever assignments, edits and letters race for
\* it, and shows that teacher unless its copy was written by a handler that was overtaken.
THEOREM HomeroomStaysCoherent == Spec => []HomeroomCoherent
<1>1. IInv => HomeroomCoherent  BY DEF IInv
<1>  QED  BY <1>1, HomeroomInductive, PTL
=============================================================================
