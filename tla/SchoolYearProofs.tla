--------------------------- MODULE SchoolYearProofs ---------------------------
(***************************************************************************)
(* Proofs about SchoolYear: types, one active term, one class a student,   *)
(* one mark a student and lesson.  Each of the three rules is kept by a    *)
(* query before the write.  What is inductive is that the answer of a      *)
(* query stands as long as its request is fresh (ReadInv): so a fresh      *)
(* write keeps the rule, and any other one is in the history.              *)
(***************************************************************************)
EXTENDS SchoolYear, TLAPS

\* What w has read is what it would read now, unless another write overtook it.
ReadInv(w) ==
    /\ Is(w, "activate") /\ req[w].fresh => req[w].seen = Demoted(req[w].term)
    /\ Is(w, "assign") /\ req[w].fresh => \A s \in req[w].students : ~Enrolled(s)
    /\ Is(w, "mark") /\ req[w].fresh =>
          req[w].existing = Marked(req[w].students, req[w].period)

IInv ==
    /\ TypeOK
    /\ OneActiveTerm /\ OneClassPerStudent /\ OneMark
    /\ \A w \in Workers : ReadInv(w)

-----------------------------------------------------------------------------
(* Requests *)

\* What each kind of request holds.
LEMMA RequestFields ==
    ASSUME TypeOK, NEW w \in Workers, req[w] # NoRequest
    PROVE  /\ req[w] \in Request
           /\ req[w].op \in {"activate", "assign", "unassign", "check", "mark"}
           /\ req[w].op = "activate" =>
                 /\ req[w].term \in Terms /\ req[w].new \in BOOLEAN
                 /\ req[w].seen \subseteq Terms /\ req[w].fresh \in BOOLEAN
           /\ req[w].op = "assign" =>
                 /\ req[w].class \in Classes /\ req[w].students \subseteq Students
                 /\ req[w].fresh \in BOOLEAN
           /\ req[w].op = "unassign" => req[w].class \in Classes /\ req[w].student \in Students
           /\ req[w].op \in {"check", "mark"} =>
                 /\ req[w].students \subseteq Students /\ req[w].period \in Periods
                 /\ req[w].existing \subseteq Students /\ req[w].fresh \in BOOLEAN
<1>1. req[w] \in Request  BY DEF TypeOK
<1>  QED  BY <1>1 DEF Request

\* A request whose answer is out of date is still a request of its kind.
LEMMA StaleRequest ==
    ASSUME NEW q \in Request, q.op # "unassign"
    PROVE  /\ [q EXCEPT !.fresh = FALSE] \in Request
           /\ [q EXCEPT !.fresh = FALSE].op = q.op
           /\ [q EXCEPT !.fresh = FALSE].fresh = FALSE
<1>1. CASE q.op = "activate"
  BY <1>1 DEF Request
<1>2. CASE q.op = "assign"
  BY <1>2 DEF Request
<1>3. CASE q.op \in {"check", "mark"}
  BY <1>3 DEF Request
<1>  QED  BY <1>1, <1>2, <1>3 DEF Request

\* A request that ends, and those it overtakes.
LEMMA EndsRequests ==
    ASSUME TypeOK, NEW w \in Workers, NEW stale, Ends(w, stale),
           \A v \in stale \cap Workers : req[v] # NoRequest /\ req[v].op # "unassign"
    PROVE  /\ req' \in [Workers -> Request \cup {NoRequest}]
           /\ req'[w] = NoRequest
           /\ \A v \in Workers \ {w} :
                 IF v \in stale
                 THEN req'[v] # NoRequest /\ req'[v].fresh = FALSE
                 ELSE req'[v] = req[v]
<1>1. req'[w] = NoRequest  BY DEF Ends
<1>2. ASSUME NEW v \in Workers \ {w}, v \in stale
      PROVE  req'[v] \in Request /\ req'[v].fresh = FALSE
  <2>1. req'[v] = [req[v] EXCEPT !.fresh = FALSE]  BY <1>2 DEF Ends
  <2>2. req[v] \in Request /\ req[v].op # "unassign"  BY <1>2 DEF TypeOK
  <2>  QED  BY <2>1, <2>2, StaleRequest
<1>3. ASSUME NEW v \in Workers \ {w}, v \notin stale
      PROVE  req'[v] = req[v]
  BY <1>3 DEF Ends
<1>4. \A v \in Workers : req'[v] \in Request \cup {NoRequest}
  BY <1>1, <1>2, <1>3 DEF TypeOK
<1>5. req' = [v \in Workers |-> req'[v]]  BY DEF Ends
<1>  QED  BY <1>1, <1>2, <1>3, <1>4, <1>5, NoRequestAssumption

\* A request that ends and overtakes none.
LEMMA EndsAlone ==
    ASSUME TypeOK, NEW w \in Workers, Ends(w, {})
    PROVE  /\ req' \in [Workers -> Request \cup {NoRequest}]
           /\ req'[w] = NoRequest /\ \A v \in Workers \ {w} : req'[v] = req[v]
BY DEF Ends, TypeOK

\* An answer stands while nothing is written that it depends on.
LEMMA ReadKept ==
    ASSUME NEW w \in Workers, ReadInv(w), req'[w] = req[w],
           Is(w, "activate") => Demoted(req[w].term)' = Demoted(req[w].term),
           Is(w, "assign") => \A s \in req[w].students : ~Enrolled(s) => ~Enrolled(s)',
           Is(w, "mark") =>
              \A s \in req[w].students :
                 marks'[<<s, req[w].period>>] > 0 <=> marks[<<s, req[w].period>>] > 0
    PROVE  ReadInv(w)'
<1>1. CASE Is(w, "activate")  BY <1>1 DEF ReadInv, Is, Demoted
<1>2. CASE Is(w, "assign")  BY <1>2 DEF ReadInv, Is, Enrolled
<1>3. CASE Is(w, "mark")  BY <1>3 DEF ReadInv, Is, Marked
<1>  QED  BY <1>1, <1>2, <1>3 DEF ReadInv, Is

\* Requests that are over, or that another has overtaken, claim nothing.
LEMMA NothingRead ==
    ASSUME NEW w \in Workers, req'[w] = NoRequest \/ req'[w].fresh = FALSE
    PROVE  ReadInv(w)'
BY DEF ReadInv, Is

-----------------------------------------------------------------------------
(* The inductive step, one lemma for each kind of action *)

\* Requests that begin, and look again, write nothing else; what a new one knows it has read.
LEMMA BeginPreserves ==
    ASSUME IInv, NEW w \in Workers, NEW q \in Request,
           req' = [req EXCEPT ![w] = q],
           q.op = "activate" => q.seen = Demoted(q.term),
           q.op = "assign" => \A s \in q.students : ~Enrolled(s),
           q.op = "mark" => q.existing = Marked(q.students, q.period),
           UNCHANGED <<term, removed, enrolment, marks, history>>
    PROVE  IInv'
<1>  USE DEF IInv
<1>1. TypeOK'
  <2>1. req' \in [Workers -> Request \cup {NoRequest}]  BY DEF TypeOK
  <2>  QED  BY <2>1 DEF TypeOK, history
<1>2. OneActiveTerm' /\ OneClassPerStudent' /\ OneMark'
  BY DEF history, OneActiveTerm, OneClassPerStudent, OneMark
<1>3. ASSUME NEW v \in Workers  PROVE ReadInv(v)'
  <2>1. CASE v = w
    <3>1. req'[v] = q  BY <2>1 DEF TypeOK
    <3>  QED  BY <3>1 DEF ReadInv, Is, Demoted, Enrolled, Marked
  <2>2. CASE v # w
    <3>1. req'[v] = req[v]  BY <2>2 DEF TypeOK
    <3>  QED  BY <3>1, ReadKept DEF Demoted, Enrolled, Marked
  <2>  QED  BY <2>1, <2>2
<1>  QED  BY <1>1, <1>2, <1>3

\* A request that is lost writes nothing.
LEMMA FailPreserves ==
    ASSUME IInv, NEW w \in Workers, FailRequest(w)
    PROVE  IInv'
<1>  USE DEF IInv
<1>1. /\ req' \in [Workers -> Request \cup {NoRequest}]
      /\ req'[w] = NoRequest /\ \A v \in Workers \ {w} : req'[v] = req[v]
  BY EndsAlone DEF FailRequest
<1>2. UNCHANGED <<term, removed, enrolment, marks, overtaken, late, repeated>>
  BY DEF FailRequest, history
<1>3. TypeOK'  BY <1>1, <1>2 DEF TypeOK
<1>4. OneActiveTerm' /\ OneClassPerStudent' /\ OneMark'
  BY <1>2 DEF OneActiveTerm, OneClassPerStudent, OneMark
<1>5. ASSUME NEW v \in Workers  PROVE ReadInv(v)'
  <2>1. CASE v = w  BY <1>1, <2>1, NothingRead
  <2>2. CASE v # w  BY <1>1, <1>2, <2>2, ReadKept DEF Demoted, Enrolled
  <2>  QED  BY <2>1, <2>2
<1>  QED  BY <1>3, <1>4, <1>5

\* An inactive term is none of those an activation demotes.
LEMMA CreatePreserves ==
    ASSUME IInv, NEW t \in Terms, CreateInactive(t)
    PROVE  IInv'
<1>  USE DEF IInv
<1>1. /\ term' \in [Terms -> TermStatus]
      /\ \A x \in Terms : term'[x] = "active" <=> term[x] = "active"
      /\ UNCHANGED <<removed, enrolment, marks, req, overtaken, late, repeated>>
  BY DEF CreateInactive, TypeOK, TermStatus, history
<1>2. TypeOK'  BY <1>1 DEF TypeOK
<1>3. OneActiveTerm' /\ OneClassPerStudent' /\ OneMark'
  BY <1>1 DEF OneActiveTerm, OneClassPerStudent, OneMark
<1>4. ASSUME NEW v \in Workers  PROVE ReadInv(v)'
  <2>1. Demoted(req[v].term)' = Demoted(req[v].term)  BY <1>1 DEF Demoted
  <2>  QED  BY <1>1, <2>1, ReadKept DEF Enrolled
<1>  QED  BY <1>2, <1>3, <1>4

\* Removing a class ends no enrolment in it.
LEMMA RemovePreserves ==
    ASSUME IInv, NEW c \in Classes, removeClass(c)
    PROVE  IInv'
<1>  USE DEF IInv
<1>1. TypeOK'  BY DEF TypeOK, removeClass, history
<1>2. OneActiveTerm' /\ OneClassPerStudent' /\ OneMark'
  BY DEF removeClass, history, OneActiveTerm, OneClassPerStudent, OneMark
<1>3. ASSUME NEW v \in Workers  PROVE ReadInv(v)'
  BY ReadKept DEF removeClass, history, Demoted, Enrolled
<1>  QED  BY <1>1, <1>2, <1>3

\* An activation that is fresh demotes every other active term; one that is not is overtaken.
LEMMA ActivatePreserves ==
    ASSUME IInv, NEW w \in Workers, CommitActivate(w)
    PROVE  IInv'
<1>  USE DEF IInv
<1>  DEFINE q == req[w]
            stale == {v \in Workers : Is(v, "activate")}
<1>1. /\ q.term \in Terms /\ q.seen \subseteq Terms /\ q.fresh \in BOOLEAN
      /\ q.fresh => q.seen = {x \in Terms \ {q.term} : term[x] = "active"}
  BY RequestFields DEF CommitActivate, Is, ReadInv, Demoted
<1>2. /\ term' = [x \in Terms |-> IF x = q.term THEN "active"
                                  ELSE IF x \in q.seen THEN "inactive" ELSE term[x]]
      /\ overtaken' = (overtaken \ (q.seen \cup {q.term}))
                        \cup (IF q.fresh THEN {} ELSE {q.term})
      /\ UNCHANGED <<removed, enrolment, marks, late, repeated>>
  BY DEF CommitActivate
<1>3. /\ req' \in [Workers -> Request \cup {NoRequest}]
      /\ req'[w] = NoRequest
      /\ \A v \in Workers \ {w} :
            IF v \in stale THEN req'[v] # NoRequest /\ req'[v].fresh = FALSE
            ELSE req'[v] = req[v]
  <2>1. \A v \in stale \cap Workers : req[v] # NoRequest /\ req[v].op # "unassign"
    BY DEF Is
  <2>2. Ends(w, stale)  BY DEF CommitActivate
  <2>  HIDE DEF stale
  <2>  QED  BY <2>1, <2>2, EndsRequests
<1>4. ASSUME NEW v \in Workers  PROVE ReadInv(v)'
  <2>1. CASE v = w \/ v \in stale  BY <1>3, <2>1, NothingRead
  <2>2. CASE v # w /\ v \notin stale
    <3>1. req'[v] = req[v] /\ ~Is(v, "activate")  BY <1>3, <2>2
    <3>  QED  BY <1>2, <3>1, ReadKept DEF Enrolled
  <2>  QED  BY <2>1, <2>2
<1>  HIDE DEF q, stale
<1>5. TypeOK'
  <2>1. term' \in [Terms -> TermStatus]  BY <1>2 DEF TypeOK, TermStatus
  <2>2. overtaken' \subseteq Terms  BY <1>1, <1>2 DEF TypeOK
  <2>  QED  BY <1>2, <1>3, <2>1, <2>2 DEF TypeOK
<1>6. OneActiveTerm'
  <2>1. SUFFICES ASSUME NEW s \in Terms, NEW t \in Terms, s # t,
                        term'[s] = "active", term'[t] = "active"
                 PROVE  {s, t} \cap overtaken' # {}
    BY DEF OneActiveTerm
  <2>2. CASE q.term \in {s, t}
    <3>1. PICK x \in {s, t} : x # q.term  BY <2>1
    <3>2. x \notin q.seen /\ term[x] = "active"  BY <1>2, <2>1, <3>1
    <3>3. q.fresh = FALSE  BY <1>1, <3>1, <3>2
    <3>  QED  BY <1>2, <2>2, <3>3
  <2>3. CASE q.term \notin {s, t}
    <3>1. s \notin q.seen /\ t \notin q.seen /\ term[s] = "active" /\ term[t] = "active"
      BY <1>2, <2>1, <2>3
    <3>2. {s, t} \cap overtaken # {}  BY <2>1, <3>1 DEF OneActiveTerm
    <3>  QED  BY <1>2, <2>3, <3>1, <3>2
  <2>  QED  BY <2>2, <2>3
<1>7. OneClassPerStudent' /\ OneMark'  BY <1>2 DEF OneClassPerStudent, OneMark
<1>  QED  BY <1>4, <1>5, <1>6, <1>7


\* An assignment that is fresh finds its students in no class; one that is not is late.
LEMMA AssignPreserves ==
    ASSUME IInv, NEW w \in Workers, CommitAssign(w)
    PROVE  IInv'
<1>  USE DEF IInv
<1>  DEFINE q == req[w]
            rows == q.students \X {q.class}
            stale == {v \in Workers : Is(v, "assign") /\ req[v].students \cap q.students # {}}
<1>1. /\ q.class \in Classes /\ q.students \subseteq Students /\ q.fresh \in BOOLEAN
      /\ q.fresh => \A s \in q.students : ~Enrolled(s)
  BY RequestFields DEF CommitAssign, Is, ReadInv
<1>2. /\ enrolment' = [row \in Students \X Classes |->
                         IF row \in rows THEN "active" ELSE enrolment[row]]
      /\ late' = IF q.fresh THEN late \ rows ELSE late \cup rows
      /\ UNCHANGED <<term, removed, marks, overtaken, repeated>>
  BY DEF CommitAssign, TypeOK
<1>3. /\ req' \in [Workers -> Request \cup {NoRequest}]
      /\ req'[w] = NoRequest
      /\ \A v \in Workers \ {w} :
            IF v \in stale THEN req'[v] # NoRequest /\ req'[v].fresh = FALSE
            ELSE req'[v] = req[v]
  <2>1. \A v \in stale \cap Workers : req[v] # NoRequest /\ req[v].op # "unassign"
    BY DEF Is
  <2>2. Ends(w, stale)  BY DEF CommitAssign
  <2>  HIDE DEF stale
  <2>  QED  BY <2>1, <2>2, EndsRequests
<1>4. \A s \in Students, c \in Classes :
         /\ <<s, c>> \in rows <=> s \in q.students /\ c = q.class
         /\ enrolment'[<<s, c>>] =
               IF s \in q.students /\ c = q.class THEN "active" ELSE enrolment[<<s, c>>]
  BY <1>2
<1>5. ASSUME NEW v \in Workers  PROVE ReadInv(v)'
  <2>1. CASE v = w \/ v \in stale  BY <1>3, <2>1, NothingRead
  <2>2. CASE v # w /\ v \notin stale
    <3>1. req'[v] = req[v]  BY <1>3, <2>2
    <3>2. Is(v, "assign") => \A s \in req[v].students : ~Enrolled(s) => ~Enrolled(s)'
      <4>1. SUFFICES ASSUME Is(v, "assign"), NEW s \in req[v].students, ~Enrolled(s)
                     PROVE  ~Enrolled(s)'
        OBVIOUS
      <4>2. s \in Students  BY <4>1, RequestFields DEF Is
      <4>3. s \notin q.students  BY <2>2, <4>1
      <4>  QED  BY <1>4, <4>1, <4>2, <4>3 DEF Enrolled
    <3>  HIDE DEF q, rows, stale
    <3>  QED  BY <1>2, <3>1, <3>2, ReadKept DEF Demoted
  <2>  QED  BY <2>1, <2>2
<1>  HIDE DEF q, stale
<1>6. TypeOK'
  <2>1. enrolment' \in [Students \X Classes -> EnrolmentStatus]
    BY <1>2 DEF TypeOK, EnrolmentStatus
  <2>2. late' \subseteq Students \X Classes  BY <1>1, <1>2 DEF TypeOK
  <2>  QED  BY <1>2, <1>3, <2>1, <2>2 DEF TypeOK
<1>7. OneClassPerStudent'
  <2>1. SUFFICES ASSUME NEW s \in Students, NEW c \in Classes, NEW d \in Classes, c # d,
                        enrolment'[<<s, c>>] = "active", enrolment'[<<s, d>>] = "active"
                 PROVE  <<s, c>> \in late' \/ <<s, d>> \in late'
    BY DEF OneClassPerStudent
  <2>2. CASE s \in q.students /\ (c = q.class \/ d = q.class)
    <3>1. PICK x \in {c, d} : x # q.class  BY <2>1
    <3>2. enrolment[<<s, x>>] = "active"  BY <1>4, <2>1, <3>1
    <3>3. q.fresh = FALSE  BY <1>1, <2>2, <3>2 DEF Enrolled
    <3>  QED  BY <1>2, <1>4, <2>2, <3>3
  <2>3. CASE ~(s \in q.students /\ (c = q.class \/ d = q.class))
    <3>1. /\ enrolment[<<s, c>>] = "active" /\ enrolment[<<s, d>>] = "active"
          /\ <<s, c>> \notin rows /\ <<s, d>> \notin rows
      BY <1>4, <2>1, <2>3
    <3>2. <<s, c>> \in late \/ <<s, d>> \in late  BY <2>1, <3>1 DEF OneClassPerStudent
    <3>  QED  BY <1>2, <3>1, <3>2
  <2>  QED  BY <2>2, <2>3
<1>8. OneActiveTerm' /\ OneMark'  BY <1>2 DEF OneActiveTerm, OneMark
<1>  QED  BY <1>5, <1>6, <1>7, <1>8

\* Ending an enrolment leaves a student in no class more.
LEMMA UnassignPreserves ==
    ASSUME IInv, NEW w \in Workers, CommitUnassign(w)
    PROVE  IInv'
<1>  USE DEF IInv
<1>  DEFINE row == <<req[w].student, req[w].class>>
<1>1. row \in Students \X Classes
  BY RequestFields DEF CommitUnassign, Is
<1>2. /\ enrolment' = [enrolment EXCEPT ![row] = "ended"]
      /\ late' = late \ {row}
      /\ Ends(w, {})
      /\ UNCHANGED <<term, removed, marks, overtaken, repeated>>
  BY DEF CommitUnassign, Unassigned
<1>  HIDE DEF row
<1>3. /\ req' \in [Workers -> Request \cup {NoRequest}]
      /\ req'[w] = NoRequest /\ \A v \in Workers \ {w} : req'[v] = req[v]
  BY <1>2, EndsAlone
<1>4. \A r \in Students \X Classes :
         enrolment'[r] = IF r = row THEN "ended" ELSE enrolment[r]
  BY <1>2 DEF TypeOK
<1>5. TypeOK'
  <2>1. enrolment' \in [Students \X Classes -> EnrolmentStatus]
    BY <1>2 DEF TypeOK, EnrolmentStatus
  <2>2. late' \subseteq Students \X Classes  BY <1>2 DEF TypeOK
  <2>  QED  BY <1>2, <1>3, <2>1, <2>2 DEF TypeOK
<1>6. OneClassPerStudent'
  BY <1>2, <1>4 DEF OneClassPerStudent
<1>7. OneActiveTerm' /\ OneMark'  BY <1>2 DEF OneActiveTerm, OneMark
<1>8. ASSUME NEW v \in Workers  PROVE ReadInv(v)'
  <2>1. CASE v = w  BY <1>3, <2>1, NothingRead
  <2>2. CASE v # w
    <3>1. req'[v] = req[v]  BY <1>3, <2>2
    <3>2. Is(v, "assign") => \A s \in req[v].students : ~Enrolled(s) => ~Enrolled(s)'
      <4>1. Is(v, "assign") => req[v].students \subseteq Students  BY RequestFields DEF Is
      <4>  QED  BY <1>4, <4>1 DEF Enrolled
    <3>  QED  BY <1>2, <3>1, <3>2, ReadKept DEF Demoted
  <2>  QED  BY <2>1, <2>2
<1>  QED  BY <1>5, <1>6, <1>7, <1>8


\* A transaction that marks: the index keeps out a second mark of a lesson; a save of the
\* homeroom that is fresh adds to none, and one that is not is repeated.
LEMMA MarksPreserve ==
    ASSUME IInv, NEW w \in Workers, CommitMarks(w)
    PROVE  IInv'
<1>  USE DEF IInv
<1>  DEFINE q == req[w]
            p == q.period
            added == q.students \ q.existing
            stale == {v \in Workers : Is(v, "mark") /\ req[v].period = p
                                        /\ req[v].students \cap added # {}}
<1>1. /\ q.students \subseteq Students /\ p \in Periods /\ q.fresh \in BOOLEAN
      /\ q.fresh => q.existing = Marked(q.students, p)
  BY RequestFields DEF CommitMarks, Is, ReadInv
<1>2. UNCHANGED <<term, removed, enrolment, overtaken, late>>
  BY DEF CommitMarks
<1>3. OneActiveTerm' /\ OneClassPerStudent'  BY <1>2 DEF OneActiveTerm, OneClassPerStudent
<1>4. CASE ~UniqueAllows(added, p)
  <2>1. Ends(w, {}) /\ UNCHANGED <<marks, repeated>>  BY <1>4 DEF CommitMarks
  <2>2. /\ req' \in [Workers -> Request \cup {NoRequest}]
        /\ req'[w] = NoRequest /\ \A v \in Workers \ {w} : req'[v] = req[v]
    BY <2>1, EndsAlone
  <2>3. TypeOK'  BY <1>2, <2>1, <2>2 DEF TypeOK
  <2>4. OneMark'  BY <2>1 DEF OneMark
  <2>5. ASSUME NEW v \in Workers  PROVE ReadInv(v)'
    <3>1. CASE v = w  BY <2>2, <3>1, NothingRead
    <3>2. CASE v # w  BY <1>2, <2>1, <2>2, <3>2, ReadKept DEF Demoted, Enrolled
    <3>  QED  BY <3>1, <3>2
  <2>  QED  BY <1>3, <2>3, <2>4, <2>5
<1>5. CASE UniqueAllows(added, p)
  <2>1. /\ marks' = [m \in Students \X Periods |->
                       IF m \in added \X {p} THEN marks[m] + 1 ELSE marks[m]]
        /\ repeated' = IF q.fresh THEN repeated ELSE repeated \cup added
        /\ Ends(w, stale)
    BY <1>5 DEF CommitMarks, TypeOK
  <2>2. /\ req' \in [Workers -> Request \cup {NoRequest}]
        /\ req'[w] = NoRequest
        /\ \A v \in Workers \ {w} :
              IF v \in stale THEN req'[v] # NoRequest /\ req'[v].fresh = FALSE
              ELSE req'[v] = req[v]
    <3>1. \A v \in stale \cap Workers : req[v] # NoRequest /\ req[v].op # "unassign"
      BY DEF Is
    <3>2. Ends(w, stale)  BY <2>1
    <3>  HIDE DEF stale
    <3>  QED  BY <3>1, <3>2, EndsRequests
  <2>3. \A s \in Students, d \in Periods :
           marks'[<<s, d>>] = IF s \in added /\ d = p THEN marks[<<s, d>>] + 1
                              ELSE marks[<<s, d>>]
    BY <2>1
  <2>4. ASSUME NEW v \in Workers  PROVE ReadInv(v)'
    <3>1. CASE v = w \/ v \in stale  BY <2>2, <3>1, NothingRead
    <3>2. CASE v # w /\ v \notin stale
      <4>1. req'[v] = req[v]  BY <2>2, <3>2
      <4>2. ASSUME Is(v, "mark"), NEW s \in req[v].students
            PROVE  marks'[<<s, req[v].period>>] = marks[<<s, req[v].period>>]
        <5>1. s \in Students /\ req[v].period \in Periods  BY <4>2, RequestFields DEF Is
        <5>2. ~(s \in added /\ req[v].period = p)  BY <3>2, <4>2
        <5>  QED  BY <2>3, <5>1, <5>2
      <4>  HIDE DEF q, p, added, stale
      <4>  QED  BY <1>2, <4>1, <4>2, ReadKept DEF Demoted, Enrolled
    <3>  QED  BY <3>1, <3>2
  <2>5. TypeOK'
    <3>1. added \subseteq Students  BY <1>1
    <3>2. \A m \in Students \X Periods : marks[m] \in Nat  BY DEF TypeOK
    <3>  HIDE DEF q, p, added, stale
    <3>3. marks' \in [Students \X Periods -> Nat]  BY <2>1, <3>2
    <3>4. repeated' \subseteq Students  BY <2>1, <3>1 DEF TypeOK
    <3>  QED  BY <1>2, <2>2, <3>3, <3>4 DEF TypeOK
  <2>6. ASSUME NEW s \in Students, NEW d \in Periods
        PROVE  marks'[<<s, d>>] <= 1 \/ (d = Homeroom /\ s \in repeated')
    <3>1. marks[<<s, d>>] \in Nat  BY DEF TypeOK
    <3>2. marks[<<s, d>>] <= 1 \/ (d = Homeroom /\ s \in repeated)  BY DEF OneMark
    <3>3. s \in repeated => s \in repeated'  BY <2>1
    <3>4. CASE ~(s \in added /\ d = p)  BY <2>3, <3>2, <3>3, <3>4
    <3>5. CASE s \in added /\ d = p /\ q.fresh
      <4>1. marks[<<s, d>>] = 0  BY <1>1, <3>1, <3>5 DEF Marked
      <4>  QED  BY <2>3, <3>5, <4>1
    <3>6. CASE s \in added /\ d = p /\ ~q.fresh
      <4>1. s \in repeated'  BY <2>1, <3>6
      <4>2. d # Homeroom => marks[<<s, d>>] = 0  BY <1>5, <3>1, <3>6 DEF UniqueAllows, Marked
      <4>  QED  BY <2>3, <3>6, <4>1, <4>2
    <3>  QED  BY <1>1, <3>4, <3>5, <3>6
  <2>  QED  BY <1>3, <2>4, <2>5, <2>6 DEF OneMark
<1>  QED  BY <1>4, <1>5

-----------------------------------------------------------------------------
(* Theorems *)

LEMMA InitInductive == Init => IInv
<1>  SUFFICES ASSUME Init  PROVE IInv
  OBVIOUS
<1>1. TypeOK  BY DEF Init, TypeOK, TermStatus, EnrolmentStatus
<1>2. OneActiveTerm /\ OneClassPerStudent /\ OneMark
  BY DEF Init, OneActiveTerm, OneClassPerStudent, OneMark
<1>3. \A w \in Workers : ReadInv(w)  BY DEF Init, ReadInv, Is
<1>  QED  BY <1>1, <1>2, <1>3 DEF IInv

LEMMA NextInductive == IInv /\ [Next]_vars => IInv'
<1>  SUFFICES ASSUME IInv, [Next]_vars  PROVE IInv'
  OBVIOUS
<1>1. ASSUME NEW t \in Terms, CreateInactive(t)  PROVE IInv'
  BY <1>1, CreatePreserves
<1>2. ASSUME NEW w \in Workers, NEW t \in Terms, BeginActivate(w, t)  PROVE IInv'
  <2>  DEFINE q == [op |-> "activate", term |-> t, new |-> (term[t] = "none"),
                    seen |-> Demoted(t), fresh |-> TRUE]
  <2>1. q \in Request /\ q.op = "activate" /\ q.seen = Demoted(q.term)
    BY DEF Request, Demoted
  <2>2. req' = [req EXCEPT ![w] = q] /\ UNCHANGED <<term, removed, enrolment, marks, history>>
    BY <1>2 DEF BeginActivate, Begins
  <2>  HIDE DEF q
  <2>  QED  BY <2>1, <2>2, BeginPreserves
<1>3. ASSUME NEW c \in Classes, removeClass(c)  PROVE IInv'
  BY <1>3, RemovePreserves
<1>4. ASSUME NEW w \in Workers, NEW c \in Classes, BeginAssign(w, c)  PROVE IInv'
  <2>1. PICK students \in SUBSET Students :
           /\ \A s \in students : ~Enrolled(s)
           /\ Begins(w, [op |-> "assign", class |-> c, students |-> students, fresh |-> TRUE])
    BY <1>4 DEF BeginAssign
  <2>  DEFINE q == [op |-> "assign", class |-> c, students |-> students, fresh |-> TRUE]
  <2>2. q \in Request /\ q.op = "assign" /\ \A s \in q.students : ~Enrolled(s)
    BY <2>1 DEF Request
  <2>3. req' = [req EXCEPT ![w] = q] /\ UNCHANGED <<term, removed, enrolment, marks, history>>
    BY <1>4, <2>1 DEF BeginAssign, Begins
  <2>  HIDE DEF q
  <2>  QED  BY <2>2, <2>3, BeginPreserves
<1>5. ASSUME NEW w \in Workers, NEW s \in Students, NEW c \in Classes, BeginUnassign(w, s, c)
      PROVE  IInv'
  <2>  DEFINE q == [op |-> "unassign", class |-> c, student |-> s]
  <2>1. q \in Request /\ q.op = "unassign"  BY DEF Request
  <2>2. req' = [req EXCEPT ![w] = q] /\ UNCHANGED <<term, removed, enrolment, marks, history>>
    BY <1>5 DEF BeginUnassign, Begins
  <2>  HIDE DEF q
  <2>  QED  BY <2>1, <2>2, BeginPreserves
<1>6. ASSUME NEW w \in Workers, NEW c \in Classes, NEW p \in Periods, BeginMark(w, c, p)
      PROVE  IInv'
  <2>1. PICK students \in SUBSET Students :
           Begins(w, [op |-> "check", students |-> students, period |-> p,
                      existing |-> {}, fresh |-> TRUE])
    BY <1>6 DEF BeginMark
  <2>  DEFINE q == [op |-> "check", students |-> students, period |-> p,
                    existing |-> {}, fresh |-> TRUE]
  <2>2. q \in Request /\ q.op = "check"  BY <2>1 DEF Request
  <2>3. req' = [req EXCEPT ![w] = q] /\ UNCHANGED <<term, removed, enrolment, marks, history>>
    BY <1>6, <2>1 DEF BeginMark, Begins
  <2>  HIDE DEF q
  <2>  QED  BY <2>2, <2>3, BeginPreserves
<1>7. ASSUME NEW w \in Workers, FindMarks(w)  PROVE IInv'
  <2>1. req[w].students \subseteq Students /\ req[w].period \in Periods
    BY <1>7, RequestFields DEF FindMarks, Is, IInv
  <2>2. req[w] \in [op: {"check", "mark"}, students: SUBSET Students, period: Periods,
                    existing: SUBSET Students, fresh: BOOLEAN]
    BY <1>7 DEF FindMarks, Is, IInv, TypeOK, Request
  <2>  DEFINE q == [[[req[w] EXCEPT !.op = "mark"]
                       EXCEPT !.existing = Marked(req[w].students, req[w].period)]
                       EXCEPT !.fresh = TRUE]
  <2>3. Marked(req[w].students, req[w].period) \subseteq Students  BY <2>1 DEF Marked
  <2>4. q \in Request /\ q.op = "mark" /\ q.existing = Marked(q.students, q.period)
    BY <2>2, <2>3 DEF Request
  <2>5. req' = [req EXCEPT ![w] = q] /\ UNCHANGED <<term, removed, enrolment, marks, history>>
    BY <1>7 DEF FindMarks, IInv, TypeOK
  <2>  HIDE DEF q
  <2>  QED  BY <2>4, <2>5, BeginPreserves
<1>8. ASSUME NEW w \in Workers, CommitActivate(w)  PROVE IInv'
  BY <1>8, ActivatePreserves
<1>9. ASSUME NEW w \in Workers, CommitAssign(w)  PROVE IInv'
  BY <1>9, AssignPreserves
<1>10. ASSUME NEW w \in Workers, CommitUnassign(w)  PROVE IInv'
  BY <1>10, UnassignPreserves
<1>11. ASSUME NEW w \in Workers, CommitMarks(w)  PROVE IInv'
  BY <1>11, MarksPreserve
<1>12. ASSUME NEW w \in Workers, FailRequest(w)  PROVE IInv'
  BY <1>12, FailPreserves
<1>13. CASE UNCHANGED vars
  BY <1>13 DEF vars, IInv, TypeOK, OneActiveTerm, OneClassPerStudent, OneMark, ReadInv, Is,
               Demoted, Enrolled, Marked
<1>  QED
  BY <1>1, <1>2, <1>3, <1>4, <1>5, <1>6, <1>7, <1>8, <1>9, <1>10, <1>11, <1>12, <1>13 DEF Next

\* Every request in flight knows what it read, as long as nothing overtook it.
THEOREM SchoolYearInductive == Spec => []IInv
BY InitInductive, NextInductive, PTL DEF Spec

\* Terms, enrolments, marks and requests keep their types, for any number of each.
THEOREM SchoolYearTypeCorrect == Spec => []TypeOK
<1>1. IInv => TypeOK  BY DEF IInv
<1>  QED  BY <1>1, SchoolYearInductive, PTL

\* Two terms are active only if an activation that another had overtaken made it so.
THEOREM ActiveTermUnique == Spec => []OneActiveTerm
<1>1. IInv => OneActiveTerm  BY DEF IInv
<1>  QED  BY <1>1, SchoolYearInductive, PTL

\* A student is in two classes only if an assignment that another had overtaken made it so.
THEOREM ClassUnique == Spec => []OneClassPerStudent
<1>1. IInv => OneClassPerStudent  BY DEF IInv
<1>  QED  BY <1>1, SchoolYearInductive, PTL

\* A lesson never has two marks of a student, and the homeroom only from two saves at once.
THEOREM MarkUnique == Spec => []OneMark
<1>1. IInv => OneMark  BY DEF IInv
<1>  QED  BY <1>1, SchoolYearInductive, PTL
=============================================================================
