------------------------------ MODULE Guardians -------------------------------
(***************************************************************************)
(* The guardians of a student: src/src/student-profiles.  At most one of   *)
(* them is meant to be the primary one.  Making one primary clears the     *)
(* others in one write and sets it in a second, with no transaction and    *)
(* nothing in the database to keep a second one out.                       *)
(*                                                                         *)
(* History variables, never read by the actions: disputed, the students of *)
(* whom two requests chose a primary guardian at once; unset, those whose  *)
(* primary guardian was taken away: by a caller, or by a request that was  *)
(* lost, or whose guardian was gone, between the two writes.               *)
(***************************************************************************)
EXTENDS Requests

CONSTANTS
    GuardianIds, Students,
    NoGuardian      \* an unused identifier

GuardianRequest ==
    [op: {"add", "change"}, step: {"clear", "write"}, student: Students,
     guardian: GuardianIds \cup {NoGuardian}, primary: BOOLEAN]

ASSUME GuardiansAssumption ==
    /\ NoGuardian \notin GuardianIds \cup [student: Students, primary: BOOLEAN]
    /\ NoRequest \notin GuardianRequest

VARIABLES
    guardian,       \* [GuardianIds -> [student: Students, primary: BOOLEAN] \cup {NoGuardian}]
    disputed, unset

guardiansVars == <<req, guardian, disputed, unset>>

-----------------------------------------------------------------------------
GuardiansOf(s) == {g \in GuardianIds : guardian[g] # NoGuardian /\ guardian[g].student = s}

PrimariesOf(s) == {g \in GuardiansOf(s) : guardian[g].primary}

\* Other requests that are choosing the primary guardian of s.
Choosing(w, s) == {v \in Others(w) : req[v].student = s /\ req[v].primary}

\* A new guardian is one that no request remembers.
UnknownGuardians ==
    {g \in GuardianIds : /\ guardian[g] = NoGuardian
                         /\ \A v \in Workers : req[v] # NoRequest => req[v].guardian # g}

\* The student, or the guardian of the student, is found.
BeginAdd(w, s, primary) ==
    /\ Begin(w, [op |-> "add", step |-> IF primary THEN "clear" ELSE "write",
                 student |-> s, guardian |-> NoGuardian, primary |-> primary])
    /\ UNCHANGED <<guardian, disputed, unset>>

\* An update sets the flag; leaving it out is an update of what is not modelled.
BeginChange(w, g, primary) ==
    /\ guardian[g] # NoGuardian
    /\ Begin(w, [op |-> "change", step |-> IF primary THEN "clear" ELSE "write",
                 student |-> guardian[g].student, guardian |-> g, primary |-> primary])
    /\ UNCHANGED <<guardian, disputed, unset>>

\* Mutant: updateGuardian clears nobody.
ClearNobody(w) ==
    /\ At(w, {"add", "change"}, "clear") /\ Goto(w, "write")
    /\ UNCHANGED <<guardian, disputed, unset>>

\* The other guardians of the student (all of them, for a new one) are no longer primary.
ClearOthers(w) ==
    LET s == req[w].student IN
    /\ At(w, {"add", "change"}, "clear")
    /\ guardian' = [g \in GuardianIds |->
          IF g \in GuardiansOf(s) \ {req[w].guardian}
          THEN [guardian[g] EXCEPT !.primary = FALSE] ELSE guardian[g]]
    /\ disputed' = IF Choosing(w, s) = {} THEN disputed ELSE disputed \cup {s}
    /\ Goto(w, "write")
    /\ UNCHANGED unset

AddGuardian(w) ==
    LET q == req[w]  g == AnyOf(UnknownGuardians) IN
    /\ At(w, {"add"}, "write") /\ UnknownGuardians # {}
    /\ guardian' = [guardian EXCEPT ![g] = [student |-> q.student, primary |-> q.primary]]
    /\ disputed' = IF q.primary /\ Choosing(w, q.student) # {}
                   THEN disputed \cup {q.student} ELSE disputed
    /\ unset' = IF q.primary THEN unset \ {q.student} ELSE unset
    /\ Done(w)

ChangeGuardian(w) ==
    LET q == req[w]  g == q.guardian IN
    /\ At(w, {"change"}, "write") /\ guardian[g] # NoGuardian
    /\ guardian' = [guardian EXCEPT ![g].primary = q.primary]
    /\ disputed' = IF q.primary /\ Choosing(w, q.student) # {}
                   THEN disputed \cup {q.student} ELSE disputed
    /\ unset' = IF q.primary THEN unset \ {q.student}
                ELSE IF guardian[g].primary THEN unset \cup {q.student} ELSE unset
    /\ Done(w)

removeGuardian(g) ==
    /\ guardian[g] # NoGuardian
    /\ guardian' = [guardian EXCEPT ![g] = NoGuardian]
    /\ unset' = IF guardian[g].primary THEN unset \cup {guardian[g].student} ELSE unset
    /\ UNCHANGED <<req, disputed>>

\* The process dies, or the guardian has been removed.
LoseGuardianRequest(w) ==
    /\ req[w] # NoRequest
    /\ unset' = IF req[w].primary /\ req[w].step = "write"
                THEN unset \cup {req[w].student} ELSE unset
    /\ Done(w)
    /\ UNCHANGED <<guardian, disputed>>

-----------------------------------------------------------------------------
GuardiansInit ==
    /\ req = Idle
    /\ guardian = [g \in GuardianIds |-> NoGuardian]
    /\ disputed = {}
    /\ unset = Students     \* nobody was chosen yet

GuardiansNext ==
    \/ \E w \in Workers, primary \in BOOLEAN :
          \/ \E s \in Students : BeginAdd(w, s, primary)
          \/ \E g \in GuardianIds : BeginChange(w, g, primary)
    \/ \E w \in Workers :
          \/ ClearOthers(w)
          \/ AddGuardian(w)
          \/ ChangeGuardian(w)
          \/ LoseGuardianRequest(w)
    \/ \E g \in GuardianIds : removeGuardian(g)

GuardiansSpec == GuardiansInit /\ [][GuardiansNext]_guardiansVars

-----------------------------------------------------------------------------
\* Every variable keeps its type.
GuardiansTypeOK ==
    /\ req \in [Workers -> GuardianRequest \cup {NoRequest}]
    /\ guardian \in [GuardianIds -> [student: Students, primary: BOOLEAN] \cup {NoGuardian}]
    /\ disputed \subseteq Students /\ unset \subseteq Students

\* A student has at most one primary guardian, unless two requests chose one at once; and
\* once one was chosen there is one, unless it was taken away or a request is between
\* clearing the others and setting its own.
OnePrimaryGuardian ==
    \A s \in Students \ disputed :
        /\ Cardinality(PrimariesOf(s)) <= 1
        /\ \/ PrimariesOf(s) # {} \/ s \in unset
           \/ \E w \in Workers : /\ req[w] # NoRequest /\ req[w].student = s
                                 /\ req[w].primary /\ req[w].step = "write"
=============================================================================
