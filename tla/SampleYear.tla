------------------------------ MODULE SampleYear ------------------------------
(***************************************************************************)
(* What the seeds of a school's schema (SampleData) write in more than one *)
(* row: the active term, the homeroom teacher of a class (an assignment,   *)
(* and the teacher that the class shows) and the class of a student.       *)
(*                                                                         *)
(* The terms are the school's; the class and the student are those of one  *)
(* seed.  The feature seed activates the second term and ends the others;  *)
(* the schools' makes the first, active, if there is none, and the demo    *)
(* activates it: neither ends another.  The schools' also takes out of its *)
(* own classes whoever has one of the usernames that its students had      *)
(* before they got a prefix, and some of the demo's students have these    *)
(* names.  What the school does in one transaction, a seed does in one     *)
(* await after another.                                                    *)
(*                                                                         *)
(* History variables, never read by the actions: ajar, of the three, those *)
(* that a run left half done when it was killed, or wrote while the school *)
(* or another run did, and the terms once a seed that ends no other has    *)
(* activated the first beside the second; dropped, the schools' seed has   *)
(* taken the student out of the last class.                                *)
(***************************************************************************)
EXTENDS Requests

CONSTANTS
    SeedClasses,        \* of the term
    FixtureClass,       \* the class and the student's, as the seed makes them
    SchoolsClasses      \* the others that the schools' seed makes

Seeds == {"feature", "schools", "demo"}

YearRequest == [op: {"year"}, seed: Seeds,
                step: {"term", "others", "unscope", "assignment", "shown", "transfer", "enrol"}]

ASSUME SampleYearAssumption ==
    /\ FixtureClass \in SeedClasses
    /\ SchoolsClasses \subseteq SeedClasses \ {FixtureClass}
    /\ NoRequest \notin YearRequest

TermIds == {"first", "second"}

VARIABLES
    seedOf,         \* Seeds, whose the class and the student are: it never changes
    unscoped,       \* BOOLEAN, the student's username is one without a prefix: nor does it
    terms,          \* [TermIds -> {"none", "active", "ended"}]
    assigned,       \* {"none", "fixture", "another"}, the active homeroom assignment
    shown,          \* {"none", "fixture", "another"}, the teacher that the class shows
    enrolled,       \* [SeedClasses -> {"none", "active", "transferred"}], the student
    ajar,           \* SUBSET {"terms", "homeroom", "student"}
    dropped         \* BOOLEAN

yearVars == <<req, seedOf, unscoped, terms, assigned, shown, enrolled, ajar, dropped>>

ActiveTerms == {t \in TermIds : terms[t] = "active"}

ActiveClasses == {c \in SeedClasses : enrolled[c] = "active"}

-----------------------------------------------------------------------------
(* A run *)

\* What may be half done while a run is at a step.
Between(seed, step) ==
    CASE seed = "feature" /\ step = "others" -> {"terms"}
      [] seed = "feature" /\ step = "assignment" -> {"homeroom"}
      [] seed # "feature" /\ step = "shown" -> {"homeroom"}
      [] step = "enrol" -> {"student"}
      [] OTHER -> {}

HalfDone(w) == IF req[w] = NoRequest THEN {} ELSE Between(req[w].seed, req[w].step)

\* The rows of one run are written into those of another.
Crossed(w, what) == {x \in {what} : \E v \in Workers \ {w} : x \in HalfDone(v)}

BeginYearSeed(w, seed) ==
    /\ Begin(w, [op |-> "year", step |-> "term", seed |-> seed])
    /\ UNCHANGED <<seedOf, unscoped, terms, assigned, shown, enrolled, ajar, dropped>>

\* What follows is about the seed's own class and student.
GotoClass(w, step) == IF req[w].seed = seedOf THEN Goto(w, step) ELSE Done(w)

SeedTerm(w) ==
    LET seed == req[w].seed IN
    /\ At(w, {"year"}, "term")
    /\ terms' = CASE seed = "feature" -> [terms EXCEPT !["second"] = "active"]
                  [] seed = "demo" -> [terms EXCEPT !["first"] = "active"]
                  [] OTHER -> [terms EXCEPT !["first"] = IF @ = "none" THEN "active" ELSE @]
    /\ ajar' = ajar \cup Crossed(w, "terms")
                    \cup {x \in {"terms"} : seed # "feature" /\ terms' # terms /\ terms["second"] = "active"}
    /\ CASE seed = "feature" -> Goto(w, "others")
         [] seed = "schools" -> Goto(w, "unscope")
         [] OTHER -> GotoClass(w, "assignment")
    /\ UNCHANGED <<seedOf, unscoped, assigned, shown, enrolled, dropped>>

EndOtherTerms(w) ==
    /\ At(w, {"year"}, "others")
    /\ terms' = [t \in TermIds |-> IF t # "second" /\ terms[t] = "active" THEN "ended" ELSE terms[t]]
    /\ ajar' = (ajar \ {"terms"}) \cup Crossed(w, "terms")
    /\ GotoClass(w, "shown")
    /\ UNCHANGED <<seedOf, unscoped, assigned, shown, enrolled, dropped>>

\* deactivateLegacyUnscopedSchoolEnrollments: no other class is given to the student.
UnscopeEnrolments(w) ==
    /\ At(w, {"year"}, "unscope")
    /\ enrolled' = [c \in SeedClasses |->
          IF unscoped /\ c \in SchoolsClasses /\ enrolled[c] = "active" THEN "transferred"
          ELSE enrolled[c]]
    /\ dropped' = (dropped \/ (ActiveClasses # {} /\ ActiveClasses' = {}))
    /\ ajar' = ajar \cup IF enrolled' = enrolled THEN {} ELSE Crossed(w, "student")
    /\ GotoClass(w, "assignment")
    /\ UNCHANGED <<seedOf, unscoped, terms, assigned, shown>>

\* The feature seed corrects an assignment, the others keep one; the demo then leaves the
\* class as it is, too.
SeedAssignment(w) ==
    LET seed == req[w].seed  made == seed = "feature" \/ assigned = "none" IN
    /\ At(w, {"year"}, "assignment")
    /\ assigned' = IF made THEN "fixture" ELSE assigned
    /\ ajar' = (IF assigned' = shown THEN ajar \ {"homeroom"} ELSE ajar) \cup Crossed(w, "homeroom")
    /\ Goto(w, IF seed = "feature" \/ (seed = "demo" /\ ~made) THEN "transfer" ELSE "shown")
    /\ UNCHANGED <<seedOf, unscoped, terms, shown, enrolled, dropped>>

SeedShown(w) ==
    /\ At(w, {"year"}, "shown")
    /\ shown' = "fixture"
    /\ ajar' = (IF assigned = shown' THEN ajar \ {"homeroom"} ELSE ajar) \cup Crossed(w, "homeroom")
    /\ Goto(w, IF req[w].seed = "feature" THEN "assignment" ELSE "transfer")
    /\ UNCHANGED <<seedOf, unscoped, terms, assigned, enrolled, dropped>>

\* ensureSingleActiveEnrollment: the other classes of the year first.
TransferFromOthers(w) ==
    /\ At(w, {"year"}, "transfer")
    /\ enrolled' = [c \in SeedClasses |->
          IF c # FixtureClass /\ enrolled[c] = "active" THEN "transferred" ELSE enrolled[c]]
    /\ ajar' = ajar \cup Crossed(w, "student")
    /\ Goto(w, "enrol")
    /\ UNCHANGED <<seedOf, unscoped, terms, assigned, shown, dropped>>

EnrolStudent(w) ==
    /\ At(w, {"year"}, "enrol")
    /\ enrolled' = [enrolled EXCEPT ![FixtureClass] = "active"]
    /\ ajar' = (IF ActiveClasses \subseteq {FixtureClass} THEN ajar \ {"student"} ELSE ajar)
                  \cup Crossed(w, "student")
    /\ dropped' = FALSE
    /\ Done(w)
    /\ UNCHANGED <<seedOf, unscoped, terms, assigned, shown>>

KillYearSeed(w) ==
    /\ req[w] # NoRequest
    /\ ajar' = ajar \cup HalfDone(w)
    /\ Done(w)
    /\ UNCHANGED <<seedOf, unscoped, terms, assigned, shown, enrolled, dropped>>

-----------------------------------------------------------------------------
(* The school: each in one transaction (SchoolYear, Homeroom) *)

AnyHalfDone == UNION {HalfDone(w) : w \in Workers}

ActivateTerm(t) ==
    /\ terms[t] = "ended"
    /\ terms' = [x \in TermIds |-> CASE x = t -> "active"
                                     [] x # t /\ terms[x] = "active" -> "ended"
                                     [] OTHER -> terms[x]]
    /\ ajar' = (ajar \ {"terms"}) \cup ({"terms"} \cap AnyHalfDone)
    /\ UNCHANGED <<req, seedOf, unscoped, assigned, shown, enrolled, dropped>>

AppointAnother ==
    /\ assigned # "another"
    /\ assigned' = "another" /\ shown' = "another"
    /\ ajar' = (ajar \ {"homeroom"}) \cup ({"homeroom"} \cap AnyHalfDone)
    /\ UNCHANGED <<req, seedOf, unscoped, terms, enrolled, dropped>>

\* Of a student that the seed has enrolled once.
MoveStudent(c) ==
    /\ c \notin ActiveClasses /\ \E x \in SeedClasses : enrolled[x] # "none"
    /\ enrolled' = [x \in SeedClasses |-> CASE x = c -> "active"
                                            [] x \in ActiveClasses -> "transferred"
                                            [] OTHER -> enrolled[x]]
    /\ ajar' = (ajar \ {"student"}) \cup ({"student"} \cap AnyHalfDone)
    /\ dropped' = FALSE
    /\ UNCHANGED <<req, seedOf, unscoped, terms, assigned, shown>>

-----------------------------------------------------------------------------
YearInit ==
    /\ req = Idle
    /\ seedOf \in Seeds
    /\ unscoped \in {FALSE, seedOf = "demo"}
    /\ terms = [t \in TermIds |-> "none"]
    /\ assigned = "none" /\ shown = "none"
    /\ enrolled = [c \in SeedClasses |-> "none"]
    /\ ajar = {} /\ dropped = FALSE

YearNext ==
    \/ \E w \in Workers :
          \/ \E seed \in Seeds : BeginYearSeed(w, seed)
          \/ SeedTerm(w)
          \/ EndOtherTerms(w)
          \/ UnscopeEnrolments(w)
          \/ SeedAssignment(w)
          \/ SeedShown(w)
          \/ TransferFromOthers(w)
          \/ EnrolStudent(w)
          \/ KillYearSeed(w)
    \/ \E t \in TermIds : ActivateTerm(t)
    \/ AppointAnother
    \/ \E c \in SeedClasses : MoveStudent(c)

YearSpec == YearInit /\ [][YearNext]_yearVars

-----------------------------------------------------------------------------
\* Every variable keeps its type.
YearTypeOK ==
    /\ req \in [Workers -> YearRequest \cup {NoRequest}]
    /\ seedOf \in Seeds /\ unscoped \in BOOLEAN
    /\ terms \in [TermIds -> {"none", "active", "ended"}]
    /\ assigned \in {"none", "fixture", "another"} /\ shown \in {"none", "fixture", "another"}
    /\ enrolled \in [SeedClasses -> {"none", "active", "transferred"}]
    /\ ajar \subseteq {"terms", "homeroom", "student"} /\ dropped \in BOOLEAN

Settled(what) == what \notin ajar \cup AnyHalfDone

\* With no run in between, or killed there, the school has one active term, unless the first
\* was activated by a seed that ends no other; the class shows the teacher who is assigned to
\* it, unless the schools' seed has kept another's assignment and shown its own teacher; and
\* the student is in one class once enrolled, or in none if the schools' seed took a student of
\* the demo's, whom the school had moved, for one of its own of old.
SampleSettles ==
    /\ Cardinality(ActiveTerms) <= 1 \/ ~Settled("terms")
    /\ \/ shown = assigned
       \/ seedOf = "schools" /\ shown = "fixture" /\ assigned = "another"
       \/ ~Settled("homeroom")
    /\ dropped => seedOf = "demo"
    /\ \/ Cardinality(ActiveClasses)
            = IF dropped \/ \A c \in SeedClasses : enrolled[c] = "none" THEN 0 ELSE 1
       \/ ~Settled("student")
=============================================================================
