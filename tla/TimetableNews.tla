----------------------------- MODULE TimetableNews -----------------------------
(***************************************************************************)
(* Who is told that a timetable was published: src/src/schedules.  The     *)
(* clashes of its blocks are in Schedules, the way of a notification to    *)
(* the devices in Publishing; here the notifications of one announcement   *)
(* are one step.                                                           *)
(*                                                                         *)
(* publish and update read the timetable, write its status by id, and tell *)
(* the students of its class if the status they read was not published     *)
(* yet.  The class is read after the write.  Its teachers, who are read    *)
(* with the write, are left out.                                           *)
(*                                                                         *)
(* History variables, never read by the actions, about the time since the  *)
(* timetable was last made public: told and toldTwice; joined, who came    *)
(* into the class since; silent, it was made public by create, or by a     *)
(* request that was lost before it told anybody; atOnce, a request was at  *)
(* work on the timetable at the same time as another, and met, which did.  *)
(***************************************************************************)
EXTENDS Requests

CONSTANTS Readers       \* the students who may be in the class

Status == {"draft", "published", "archived"}

StatusRequest ==
    [op: {"status"}, step: {"write", "notify"}, to: Status, was: Status, met: BOOLEAN]

ASSUME TimetableNewsAssumption == NoRequest \notin StatusRequest

VARIABLES
    status,         \* Status \cup {"none"}
    archived,       \* BOOLEAN, deletedAt is set: the timetable is not found any more
    members,        \* SUBSET Readers, the class
    told, toldTwice, joined, silent, atOnce

newsVars == <<req, status, archived, members, told, toldTwice, joined, silent, atOnce>>

findSchedule == status # "none" /\ ~archived

\* The requests in flight have met another.
Met == [v \in Workers |-> IF req[v] = NoRequest THEN NoRequest ELSE [req[v] EXCEPT !.met = TRUE]]

\* The history starts again when the timetable is made public.
Publicised(to, quietly, met) ==
    IF to = "published" /\ status # "published"
    THEN /\ told' = {} /\ toldTwice' = {} /\ joined' = {}
         /\ silent' = quietly /\ atOnce' = met
    ELSE UNCHANGED <<told, toldTwice, joined, silent, atOnce>>

-----------------------------------------------------------------------------
\* A timetable may be made with any status, and nobody is told.
createSchedule(to) ==
    /\ status = "none"
    /\ status' = to /\ Publicised(to, TRUE, FALSE)
    /\ UNCHANGED <<req, archived, members>>

\* publish, or update with a status: the timetable is found.
BeginStatus(w, to) ==
    /\ findSchedule
    /\ req[w] = NoRequest
    /\ req' = [Met EXCEPT ![w] = [op |-> "status", step |-> "write", to |-> to, was |-> status,
                                  met |-> Others(w) # {}]]
    /\ atOnce' = (atOnce \/ Others(w) # {})
    /\ UNCHANGED <<status, archived, members, told, toldTwice, joined, silent>>

Tells(q) == q.to = "published" /\ q.was # "published"

\* By id: it may have been archived, and its status may be another, since.
WriteStatus(w) ==
    LET q == req[w] IN
    /\ At(w, {"status"}, "write")
    /\ status' = q.to /\ Publicised(q.to, FALSE, q.met)
    /\ IF Tells(q) THEN Goto(w, "notify") ELSE Done(w)
    /\ UNCHANGED <<archived, members>>

notifySchedulePublished(w) ==
    /\ At(w, {"status"}, "notify")
    /\ told' = told \cup members
    /\ toldTwice' = toldTwice \cup (told \cap members)
    /\ Done(w)
    /\ UNCHANGED <<status, archived, members, joined, silent, atOnce>>

\* The process dies, or the queue does not answer: the status stays as it was written.
LoseStatusRequest(w) ==
    /\ req[w] # NoRequest /\ Done(w)
    /\ silent' = (silent \/ req[w].step = "notify")
    /\ UNCHANGED <<status, archived, members, told, toldTwice, joined, atOnce>>

\* archive and remove.
archiveSchedule ==
    /\ findSchedule
    /\ status' = "archived" /\ archived' = TRUE
    /\ atOnce' = (atOnce \/ req # Idle) /\ req' = Met
    /\ UNCHANGED <<members, told, toldTwice, joined, silent>>

\* Enrolment into the class, and its end.
ChangeMember(r) ==
    /\ members' = IF r \in members THEN members \ {r} ELSE members \cup {r}
    /\ joined' = joined \cup (members' \ members)
    /\ UNCHANGED <<req, status, archived, told, toldTwice, silent, atOnce>>

-----------------------------------------------------------------------------
NewsInit ==
    /\ req = Idle
    /\ status = "none" /\ archived = FALSE
    /\ members \in SUBSET Readers
    /\ told = {} /\ toldTwice = {} /\ joined = {}
    /\ silent = FALSE /\ atOnce = FALSE

NewsNext ==
    \/ \E to \in Status : createSchedule(to)
    \/ \E w \in Workers :
          \/ \E to \in Status : BeginStatus(w, to)
          \/ WriteStatus(w)
          \/ notifySchedulePublished(w)
          \/ LoseStatusRequest(w)
    \/ archiveSchedule
    \/ \E r \in Readers : ChangeMember(r)

NewsSpec == NewsInit /\ [][NewsNext]_newsVars

-----------------------------------------------------------------------------
\* Every variable keeps its type.
NewsTypeOK ==
    /\ req \in [Workers -> StatusRequest \cup {NoRequest}]
    /\ status \in Status \cup {"none"}
    /\ archived \in BOOLEAN /\ silent \in BOOLEAN /\ atOnce \in BOOLEAN
    /\ members \cup told \cup toldTwice \cup joined \subseteq Readers

\* Who has been in the class since its timetable was made public is told of it, once, when
\* the request is over: unless it was created public or the request was lost before it told,
\* or another request was at work.  Only then is a timetable public that was archived, or
\* somebody told of one that is not public.
TimetableAnnounced ==
    LET telling == {w \in Workers : At(w, {"status"}, "notify")} IN
    \/ atOnce
    \/ /\ status = "published" /\ ~silent /\ telling = {} => members \subseteq told \cup joined
       /\ toldTwice = {}
       /\ status = "published" => ~archived
       /\ telling # {} => status = "published" /\ told = {}
       /\ silent => told = {}
=============================================================================
