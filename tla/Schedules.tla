------------------------------ MODULE Schedules ------------------------------
(***************************************************************************)
(* Timetables and their blocks: src/src/schedules.                         *)
(*                                                                         *)
(* addEntry and updateEntry look for a clash and write after it, with no   *)
(* transaction around the two; only one of the three rules they check (one *)
(* block per cell) is also a unique index. updateEntry checks the stored   *)
(* block merged with the request and then writes the request's fields      *)
(* only. An entry request is therefore Begin* (the checks) and a           *)
(* commit. The other handlers read only whether the row exists before they *)
(* write a status or a deletion mark, so one action each is enough; whom   *)
(* publishing announces is not modelled here.                              *)
(*                                                                         *)
(* History variables, never read by the actions: req[w].fresh (no block    *)
(* was written since w's checks), raced (blocks last written from stale    *)
(* checks), reopened (timetables taken back out of the archive).           *)
(***************************************************************************)
EXTENDS Naturals

CONSTANTS
    Schedules,      \* timetables, one per class section and academic year
    Entries,        \* identifiers of blocks
    Teachers,
    Rooms,
    Slots,          \* a day and a period row
    Tray,           \* neither: the block is not placed
    Authorised,     \* teachers with an active profile and a teaching contract in force
    NewBlocks,      \* blocks the clients add
    Changes,        \* field changes the clients ask for
    NoBlock,        \* an entry id that is free or soft-deleted
    Workers, NoRequest

Block == [schedule: Schedules, teacher: Teachers, room: Rooms, slot: Slots \cup {Tray}]

\* A change names some of the fields of a block.
Change == UNION {[fields -> Teachers \cup Rooms \cup Slots] :
                    fields \in SUBSET {"teacher", "room", "slot"}}

ASSUME SchedulesAssumption ==
    /\ Tray \notin Slots
    /\ NoBlock \notin Block
    /\ Authorised \subseteq Teachers
    /\ NewBlocks \subseteq Block
    /\ Changes \subseteq Change
    /\ \A c \in Changes :
          /\ "teacher" \in DOMAIN c => c["teacher"] \in Teachers
          /\ "room" \in DOMAIN c => c["room"] \in Rooms
          /\ "slot" \in DOMAIN c => c["slot"] \in Slots

VARIABLES
    schedule,   \* [Schedules -> ScheduleRow]
    entry,      \* [Entries -> Block \cup {NoBlock}]
    req,        \* [Workers -> Request \cup {NoRequest}]
    raced, reopened     \* history

vars == <<schedule, entry, req, raced, reopened>>

-----------------------------------------------------------------------------
ScheduleStatus == {"draft", "published", "archived"}

ScheduleRow == [status: ScheduleStatus \cup {"none"}, deleted: BOOLEAN]

Request ==
    [op: {"add"}, entry: Entries, block: NewBlocks, fresh: BOOLEAN]
      \cup
    [op: {"update"}, entry: Entries, change: Changes, fresh: BOOLEAN]

ASSUME NoRequestAssumption == NoRequest \notin Request

Found(s) == schedule[s].status # "none" /\ ~schedule[s].deleted

\* The timetables whose blocks occupy a teacher and a room.
InForce(s) == Found(s) /\ schedule[s].status # "archived"

Live(e) == entry[e] # NoBlock

Given(change, field, stored) == IF field \in DOMAIN change THEN change[field] ELSE stored

\* Mutant: the new teacher lands in the room column.
mergedIntoRoom(block, change) ==
    [block EXCEPT !.room = Given(change, "teacher", @), !.slot = Given(change, "slot", @)]

merged(block, change) ==
    [block EXCEPT !.teacher = Given(change, "teacher", @),
                  !.room = Given(change, "room", @),
                  !.slot = Given(change, "slot", @)]

-----------------------------------------------------------------------------
(* The three rules of checkEntryConflicts *)

SameSlot(b, e) == b.slot # Tray /\ Live(e) /\ entry[e].slot = b.slot

cellConflict(b, others) ==
    \E e \in others : SameSlot(b, e) /\ entry[e].schedule = b.schedule

teacherConflict(b, others) ==
    \E e \in others : SameSlot(b, e) /\ InForce(entry[e].schedule)
                      /\ entry[e].teacher = b.teacher

roomConflict(b, others) ==
    \E e \in others : SameSlot(b, e) /\ InForce(entry[e].schedule)
                      /\ entry[e].room = b.room

\* Mutant: rooms are not looked at.
ConflictExceptRooms(b, others) == cellConflict(b, others) \/ teacherConflict(b, others)

EntryConflict(b, others) ==
    cellConflict(b, others) \/ teacherConflict(b, others) \/ roomConflict(b, others)

\* validateEntryReferences: only a teacher with a contract in force may be assigned.
ValidReferences(b) == b.teacher \in Authorised

-----------------------------------------------------------------------------
(* Blocks *)

\* The checks of addEntry and updateEntry on the block b that e is meant to become.
BeginEntry(w, e, b, request) ==
    /\ req[w] = NoRequest
    /\ Found(b.schedule)
    /\ ValidReferences(b)
    /\ ~EntryConflict(b, Entries \ {e})
    /\ req' = [req EXCEPT ![w] = request]
    /\ UNCHANGED <<schedule, entry, raced, reopened>>

\* A new block gets an id that no stored block and no running request uses.
BeginAddEntry(w, e, b) ==
    /\ ~Live(e)
    /\ \A v \in Workers : req[v] # NoRequest => req[v].entry # e
    /\ BeginEntry(w, e, b, [op |-> "add", entry |-> e, block |-> b, fresh |-> TRUE])

BeginUpdateEntry(w, e, c) ==
    /\ Live(e)
    /\ BeginEntry(w, e, merged(entry[e], c),
                  [op |-> "update", entry |-> e, change |-> c, fresh |-> TRUE])

\* The row as the write leaves it: the new block, or the stored one with the fields of
\* the request; a block that was removed meanwhile stays removed.
Written(r) ==
    IF r.op = "add" THEN r.block
    ELSE IF Live(r.entry) THEN merged(entry[r.entry], r.change) ELSE NoBlock

\* schedule_entries_one_block_per_cell_idx: the database refuses a second block.
UniqueCell(e, b) ==
    b # NoBlock => ~cellConflict(b, Entries \ {e})

\* Every other check of a running entry request is out of date after this write.
Stale(w) ==
    [v \in Workers |->
        IF v = w THEN NoRequest
        ELSE IF req[v] # NoRequest
             THEN [req[v] EXCEPT !.fresh = FALSE]
             ELSE req[v]]

CommitEntry(w) ==
    LET r == req[w] IN
    /\ r # NoRequest
    /\ UniqueCell(r.entry, Written(r))
    /\ entry' = [entry EXCEPT ![r.entry] = Written(r)]
    /\ req' = Stale(w)
    /\ raced' = IF r.fresh THEN raced \ {r.entry} ELSE raced \cup {r.entry}
    /\ UNCHANGED <<schedule, reopened>>

\* The unique index makes the write fail.
RefuseEntry(w) ==
    LET r == req[w] IN
    /\ r # NoRequest
    /\ ~UniqueCell(r.entry, Written(r))
    /\ req' = [req EXCEPT ![w] = NoRequest]
    /\ UNCHANGED <<schedule, entry, raced, reopened>>

removeEntry(e) ==
    /\ Live(e)
    /\ entry' = [entry EXCEPT ![e] = NoBlock]
    /\ UNCHANGED <<schedule, req, raced, reopened>>

-----------------------------------------------------------------------------
(* Timetables *)

\* The client names the first status; it may be any.
Create(s) ==
    /\ schedule[s].status = "none"
    /\ \E status \in ScheduleStatus : schedule' = [schedule EXCEPT ![s].status = status]
    /\ UNCHANGED <<entry, req, raced, reopened>>

\* update with a status, and publish: any status follows any other.
SetStatus(s, to) ==
    /\ Found(s)
    /\ schedule' = [schedule EXCEPT ![s].status = to]
    /\ reopened' = IF schedule[s].status = "archived" /\ to # "archived"
                   THEN reopened \cup {s} ELSE reopened
    /\ UNCHANGED <<entry, req, raced>>

\* archive and remove.
archive(s) ==
    /\ Found(s)
    /\ schedule' = [schedule EXCEPT ![s] = [status |-> "archived", deleted |-> TRUE]]
    /\ UNCHANGED <<entry, req, raced, reopened>>

\* The process dies with the requests in flight.
Crash ==
    /\ \E w \in Workers : req[w] # NoRequest
    /\ req' = [w \in Workers |-> NoRequest]
    /\ UNCHANGED <<schedule, entry, raced, reopened>>

-----------------------------------------------------------------------------
Init ==
    /\ schedule = [s \in Schedules |-> [status |-> "none", deleted |-> FALSE]]
    /\ entry = [e \in Entries |-> NoBlock]
    /\ req = [w \in Workers |-> NoRequest]
    /\ raced = {}
    /\ reopened = {}

Next ==
    \/ \E s \in Schedules : Create(s) \/ archive(s)
    \/ \E s \in Schedules, to \in ScheduleStatus : SetStatus(s, to)
    \/ \E w \in Workers, e \in Entries, b \in NewBlocks : BeginAddEntry(w, e, b)
    \/ \E w \in Workers, e \in Entries, c \in Changes : BeginUpdateEntry(w, e, c)
    \/ \E w \in Workers : CommitEntry(w) \/ RefuseEntry(w)
    \/ \E e \in Entries : removeEntry(e)
    \/ Crash

Spec == Init /\ [][Next]_vars

-----------------------------------------------------------------------------
(* Properties *)

TypeOK ==
    /\ schedule \in [Schedules -> ScheduleRow]
    /\ entry \in [Entries -> Block \cup {NoBlock}]
    /\ req \in [Workers -> Request \cup {NoRequest}]
    /\ raced \subseteq Entries
    /\ reopened \subseteq Schedules

\* A cell of a timetable holds one block, whatever requests race for it.
OneBlockPerCell ==
    \A e, f \in Entries :
        /\ e # f /\ Live(e) /\ Live(f)
        /\ entry[e].slot # Tray /\ entry[e].slot = entry[f].slot
        => entry[e].schedule # entry[f].schedule

Clash(e, f) ==
    /\ Live(e) /\ Live(f)
    /\ InForce(entry[e].schedule) /\ InForce(entry[f].schedule)
    /\ entry[e].slot # Tray /\ entry[e].slot = entry[f].slot
    /\ entry[e].teacher = entry[f].teacher \/ entry[e].room = entry[f].room

\* Nobody teaches and no room is used twice at the same time, across all timetables in
\* force, unless one of the two blocks was written from stale checks or its timetable
\* came back from the archive, where its blocks had stopped counting.
NoDoubleBooking ==
    \A e, f \in Entries :
        e # f /\ Clash(e, f) =>
            \/ {e, f} \cap raced # {}
            \/ {entry[e].schedule, entry[f].schedule} \cap reopened # {}

\* One block in a cell, one cell for a teacher and for a room.
TimetableSound == OneBlockPerCell /\ NoDoubleBooking
=============================================================================
