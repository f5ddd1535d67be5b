--------------------------- MODULE SchedulesProofs ----------------------------
(***************************************************************************)
(* Proofs about Schedules: types, one block in a cell, one cell for a      *)
(* teacher and for a room.  The unique index keeps the first rule by       *)
(* itself.  For the second, what is inductive is that the block a fresh    *)
(* request is about to write clashes with none in force, but for those of  *)
(* timetables that came back from the archive (ReadInv), and that blocks   *)
(* belong to timetables that have been created, so that only a timetable   *)
(* that comes back brings blocks into force (Placed).                      *)
(***************************************************************************)
EXTENDS Schedules, TLAPS

\* No block but e clashes with b, unless its timetable was reopened.
Free(b, e) ==
    \A f \in Entries \ {e} :
        /\ SameSlot(b, f)
        /\ InForce(entry[f].schedule)
        /\ entry[f].teacher = b.teacher \/ entry[f].room = b.room
        => entry[f].schedule \in reopened

\* What w checked still holds of the block it would write now.
ReadInv(w) ==
    req[w] # NoRequest /\ req[w].fresh /\ Written(req[w]) # NoBlock =>
        Free(Written(req[w]), req[w].entry)

\* Blocks, stored ones and those to be added, belong to timetables that exist.
Placed ==
    /\ \A e \in Entries : Live(e) => schedule[entry[e].schedule].status # "none"
    /\ \A w \in Workers :
          req[w] # NoRequest /\ req[w].op = "add" =>
              schedule[req[w].block.schedule].status # "none"

IInv == TypeOK /\ TimetableSound /\ Placed /\ \A w \in Workers : ReadInv(w)

-----------------------------------------------------------------------------
(* Blocks and requests *)

\* A change names other teachers, rooms and slots, never another timetable.
LEMMA MergedFields ==
    ASSUME NEW b \in Block, NEW c \in Changes
    PROVE  merged(b, c) \in Block /\ merged(b, c).schedule = b.schedule
<1>1. /\ Given(c, "teacher", b.teacher) \in Teachers
      /\ Given(c, "room", b.room) \in Rooms
      /\ Given(c, "slot", b.slot) \in Slots \cup {Tray}
  BY SchedulesAssumption DEF Given, Block
<1>  HIDE DEF Given
<1>  QED  BY <1>1 DEF merged, Block

\* What each kind of request holds.
LEMMA RequestFields ==
    ASSUME TypeOK, NEW w \in Workers, req[w] # NoRequest
    PROVE  /\ req[w] \in Request /\ req[w].entry \in Entries /\ req[w].fresh \in BOOLEAN
           /\ req[w].op \in {"add", "update"}
           /\ req[w].op = "add" => req[w].block \in Block
           /\ req[w].op = "update" => req[w].change \in Changes
<1>1. req[w] \in Request  BY DEF TypeOK
<1>2. NewBlocks \subseteq Block  BY SchedulesAssumption
<1>  QED  BY <1>1, <1>2 DEF Request

\* What a request writes, if anything, is a block of a timetable that exists.
LEMMA WrittenBlock ==
    ASSUME TypeOK, Placed, NEW w \in Workers, req[w] # NoRequest,
           Written(req[w]) # NoBlock
    PROVE  /\ Written(req[w]) \in Block
           /\ schedule[Written(req[w]).schedule].status # "none"
<1>1. CASE req[w].op = "add"
  BY <1>1, RequestFields DEF Written, Placed
<1>2. CASE req[w].op = "update"
  <2>1. Live(req[w].entry) /\ Written(req[w]) = merged(entry[req[w].entry], req[w].change)
    BY <1>2 DEF Written
  <2>2. entry[req[w].entry] \in Block /\ req[w].change \in Changes
    BY <1>2, <2>1, RequestFields DEF TypeOK, Live
  <2>3. Written(req[w]) \in Block /\ Written(req[w]).schedule = entry[req[w].entry].schedule
    BY <2>1, <2>2, MergedFields
  <2>  QED  BY <2>1, <2>3, RequestFields DEF Placed
<1>  QED  BY <1>1, <1>2, RequestFields

\* A request keeps what it knows while blocks at most go and timetables come into force only
\* from the archive.
LEMMA ReadKept ==
    ASSUME TypeOK, NEW w \in Workers, ReadInv(w), req'[w] = req[w],
           \A f \in Entries : Live(f)' =>
              /\ entry'[f] = entry[f]
              /\ InForce(entry[f].schedule)' =>
                    InForce(entry[f].schedule) \/ entry[f].schedule \in reopened',
           reopened \subseteq reopened'
    PROVE  ReadInv(w)'
<1>  SUFFICES ASSUME req[w] # NoRequest, req[w].fresh, Written(req[w])' # NoBlock
              PROVE  Free(Written(req[w]), req[w].entry)'
  BY DEF ReadInv
<1>1. Written(req[w])' = Written(req[w])
  BY RequestFields DEF Written, Live
<1>2. Free(Written(req[w]), req[w].entry)  BY <1>1 DEF ReadInv
<1>3. ASSUME NEW f \in Entries \ {req[w].entry},
             SameSlot(Written(req[w]), f)', InForce(entry[f].schedule)',
             entry'[f].teacher = Written(req[w])'.teacher \/ entry'[f].room = Written(req[w])'.room
      PROVE  entry'[f].schedule \in reopened'
  BY <1>1, <1>2, <1>3 DEF Free, SameSlot, Live, InForce, Found
<1>  QED  BY <1>3 DEF Free, Written, SameSlot, InForce, Found, Live

-----------------------------------------------------------------------------
(* The inductive step, one lemma for each kind of action *)

\* Timetables in force may change; the blocks stay, and clash no more but where one came back.
LEMMA StatusPreserves ==
    ASSUME IInv, schedule' \in [Schedules -> ScheduleRow],
           UNCHANGED <<entry, req, raced>>,
           reopened \subseteq reopened', reopened' \subseteq Schedules,
           \A s \in Schedules :
              /\ schedule[s].status # "none" => schedule'[s].status # "none"
              /\ schedule[s].status # "none" /\ InForce(s)' => InForce(s) \/ s \in reopened'
    PROVE  IInv'
<1>  USE DEF IInv
<1>1. TypeOK'  BY DEF TypeOK
<1>2. \A e \in Entries : Live(e) =>
         /\ entry[e].schedule \in Schedules /\ schedule[entry[e].schedule].status # "none"
         /\ InForce(entry[e].schedule)' =>
               InForce(entry[e].schedule) \/ entry[e].schedule \in reopened'
  BY DEF Placed, TypeOK, Live, Block
<1>3. OneBlockPerCell'  BY DEF TimetableSound, OneBlockPerCell, Live
<1>4. NoDoubleBooking'
  <2>1. SUFFICES ASSUME NEW e \in Entries, NEW f \in Entries, e # f, Clash(e, f)'
                 PROVE  \/ {e, f} \cap raced # {}
                        \/ {entry[e].schedule, entry[f].schedule} \cap reopened' # {}
    BY DEF NoDoubleBooking
  <2>2. Live(e) /\ Live(f)  BY <2>1 DEF Clash, Live
  <2>3. CASE InForce(entry[e].schedule) /\ InForce(entry[f].schedule)
    <3>1. Clash(e, f)  BY <2>1, <2>2, <2>3 DEF Clash
    <3>  QED  BY <2>1, <3>1 DEF TimetableSound, NoDoubleBooking
  <2>4. CASE ~(InForce(entry[e].schedule) /\ InForce(entry[f].schedule))
    BY <1>2, <2>1, <2>2, <2>4 DEF Clash, InForce, Found
  <2>  QED  BY <2>3, <2>4
<1>5. Placed'
  <2>1. \A e \in Entries : Live(e)' => schedule'[entry'[e].schedule].status # "none"
    BY <1>2 DEF Live
  <2>2. ASSUME NEW w \in Workers, req'[w] # NoRequest, req'[w].op = "add"
        PROVE  schedule'[req'[w].block.schedule].status # "none"
    <3>1. req[w].block \in Block  BY <2>2, RequestFields
    <3>2. req[w].block.schedule \in Schedules  BY <3>1 DEF Block
    <3>  QED  BY <2>2, <3>2 DEF Placed
  <2>  QED  BY <2>1, <2>2 DEF Placed
<1>6. ASSUME NEW w \in Workers  PROVE ReadInv(w)'
  <2>1. \A f \in Entries : Live(f)' =>
           /\ entry'[f] = entry[f]
           /\ InForce(entry[f].schedule)' =>
                 InForce(entry[f].schedule) \/ entry[f].schedule \in reopened'
    BY <1>2 DEF Live, InForce, Found
  <2>  QED  BY <2>1, ReadKept
<1>  QED  BY <1>1, <1>3, <1>4, <1>5, <1>6 DEF TimetableSound

\* A request that begins has found no clash with the block it is to write.
LEMMA BeginPreserves ==
    ASSUME IInv, NEW w \in Workers, NEW e \in Entries, NEW b \in Block, NEW q \in Request,
           BeginEntry(w, e, b, q), q.entry = e,
           \/ q.op = "add" /\ q.block = b
           \/ q.op = "update" /\ Live(e) /\ b = merged(entry[e], q.change)
    PROVE  IInv'
<1>  USE DEF IInv
<1>1. /\ req' = [req EXCEPT ![w] = q] /\ UNCHANGED <<schedule, entry, raced, reopened>>
      /\ Found(b.schedule) /\ ~EntryConflict(b, Entries \ {e})
  BY DEF BeginEntry
<1>2. req'[w] = q /\ \A v \in Workers \ {w} : req'[v] = req[v]
  BY <1>1 DEF TypeOK
<1>3. TypeOK'  BY <1>1 DEF TypeOK
<1>4. TimetableSound'
  BY <1>1 DEF TimetableSound, OneBlockPerCell, NoDoubleBooking, Clash, Live, InForce, Found
<1>5. Placed'
  <2>1. q.op = "add" => schedule[q.block.schedule].status # "none"
    BY <1>1 DEF Found
  <2>2. \A v \in Workers : req'[v] # NoRequest /\ req'[v].op = "add" =>
                              schedule'[req'[v].block.schedule].status # "none"
    BY <1>1, <1>2, <2>1 DEF Placed
  <2>3. \A x \in Entries : Live(x)' => schedule'[entry'[x].schedule].status # "none"
    BY <1>1 DEF Placed, Live
  <2>  QED  BY <2>2, <2>3 DEF Placed
<1>6. Free(b, e)
  BY <1>1 DEF Free, EntryConflict, teacherConflict, roomConflict
<1>7. Written(q) = b
  BY DEF Written
<1>8. ASSUME NEW v \in Workers  PROVE ReadInv(v)'
  <2>1. CASE v = w
    <3>1. Written(req[v])' = b  BY <1>1, <1>2, <1>7, <2>1 DEF Written, Live
    <3>2. Free(b, e)'  BY <1>1, <1>6 DEF Free, SameSlot, InForce, Found, Live
    <3>3. req'[v].entry = e  BY <1>2, <2>1
    <3>4. Free(Written(req[v]), req[v].entry)'
      BY <3>1, <3>2, <3>3 DEF Free, SameSlot, Live, InForce, Found
    <3>  QED  BY <3>4 DEF ReadInv
  <2>2. CASE v # w
    BY <1>1, <1>2, <2>2, ReadKept DEF Live, InForce, Found
  <2>  QED  BY <2>1, <2>2
<1>  QED  BY <1>3, <1>4, <1>5, <1>8

\* The index keeps the cell, and what a fresh request checked keeps the teacher and the room.
LEMMA CommitPreserves ==
    ASSUME IInv, NEW w \in Workers, CommitEntry(w)
    PROVE  IInv'
<1>  USE DEF IInv
<1>1. PICK e \in Entries, b \in Block \cup {NoBlock} :
         /\ e = req[w].entry /\ b = Written(req[w])
         /\ req[w] # NoRequest /\ req[w].fresh \in BOOLEAN
         /\ entry' = [entry EXCEPT ![e] = b]
         /\ b # NoBlock => ~cellConflict(b, Entries \ {e})
         /\ raced' = IF req[w].fresh THEN raced \ {e} ELSE raced \cup {e}
         /\ req' = Stale(w) /\ UNCHANGED <<schedule, reopened>>
  <2>1. req[w] # NoRequest /\ req[w].entry \in Entries /\ req[w].fresh \in BOOLEAN
    BY RequestFields DEF CommitEntry
  <2>2. Written(req[w]) \in Block \cup {NoBlock}  BY <2>1, WrittenBlock
  <2>  QED  BY <2>1, <2>2 DEF CommitEntry, UniqueCell
<1>2. b # NoBlock => schedule[b.schedule].status # "none"
  BY <1>1, WrittenBlock
<1>3. req[w].fresh /\ b # NoBlock => Free(b, e)
  BY <1>1 DEF ReadInv
<1>4. \A v \in Workers :
         /\ req'[v] \in Request \cup {NoRequest}
         /\ req'[v] # NoRequest =>
               /\ req[v] # NoRequest /\ req'[v].fresh = FALSE /\ req'[v].op = req[v].op
               /\ req'[v].op = "add" => req'[v].block = req[v].block
  <2>1. ASSUME NEW v \in Workers, req'[v] # NoRequest
        PROVE  /\ req'[v] \in Request
               /\ req[v] # NoRequest /\ req'[v].fresh = FALSE /\ req'[v].op = req[v].op
               /\ req'[v].op = "add" => req'[v].block = req[v].block
    <3>1. req[v] # NoRequest /\ req'[v] = [req[v] EXCEPT !.fresh = FALSE]
      BY <1>1, <2>1 DEF Stale
    <3>2. req[v] \in Request  BY <3>1, RequestFields
    <3>  QED  BY <3>1, <3>2 DEF Request
  <2>  QED  BY <2>1
<1>5. \A x \in Entries : entry'[x] = IF x = e THEN b ELSE entry[x]
  BY <1>1 DEF TypeOK
<1>6. TypeOK'
  <2>1. entry' \in [Entries -> Block \cup {NoBlock}]  BY <1>1, <1>2 DEF TypeOK
  <2>2. req' \in [Workers -> Request \cup {NoRequest}]  BY <1>1, <1>4 DEF Stale
  <2>3. raced' \subseteq Entries  BY <1>1 DEF TypeOK
  <2>  QED  BY <1>1, <2>1, <2>2, <2>3 DEF TypeOK
<1>7. Placed'
  <2>1. \A x \in Entries : Live(x)' => schedule'[entry'[x].schedule].status # "none"
    BY <1>1, <1>2, <1>5 DEF Placed, Live
  <2>2. \A v \in Workers : req'[v] # NoRequest /\ req'[v].op = "add" =>
                              schedule'[req'[v].block.schedule].status # "none"
    BY <1>1, <1>4 DEF Placed
  <2>  QED  BY <2>1, <2>2 DEF Placed
<1>8. OneBlockPerCell'
  <2>1. \A x \in Entries \ {e} :
           b # NoBlock /\ Live(x) /\ b.slot # Tray /\ b.slot = entry[x].slot =>
              entry[x].schedule # b.schedule
    BY <1>1 DEF cellConflict, SameSlot
  <2>  QED  BY <1>1, <1>5, <2>1 DEF TimetableSound, OneBlockPerCell, Live
<1>9. NoDoubleBooking'
  <2>1. ASSUME NEW f \in Entries, f # e, Clash(e, f)'
        PROVE  e \in raced' \/ entry'[f].schedule \in reopened'
    <3>1. CASE req[w].fresh
      <4>1. b # NoBlock /\ Free(b, e)  BY <1>1, <1>3, <1>5, <2>1, <3>1 DEF Clash, Live
      <4>2. SameSlot(b, f) /\ InForce(entry[f].schedule)
            /\ (entry[f].teacher = b.teacher \/ entry[f].room = b.room)
        BY <1>1, <1>5, <2>1 DEF Clash, Live, SameSlot, InForce, Found
      <4>  QED  BY <1>1, <1>5, <2>1, <4>1, <4>2 DEF Free
    <3>2. CASE ~req[w].fresh  BY <1>1, <3>2
    <3>  QED  BY <1>1, <3>1, <3>2
  <2>2. SUFFICES ASSUME NEW x \in Entries, NEW y \in Entries, x # y, Clash(x, y)'
                 PROVE  \/ {x, y} \cap raced' # {}
                        \/ {entry[x].schedule, entry[y].schedule}' \cap reopened' # {}
    BY DEF NoDoubleBooking
  <2>3. CASE x = e  BY <2>1, <2>2, <2>3
  <2>4. CASE y = e
    <3>1. Clash(y, x)'  BY <2>2 DEF Clash
    <3>  QED  BY <2>1, <2>2, <2>4, <3>1
  <2>5. CASE x # e /\ y # e
    <3>1. Clash(x, y) /\ entry'[x] = entry[x] /\ entry'[y] = entry[y]
      BY <1>1, <1>5, <2>2, <2>5 DEF Clash, Live, InForce, Found
    <3>2. \/ {x, y} \cap raced # {}
          \/ {entry[x].schedule, entry[y].schedule} \cap reopened # {}
      BY <2>2, <3>1 DEF TimetableSound, NoDoubleBooking
    <3>  QED  BY <1>1, <2>5, <3>1, <3>2
  <2>  QED  BY <2>3, <2>4, <2>5
<1>10. \A v \in Workers : ReadInv(v)'  BY <1>4 DEF ReadInv
<1>  QED  BY <1>6, <1>7, <1>8, <1>9, <1>10 DEF TimetableSound

\* Blocks that go and requests that are refused or lost break nothing.
LEMMA DropPreserves ==
    ASSUME IInv, entry' \in [Entries -> Block \cup {NoBlock}],
           \A e \in Entries : entry'[e] = entry[e] \/ entry'[e] = NoBlock,
           req' \in [Workers -> Request \cup {NoRequest}],
           \A w \in Workers : req'[w] = req[w] \/ req'[w] = NoRequest,
           UNCHANGED <<schedule, raced, reopened>>
    PROVE  IInv'
<1>  USE DEF IInv
<1>1. TypeOK'  BY DEF TypeOK
<1>2. \A e \in Entries : Live(e)' => Live(e) /\ entry'[e] = entry[e]  BY DEF Live
<1>3. OneBlockPerCell'  BY <1>2 DEF TimetableSound, OneBlockPerCell
<1>4. NoDoubleBooking'
  <2>1. ASSUME NEW e \in Entries, NEW f \in Entries, Clash(e, f)'
        PROVE  Clash(e, f) /\ entry'[e] = entry[e] /\ entry'[f] = entry[f]
    BY <1>2, <2>1 DEF Clash, InForce, Found
  <2>  QED  BY <2>1 DEF TimetableSound, NoDoubleBooking
<1>5. Placed'
  <2>1. \A e \in Entries : Live(e)' => schedule'[entry'[e].schedule].status # "none"
    BY <1>2 DEF Placed
  <2>2. \A v \in Workers : req'[v] # NoRequest /\ req'[v].op = "add" =>
                              schedule'[req'[v].block.schedule].status # "none"
    BY DEF Placed
  <2>  QED  BY <2>1, <2>2 DEF Placed
<1>6. ASSUME NEW w \in Workers  PROVE ReadInv(w)'
  <2>1. CASE req'[w] = NoRequest  BY <2>1 DEF ReadInv
  <2>2. CASE req'[w] = req[w]
    <3>1. \A f \in Entries : Live(f)' =>
             /\ entry'[f] = entry[f]
             /\ InForce(entry[f].schedule)' => InForce(entry[f].schedule)
      BY <1>2 DEF InForce, Found
    <3>  QED  BY <2>2, <3>1, ReadKept
  <2>  QED  BY <2>1, <2>2
<1>  QED  BY <1>1, <1>3, <1>4, <1>5, <1>6 DEF TimetableSound

-----------------------------------------------------------------------------
(* Theorems *)

LEMMA InitInductive == Init => IInv
<1>  SUFFICES ASSUME Init  PROVE IInv
  OBVIOUS
<1>1. TypeOK  BY DEF Init, TypeOK, ScheduleRow
<1>2. TimetableSound
  BY DEF Init, TimetableSound, OneBlockPerCell, NoDoubleBooking, Clash, Live
<1>3. Placed /\ \A w \in Workers : ReadInv(w)  BY DEF Init, Placed, ReadInv, Live
<1>  QED  BY <1>1, <1>2, <1>3 DEF IInv

LEMMA NextInductive == IInv /\ [Next]_vars => IInv'
<1>  SUFFICES ASSUME IInv, [Next]_vars  PROVE IInv'
  OBVIOUS
<1>  USE DEF IInv
<1>1. ASSUME NEW s \in Schedules, Create(s)  PROVE IInv'
  <2>1. PICK status \in ScheduleStatus : schedule' = [schedule EXCEPT ![s].status = status]
    BY <1>1 DEF Create
  <2>2. /\ schedule[s].status = "none"
        /\ schedule[s] \in ScheduleRow
        /\ \A x \in Schedules \ {s} : schedule'[x] = schedule[x]
        /\ schedule'[s] = [schedule[s] EXCEPT !.status = status]
    BY <1>1, <2>1 DEF Create, TypeOK
  <2>3. schedule' \in [Schedules -> ScheduleRow]
    BY <2>1, <2>2 DEF TypeOK, ScheduleRow
  <2>4. \A x \in Schedules : schedule[x].status # "none" => schedule'[x] = schedule[x]
    BY <2>2
  <2>  QED  BY <1>1, <2>3, <2>4, StatusPreserves DEF Create, TypeOK, InForce, Found
<1>2. ASSUME NEW s \in Schedules, archive(s)  PROVE IInv'
  <2>1. /\ \A x \in Schedules \ {s} : schedule'[x] = schedule[x]
        /\ schedule'[s] = [status |-> "archived", deleted |-> TRUE]
    BY <1>2 DEF archive, TypeOK
  <2>2. schedule' \in [Schedules -> ScheduleRow]
    BY <1>2, <2>1 DEF archive, TypeOK, ScheduleRow, ScheduleStatus
  <2>  QED  BY <1>2, <2>1, <2>2, StatusPreserves DEF archive, TypeOK, InForce, Found
<1>3. ASSUME NEW s \in Schedules, NEW to \in ScheduleStatus, SetStatus(s, to)  PROVE IInv'
  <2>1. /\ \A x \in Schedules \ {s} : schedule'[x] = schedule[x]
        /\ schedule'[s] = [schedule[s] EXCEPT !.status = to]
        /\ schedule[s] \in ScheduleRow
    BY <1>3 DEF SetStatus, TypeOK
  <2>2. /\ schedule'[s] \in ScheduleRow /\ schedule'[s].status = to
        /\ schedule'[s].deleted = schedule[s].deleted
    BY <2>1 DEF ScheduleRow
  <2>3. schedule' \in [Schedules -> ScheduleRow]
    BY <1>3, <2>1, <2>2 DEF SetStatus, TypeOK
  <2>4. /\ reopened \subseteq reopened' /\ reopened' \subseteq Schedules
        /\ schedule[s].status = "archived" /\ to # "archived" => s \in reopened'
        /\ to # "none"
    BY <1>3 DEF SetStatus, TypeOK, ScheduleStatus
  <2>  QED  BY <1>3, <2>1, <2>2, <2>3, <2>4, StatusPreserves DEF SetStatus, InForce, Found
<1>4. ASSUME NEW w \in Workers, NEW e \in Entries, NEW b \in NewBlocks, BeginAddEntry(w, e, b)
      PROVE  IInv'
  <2>  DEFINE q == [op |-> "add", entry |-> e, block |-> b, fresh |-> TRUE]
  <2>1. q \in Request /\ q.op = "add" /\ q.block = b /\ q.entry = e  BY DEF Request
  <2>2. b \in Block  BY SchedulesAssumption
  <2>3. BeginEntry(w, e, b, q)  BY <1>4 DEF BeginAddEntry
  <2>  HIDE DEF q
  <2>  QED  BY <2>1, <2>2, <2>3, BeginPreserves
<1>5. ASSUME NEW w \in Workers, NEW e \in Entries, NEW c \in Changes, BeginUpdateEntry(w, e, c)
      PROVE  IInv'
  <2>  DEFINE q == [op |-> "update", entry |-> e, change |-> c, fresh |-> TRUE]
              b == merged(entry[e], c)
  <2>1. q \in Request /\ q.op = "update" /\ q.change = c /\ q.entry = e  BY DEF Request
  <2>2. Live(e) /\ entry[e] \in Block  BY <1>5 DEF BeginUpdateEntry, Live, TypeOK
  <2>3. b \in Block  BY <2>2, MergedFields
  <2>4. BeginEntry(w, e, b, q)  BY <1>5 DEF BeginUpdateEntry
  <2>5. b = merged(entry[e], q.change)  BY <2>1
  <2>  HIDE DEF q, b
  <2>  QED  BY <2>1, <2>2, <2>3, <2>4, <2>5, BeginPreserves
<1>6. ASSUME NEW w \in Workers, CommitEntry(w)  PROVE IInv'
  BY <1>6, CommitPreserves
<1>7. ASSUME NEW w \in Workers, RefuseEntry(w)  PROVE IInv'
  BY <1>7, DropPreserves DEF RefuseEntry, TypeOK
<1>8. ASSUME NEW e \in Entries, removeEntry(e)  PROVE IInv'
  BY <1>8, DropPreserves DEF removeEntry, TypeOK
<1>9. CASE Crash
  BY <1>9, DropPreserves DEF Crash, TypeOK
<1>10. CASE UNCHANGED vars
  BY <1>10, DropPreserves DEF vars, TypeOK
<1>  QED
  BY <1>1, <1>2, <1>3, <1>4, <1>5, <1>6, <1>7, <1>8, <1>9, <1>10 DEF Next

\* Every entry request knows what it checked, as long as no block was written since.
THEOREM SchedulesInductive == Spec => []IInv
BY InitInductive, NextInductive, PTL DEF Spec

\* Timetables, blocks and requests keep their types, for any number of each.
THEOREM SchedulesTypeCorrect == Spec => []TypeOK
<1>1. IInv => TypeOK  BY DEF IInv
<1>  QED  BY <1>1, SchedulesInductive, PTL

\* A cell holds one block, and nobody teaches and no room is used twice at a time, but by a
\* block written from stale checks or in a timetable that came back from the archive.
THEOREM TimetableStaysSound == Spec => []TimetableSound
<1>1. IInv => TimetableSound  BY DEF IInv
<1>  QED  BY <1>1, SchedulesInductive, PTL
=============================================================================
