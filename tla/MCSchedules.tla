----------------------------- MODULE MCSchedules -----------------------------
(* Two timetables, two blocks, one slot, and two teachers and rooms, so that a clash   *)
(* can come from the teacher alone, from the room alone, or from two changes to        *)
(* different fields of one block.  Clients add a placed and an unplaced block; citra    *)
(* has no teaching contract in force.                                                  *)
EXTENDS Schedules, TLC

CONSTANTS kelas7, kelas8, ani, budi, citra, lab, aula, mon1

MCSchedules == {kelas7, kelas8}
MCTeachers == {ani, budi, citra}
MCAuthorised == {ani, budi}
MCRooms == {lab, aula}
MCNewBlocks ==
    {[schedule |-> kelas7, teacher |-> ani, room |-> lab, slot |-> mon1],
     [schedule |-> kelas8, teacher |-> budi, room |-> lab, slot |-> Tray]}
MCChanges == {[teacher |-> ani], [teacher |-> citra], [room |-> aula], [slot |-> mon1]}
MCSymmetry == Permutations(Entries) \cup Permutations(Workers)
=============================================================================
