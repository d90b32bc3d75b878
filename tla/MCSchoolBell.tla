---------------------------- MODULE MCSchoolBell ----------------------------
(* Values for the runs of SchoolBell: see README for the bounds.           *)
EXTENDS SchoolBell, TLC

CONSTANTS class, yard

MCPlace == {class, yard}
MCClassroom == [p \in Chara |-> class]
MCTimetable == <<1, 2>>

(* What SchoolBellProofs assumes of the durations.                         *)
ASSUME RunFits == LessonsFit

Pupils == Permutations(Chara)
=============================================================================
