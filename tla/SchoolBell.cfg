\* Two players and one classroom; a bell by hand in mid slot, whose lesson
\* is over before the next one rings.
SPECIFICATION Spec
CONSTANTS
  Chara = {p1, p2}
  class = class
  yard = yard
  Place <- MCPlace
  Classroom <- MCClassroom
  Timetable <- MCTimetable
  Slot = 9
  Pre = 2
  Grace = 2
  Speech = 1
  AnswerTime = 1
  Grading = 1
  Questions = 2
  Morning = 8
  Evening = 12
  Night = 17
  MaxChanges = 2
  HandTimes = {10}
CHECK_DEADLOCK FALSE
INVARIANTS
  RungMeansWelcome
  LessonsAreWhole
  TimetableKept
PROPERTY
  EveryLessonEnds
