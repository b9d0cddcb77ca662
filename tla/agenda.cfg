SPECIFICATION Spec
CONSTANTS
  Events = {e1}
  Sessions = {s1, s2}
  Writers = {w1, w2}
  Speakers = {p, q}
  Rooms = {x, y}
  Horizon = 3
  Windows <- Shortened
  Wanted <- Programme
  NoSession = NoSession
  NoWriter = NoWriter
SYMMETRY Interchangeable
INVARIANTS
  TypeOK
PROPERTIES
  ClashesComeLate
  WindowsLostLate
  FrozenUnlessOvertaken
  TimetableSpec
