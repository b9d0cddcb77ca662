SPECIFICATION Spec
CONSTANTS
  Events = {e1}
  Sessions = {s1, s2}
  Writers = {w1, w2}
  Speakers = {p}
  Rooms = {x}
  Horizon = 1
  Windows <- WholeDay
  Wanted <- AnySlot
  NoSession = NoSession
  NoWriter = NoWriter
SYMMETRY Interchangeable
INVARIANTS
  NoDoubleBooking
