SPECIFICATION ClientsSpec
CONSTANTS
  Users = {ana, bea, cid}
  Admins = {}
  Events = {e1}
  AttendeeReqs = {a1, a2}
  ManagerReqs = {m1}
  Capacities = {1}
  CapacityEdits = {1, 2}
  SlotEdits = {1}
  TextEdits <- OnlyFullTexts
  NoEvent = NoEvent
  NoReq = NoReq
  NoReply = NoReply
SYMMETRY Interchangeable
INVARIANTS
  TruthfulAnswers
  CancelFailsOnlyOverbooked
PROPERTIES
  OnlyDeathBreaksPromises
  SeatsFitUnlessEdited
