SPECIFICATION Spec
CONSTANTS
  Users = {ana}
  Admins = {}
  Events = {e1}
  AttendeeReqs = {a1}
  ManagerReqs = {m1, m2}
  Capacities = {1}
  CapacityEdits = {1}
  SlotEdits = {}
  TextEdits <- OnlyFullTexts
  NoEvent = NoEvent
  NoReq = NoReq
PROPERTIES
  StatusMachine
