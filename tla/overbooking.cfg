SPECIFICATION Spec
CONSTANTS
  Users = {ana, bea, cid}
  Admins = {}
  Events = {e1}
  AttendeeReqs = {a1}
  ManagerReqs = {m1}
  Capacities = {1}
  CapacityEdits = {}
  SlotEdits = {1}
  TextEdits <- OnlyFullTexts
  NoEvent = NoEvent
  NoReq = NoReq
INVARIANTS
  NoOverbooking
