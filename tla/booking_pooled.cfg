SPECIFICATION PooledFairSpec
CONSTANTS
  Users = {ana, bea}
  Admins = {}
  Events = {e1}
  AttendeeReqs = {a1}
  ManagerReqs = {m1}
  DescribeReqs = {d1}
  Capacities = {1}
  CapacityEdits = {}
  SlotEdits = {}
  TextEdits <- OnlyFullTexts
  MaxConns = 2
  NoEvent = NoEvent
  NoReq = NoReq
INVARIANTS
  PooledTypeOK
  NothingLeftBehind
PROPERTIES
  ConnectionsComeBack
