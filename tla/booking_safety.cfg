SPECIFICATION Spec
CONSTANTS
  Users = {ana, bea, cid}
  Admins = {}
  Events = {e1}
  AttendeeReqs = {a1, a2}
  ManagerReqs = {m1}
  Capacities = {1, 2}
  CapacityEdits = {1}
  SlotEdits = {1}
  TextEdits <- AnyText
  NoEvent = NoEvent
  NoReq = NoReq
SYMMETRY InterchangeableUsers
INVARIANTS
  TypeOK
  OneRowPerAttendee
  RegisterNeverInternalError
  StoredRowsReadable
PROPERTIES
  LedgerSpec
