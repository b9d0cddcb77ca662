SPECIFICATION Spec
CONSTANTS
  Users = {ana, bea}
  Admins = {}
  Events = {e1}
  AttendeeReqs = {a1}
  ManagerReqs = {m1, m2}
  Capacities = {2}
  CapacityEdits = {1}
  SlotEdits = {2}
  TextEdits <- FullOrBlank
  NoEvent = NoEvent
  NoReq = NoReq
SYMMETRY InterchangeableManagers
INVARIANTS
  NoAttendeesInDraft
  StoredRowsReadable
PROPERTIES
  StatusMachineUnlessOvertaken
  PublishableUnlessOvertaken
