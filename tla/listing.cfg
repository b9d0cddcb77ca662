SPECIFICATION Spec
CONSTANTS
  Events = {e1, e2, e3}
  Dates = {1, 2, 3}
  Statuses = {"published", "cancelled"}
  StatusFilters = {"any", "cancelled"}
  DateFilters = {1, 2}
  Limits = {2}
  NoEvent = NoEvent
SYMMETRY Interchangeable
INVARIANTS
  TypeOK
  StillWalkComplete
  SkippedOnlyByLeaving
  RepeatedOnlyByComing
PROPERTIES
  PageMatchesTotal
