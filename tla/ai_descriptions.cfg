SPECIFICATION FairSpec
CONSTANTS
  Workers = {w1}
  Users = {ana, bea}
  Requests = {r1, r2}
  MaxRequests = 2
  Window = 2
  MaxRetries = 2
  MaxTime = 3
INVARIANTS
  TypeOK
  WindowBound
PROPERTIES
  NoFalseRefusal
  Answered
