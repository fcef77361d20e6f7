CONSTANTS
  Goke = goke
  Clients = {audio, video}
  Capacity = 5
  MaxOther = 1
  MaxFaults = 1
SPECIFICATION Spec
CHECK_DEADLOCK FALSE
INVARIANTS
  SetUpAfterGokeRuns
PROPERTIES
  ClientsGoOn
  NotificationsEnd
