\* Jobs on devices that page, ignore pages, or list newest first, with any fault.
\* Deadlock is off: the device stops when its jobs, faults and ids are used up.
SPECIFICATION FairSpec
CONSTANTS
  Ids = {1, 2, 3}
  PageSize = 2
  MaxPages = 2
  MaxStatus = 2
  MaxCleanups = 2
  Devices <- SomeDevices
  Stored = {"in", "sent"}
  MaxStored = 2
  MaxEvents = 3
  Faults = {"connect", "http", "silent", "smtp", "expire"}
INVARIANTS ConfirmedMeansSent
PROPERTIES DeliveryContract ForwardsOldest RemailedOnlyAfterFailure EveryIncomingMailed
CHECK_DEADLOCK FALSE
