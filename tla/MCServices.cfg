SPECIFICATION Spec
CONSTANTS
  LocalOrder <- MCLocalOrder
  LocalDirectories <- MCLocalDirectories
  S3Order <- MCS3Order
  S3Directories <- MCS3Directories
  MaxFaults = 1
  PageSize = 2
  Publishers = {"controller", "agent"}
  MaxEvents = 4
  ClientBuffer = 2
  Channel = 1
  MaxDisconnects = 1
INVARIANT TakenInOrder
PROPERTIES
  ListContract
  ServicesFinish
