SPECIFICATION FairSpec
CONSTANTS
  IdxMod = 4
  EventLimit = 2
  IoLimit = 3
  MaxEvents = 2
  MaxFrames = 2
  MaxOwed = 1
  c1 = c1
  c2 = c2
  d1 = d1
  Clients <- MCClients
  Data <- MCData
  Empty = Empty
CHECK_DEADLOCK FALSE
PROPERTIES
  SubmittedIsTransmitted
