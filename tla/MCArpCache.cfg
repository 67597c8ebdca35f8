SPECIFICATION Spec
CONSTANTS
  Size = 3
  AnyIp = AnyIp
  NoMac = NoMac
  a1 = a1
  a2 = a2
  a3 = a3
  a4 = a4
  m1 = m1
  m2 = m2
  Ips <- MCIps
  Macs <- MCMacs
  Hash <- MCHash
INVARIANTS
  OneEntry
  LookupIsLatest
  FaultsOnlyWhenFull
CHECK_DEADLOCK FALSE
