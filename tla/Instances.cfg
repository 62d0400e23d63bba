SPECIFICATION InstancesSpec
CONSTANTS
  server = server
  first = first
  Process = {server, p1, p2, p3}
  InstanceId = {first, i1, i2}
  Port = {1}
  DefaultPort = 1
  Tries = 2
  NoId = NoId
  NoProcess = NoProcess
SYMMETRY Commands
INVARIANTS RuntimeTypeOK OneInstancePerPort DeletedForGood
PROPERTIES OnlyRivalsHideServers
CHECK_DEADLOCK FALSE
