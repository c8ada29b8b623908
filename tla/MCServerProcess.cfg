SPECIFICATION Spec
CONSTANTS
  Servers = {"s1", "s2"}
  Launchers = {"l1"}
  Ports <- MCPorts
  Health = "health"
  Earlier = {"old", "older"}
  Lacking = {"older"}
  Foreign = "foreign"
  Nobody = "nobody"
CONSTRAINTS
  InOrder
  NoFailedLauncher
  LateRequests
  Leftovers
  Intruders
CHECK_DEADLOCK FALSE
INVARIANTS
  TrustIsServed
  ReadyIsServed
PROPERTIES
  BundlesStay
  LaunchIsServed
  ServersEnd
