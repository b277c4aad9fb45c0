\* Two presenters of different builds and two daemons, two faults.
CONSTANTS
  p1 = p1
  p2 = p2
  old = old
  new = new
  Presenters = {p1, p2}
  MaxInstances = 2
  BuildOf <- Builds
  None = None
  MaxFaults = 2
SPECIFICATION Spec
INVARIANTS
  OneLiveDaemon
  ServingIsRegistered
PROPERTIES
  ReadyNamesTheServer
  Presented
CHECK_DEADLOCK FALSE
