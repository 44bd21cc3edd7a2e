SPECIFICATION Spec
CONSTANTS
  n1 = n1
  n2 = n2
  NoBoot = NoBoot
  Nodes = {n1, n2}
  MaxStep = 2
  MaxVersion = 2
  Boot <- BootTwo
INVARIANTS
  TypeOK
  HostsInStep
  BootstrapInOrder
  ContainersConsistent
  SuccessIsComplete
PROPERTIES
  UpdateIsRolling
  ImplementsStepwise
  PlaybookEnds
