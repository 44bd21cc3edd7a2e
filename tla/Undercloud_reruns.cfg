\* Two remote subnets, one of them IPv6; two workbooks; two failed calls and two changes of
\* the configuration.
SPECIFICATION Spec
CONSTANTS
  Names = {"local", "leaf1", "leaf2"}
  Local = "local"
  V6 = {"local", "leaf1"}
  Profiles <- MCProfiles
  Books = {"plan", "deploy"}
  LogBook = "plan"
  Mine = "mine"
  Named = "tripleo-mine"
  MaxRevs = 3
  MaxFaults = 2
INVARIANTS NeverRefused DoneIsInForce MineKept
PROPERTY BothConverge
CHECK_DEADLOCK FALSE
