\* The run of the scripts again, and the routers of the IPv6 subnets.
SPECIFICATION Spec
CONSTANTS
  Names = {"local", "leaf1", "leaf2"}
  Local = "local"
  V6 = {"local", "leaf1"}
  Profiles <- MCProfiles
  Books = {"plan", "deploy"}
  LogBook = "plan"
  Mine = "mine"
  Named = "tripleo-mine"
  MaxRevs = 3
  MaxFaults = 2
CHECK_DEADLOCK FALSE
INVARIANT RoutersServe
