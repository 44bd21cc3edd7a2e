\* Two or three heat templates that share two parameters, one with an excluded field, the base
\* endpoint map, two environments and a copy of one, an environment for hyperconverged nodes, and
\* a task file that is a template or unreadable.
SPECIFICATION Spec
CONSTANTS
  Files <- MCFiles
  Place <- MCPlace
  Base = "endpoint_map"
  Envs = {"tls", "public"}
  Copies = {"copy"}
  Original <- MCOriginal
  Ansible = {"tasks"}
  Params = {"Debug", "Ip"}
  Fields <- MCFields
  Exclusions <- MCExclusions
  Right <- MCRight
  RightMap = "new"
  Trees <- MCTrees
INVARIANTS ZeroIsClean FiveRoundsSuffice
PROPERTY Converges
CHECK_DEADLOCK FALSE
