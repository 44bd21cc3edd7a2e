\* A change of the roles and networks; two seconds and two kills.
SPECIFICATION Spec
CONSTANTS
  Walks <- MCWalks
  Sources <- MCSources
  Datas <- MCDatas
  MaxRevs = 2
  Files = {"controller", "compute"}
  Params <- MCParams
  Reference <- MCReference
  Originals <- MCOriginals
  MaxTime = 1
  MaxKills = 2
CHECK_DEADLOCK FALSE
INVARIANTS RenderedIsCurrent CleanRemoves OriginalSaved ParametersKept MergeRepairs
PROPERTY Protected
