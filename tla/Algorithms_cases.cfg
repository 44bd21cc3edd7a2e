SPECIFICATION Spec
CONSTANTS
  ServiceLists <- MCServiceLists
  ConfigVolumes = {"", "heat"}
  Configs <- MCConfigs
  Environments <- MCEnvironments
  Definitions <- MCDefinitions
  Templates <- MCTemplates
  Private = {"server"}
  Hidden = {"EndpointMap", "RoleName"}
  ServiceNames = {"nova", "osd", "mds"}
  RoleCases <- MCRoleCases
  ServiceCases <- MCServiceCases
  TaskCases <- MCTaskCases
  LineCases <- MCLineCases
\* the loops end
CHECK_DEADLOCK FALSE
INVARIANTS ServicesMerged EndpointsRight EnvironmentsRight ChecksRight
