SPECIFICATION Spec
CONSTANTS
  nova = nova
  mysql = mysql
  conf = conf
  passwd = passwd
  api = api
  db = db
  None = None
  Volumes = {nova, mysql}
  Files = {conf}
  PasswordFiles = {}
  Privileged <- FirstOnly
  Startup = {api}
  StepOf <- OneStep
  Mounted <- TwoMounted
  Matched <- TwoMounted
  ProcessCount = 2
  BrokenOff = {}
  PullLimit = 1
  RunLimit = 1
  MaxStep = 1
  MaxVersion = 2
INVARIANT
  ExitZeroIsCurrent
PROPERTY
  ImplementsGeneration
