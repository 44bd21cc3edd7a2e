SPECIFICATION Spec
CONSTANTS
  nova = nova
  mysql = mysql
  conf = conf
  passwd = passwd
  api = api
  db = db
  None = None
  Volumes = {mysql}
  Files = {conf, passwd}
  PasswordFiles = {passwd}
  Privileged <- Never
  Startup = {api}
  StepOf <- TwoSteps
  Mounted <- OneMounted
  Matched <- OneMounted
  ProcessCount = 1
  BrokenOff = {{}}
  PullLimit = 2
  RunLimit = 2
  MaxStep = 2
  MaxVersion = 2
INVARIANTS
  TypeOK
  SaltIsTruthful
  AppliedIsCurrent
PROPERTIES
  PasswordKept
  RunEnds
