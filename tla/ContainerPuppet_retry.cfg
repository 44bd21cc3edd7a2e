SPECIFICATION Spec
CONSTANTS
  nova = nova
  mysql = mysql
  conf = conf
  passwd = passwd
  api = api
  db = db
  None = None
  Volumes = {mysql}
  Files = {conf, passwd}
  PasswordFiles = {passwd}
  Privileged <- Never
  Startup = {db}
  StepOf <- OneStep
  Mounted <- OneMounted
  Matched <- OneMounted
  ProcessCount = 1
  BrokenOff = {}
  PullLimit = 5
  RunLimit = 3
  MaxStep = 1
  MaxVersion = 2
INVARIANT
  RetryGenerates
