CONSTANTS
  users = users
  temp = temp
  tool = tool
  shell = shell
  alice = alice
  pc = pc
  web = web
  addr = addr
  svc = svc
  page = page
  r1 = r1
  r2 = r2
  None = None
  Events <- MCEvents
  Processes <- MCProcesses
  Findings <- MCFindings
  Request = {r1}
  Views = {}
  Initial <- MCInitial
  CacheLimit = 1
  MaxCommits = 3
SPECIFICATION Spec
INVARIANT FindingsKeepToTheirPath
CHECK_DEADLOCK FALSE
