CONSTANTS
  users = users
  temp = temp
  tool = tool
  shell = shell
  alice = alice
  pc = pc
  web = web
  addr = addr
  svc = svc
  page = page
  r1 = r1
  r2 = r2
  d1 = d1
  d2 = d2
  Unattributed = unattributed
  Absent = Absent
  Pids = {1, 2, 3}
  Dumps <- MCDumps
  MinProcesses = 1
  Percent = 15
  f1 = f1
  f2 = f2
  archive = archive
  setup = setup
  None = None
  File <- Files
  Dir <- Folders
  Base <- Programs
  Path <- Paths
  Writable <- Writables
  Executable <- Runnable
  Distinctive <- OnlyTool
  Common <- OnlySetup
  Window = 2
  Telemetry <- Telemetries
  Arrival <- Arrivals
  CloseLost = FALSE
  Origin = {TRUE}
  Form <- Forms
  MaxClock = 4
  Events <- MCEvents
  Processes <- MCProcesses
  Findings <- MCFindings
  Request = {r1, r2}
  Views <- MCViews
  Initial <- MCInitial
  CacheLimit = 1
  MaxCommits = 5
SYMMETRY Swapped
SPECIFICATION PartSpec
INVARIANT LeadsStayLeads
INVARIANT CompositesIgnoreWidespread
INVARIANT InjectedStandsAlone
INVARIANT IndexesMissNothing
INVARIANT NoForeignLinks
INVARIANT TracedThroughRenames
INVARIANT DismissalIsExact
INVARIANT ManualEdgesWitnessed
INVARIANT AnswersAreCurrent
CHECK_DEADLOCK FALSE
