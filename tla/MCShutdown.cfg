CONSTANTS
  manager = manager
  client = client
  aliyun = aliyun
  audio = audio
  goke = goke
  Servers = {aliyun, audio}
  Manager = manager
  Client = client
  WaitsFor <- Chain
  Requestable = {audio}
  Threaded = {audio}
  MayFail = {audio}
  Capacity = 2
  MaxSignals = 1
  MaxRequests = 1
SPECIFICATION Spec
CHECK_DEADLOCK FALSE
INVARIANTS
  ReleasesInOrder
  ExitsWhenAnswered
  AnswersReach
PROPERTIES
  ImplementsExitOrder
  ShutdownCompletes
  ThreadsLetTheServerGo
