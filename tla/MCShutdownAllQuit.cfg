CONSTANTS
  manager = manager
  client = client
  aliyun = aliyun
  audio = audio
  goke = goke
  Servers = {aliyun, audio, goke}
  Manager = manager
  Client = client
  WaitsFor <- Chain
  Requestable = {audio}
  Threaded = {}
  MayFail = {}
  Capacity = 3
  MaxSignals = 1
  MaxRequests = 1
SPECIFICATION Spec
CHECK_DEADLOCK FALSE
INVARIANTS
  ExitsWhenAllQuit
