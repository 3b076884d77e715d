SPECIFICATION MCSpec
CONSTANTS
  Host = Host
  Worker = Worker
  Peers = {p1}
  MaxGuards = 1
  Devices = {d1, d2}
  Waits = {w1, w2}
  MaxTime = 2
  Slack = 1
  None = none
  Requests = {1, 2, 3, 4}
  Asset <- Asset4
  MaxRestarts = 2
  NoModule = none
INVARIANTS NoStrandedRequest NoStrandedRelay WaitsAreServed OneModulePerAsset
PROPERTIES CoordinationProgresses
