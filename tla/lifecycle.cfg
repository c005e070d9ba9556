SPECIFICATION Spec
CONSTANTS
  api = api
  worker = worker
  Api <- MCApi
  Worker <- MCWorker
  Signal = {"SIGINT", "SIGTERM"}
  MaxWork = 2
INVARIANTS
  LosingTheRaceIsFine
  PoolOutlivesAttendedWork
PROPERTIES
  SignalsEndProcesses
CHECK_DEADLOCK FALSE
