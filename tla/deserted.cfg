SPECIFICATION Spec
CONSTANTS
  api = api
  worker = worker
  Api <- MCApi
  Worker <- MCWorker
  Signal = {"SIGINT", "SIGTERM"}
  MaxWork = 2
INVARIANT
  PoolOutlivesWork
CHECK_DEADLOCK FALSE
