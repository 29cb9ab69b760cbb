SPECIFICATION InstrumentSpec
CONSTANTS
  Users = {capture, sync, cycle}
  Paths = {js1, js2}
  MaxRetries = 1
  Nobody = Nobody
  Boot = 1
  Warm = 2
  ResetTail = 1
  Grace = 2
  ReadyWait = 5
  Slack = 0
  GateWait = 6
  GoWait = 6
  Window = 4
  PlanFloor = 3
  Polls = 3
  Runs = 2
  Faults = 2
INVARIANTS TypeOK OpenWhileHeld GoIsSound WindowIsSound
PROPERTIES SharedSpec OpenReturns BothEnd
CHECK_DEADLOCK FALSE
