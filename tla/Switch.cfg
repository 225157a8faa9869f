CONSTANTS
  Tasks <- SwitchTasks
  MaxLocals = 1
  QUANTUM = 1
SPECIFICATION Spec
INVARIANTS
  ReturnValueArrives
  RestIntact
  ChargeWithinQuantum
