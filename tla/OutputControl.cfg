SPECIFICATION OutputsSpec
CONSTANT
  LimitTasks = {"modem"}
INVARIANTS
  LoneCallSetsOutputs
