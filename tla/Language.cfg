SPECIFICATION Spec
CONSTANTS
  MaxDepth = 30
  StringCap = 4
  Word = 255
  Pending = Pending
INVARIANTS TextReadsBack NothingLeftOut RuntimeExact RelaxVerdictsHold  StratifiedSound ContractsRun AdmittedKeepsRules
CHECK_DEADLOCK FALSE
