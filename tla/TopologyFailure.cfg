CONSTANTS
  Inputs <- FailureInputs
  NoConf = NoConf
  Unparsable = Unparsable
  Unset = Unset
SPECIFICATION Spec
INVARIANTS FailureReturns
