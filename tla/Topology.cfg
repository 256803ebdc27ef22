CONSTANTS
  Inputs <- AllInputs
  NoConf = NoConf
  Unparsable = Unparsable
  Unset = Unset
SPECIFICATION Spec
INVARIANTS TypeOK WithinArrays SysfsTopology ConfTopology
