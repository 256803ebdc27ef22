CONSTANTS
  Inputs <- GapInputs
  NoConf = NoConf
  Unparsable = Unparsable
  Unset = Unset
SPECIFICATION Spec
INVARIANTS SysfsTopology
