SPECIFICATION Spec
CONSTANTS
  Bits <- const_Bits
  Shapes <- const_Shapes
  Inputs <- const_Inputs
  Percentiles <- const_Percentiles
  MaxSamples <- const_MaxSamples
INVARIANTS
  CountsMatchSamples
  SnapshotAccurate
