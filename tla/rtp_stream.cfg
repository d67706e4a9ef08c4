SPECIFICATION Spec
CONSTANTS
  MaxData = 3
  SeqMod = 102
  Contents <- MCContents
CHECK_DEADLOCK FALSE
INVARIANTS PacketsFollow StreamsUnits
