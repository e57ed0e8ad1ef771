\* The minimum and the initial limit are out of range: newPieceLimit repairs them.
SPECIFICATION FairSpec
CONSTANTS
  Workers = {w1, w2, w3}
  RawMin = 0
  RawMax = 2
  RawInitial = 9
  RawWindow = 2
INVARIANTS SlotsAccounted NoLostWakeup
PROPERTIES ExcessDrains NoStall EndedJobsLeave
