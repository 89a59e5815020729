SPECIFICATION InputSpec
CONSTANTS
  MaxInt = 7
  MaxPieces = 6
  MaxNames = 3
  RepairRows = 2
  MaxRepairRounds = 10
  Mangled = FALSE
INVARIANTS RepairLeavesNoTrace
