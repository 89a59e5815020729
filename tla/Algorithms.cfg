SPECIFICATION InputSpec
CONSTANTS
  MaxInt = 7
  MaxPieces = 6
  MaxNames = 3
  RepairRows = 3
  MaxRepairRounds = 10
  Mangled = FALSE
INVARIANTS InOnePiece PairingSound KeyUniqueSound RouteSound DegradationTold RepairKeeps
