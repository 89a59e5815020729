SPECIFICATION Spec
CONSTANTS
  Schemas <- MCSchemas
  MaxRepairRounds = 10
  MaxExtra = 2
  NULL = NULL
INVARIANTS KeysResolve ReferencedDistinct PrimaryKeysDistinct DerivedFresh
