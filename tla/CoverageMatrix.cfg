SPECIFICATION SearchSpec
CONSTANTS
  Pairs <- MCPairs
  MaxStages = 8
CHECK_DEADLOCK FALSE
INVARIANTS SearchIsMinimal ChosenIsBuildable
