SPECIFICATION Spec
CONSTANTS
  PartWords = 32
  MIN_WILDERNESS = 8
  BIN_MAX_IDX = 5
  Sizes = {1, 7, 17}
  Aligns = {8}
  MaxLive = 3
  MaxEnd = 104
  WholeWild = TRUE
  RaggedCut = FALSE
INVARIANTS
  BinsHoldHoles
