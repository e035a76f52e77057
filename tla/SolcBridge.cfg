CONSTANTS
  f = f
  g = g
  x = x
  y = y
  c = c
  Files = {f, g}
  Tokens = {x, y, c}
  Names = {x, y}
  ByteLength <- Widths
  Texts <- TwoTexts
  Builds = {b1, b2}
  MaxChanges = 4
SPECIFICATION Spec
INVARIANTS TypeOK RenameExactWhenFresh
PROPERTY OneProgram
SYMMETRY FileSymmetry
CHECK_DEADLOCK FALSE
