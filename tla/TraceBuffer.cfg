SPECIFICATION Spec
CONSTANTS
  charA = charA
  charB = charB
  Chars = {charA, charB, invalid}
  Invalid = invalid
  Replacement = fffd
  ValueSets <- MCValueSets
  Limits = {4, 30}
  MaxWrite = 2
  MaxText = 6
INVARIANTS TextKept HeldBack
PROPERTY ShownStays
CHECK_DEADLOCK FALSE
