SPECIFICATION Spec
CONSTANTS
  Handles = {1, 2, 3}
  Selected = {1, 2}
  Values = {4, 5}
  NoValue = 0
  Exports <- MCExports
  MayFail = TRUE
INVARIANTS TimesIncrease Faithful EndsAtLastTime
