CONSTANTS
  k1 = k1  k2 = k2  c1 = c1  c2 = c2  c3 = c3
  Keys <- OneKey
  Calls <- Calls3
  NoTime = NoTime
  windowMs = 2
  max = 1
  blockDuration = 1
  maxKeys = 3
  OperatorMs = {3}
  MaxTime = 3
SPECIFICATION Spec
SYMMETRY Symmetry
PROPERTIES ErasesOnlyExpired
