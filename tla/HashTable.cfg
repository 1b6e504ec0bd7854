SPECIFICATION Spec
CONSTANTS
  k1 = k1
  k2 = k2
  k3 = k3
  k4 = k4
  Keys = {k1, k2, k3, k4}
  Values = {v1, v2}
  Missing = Missing
  HashCode <- MCHash
  InitSize = 4
  RehashingBuckets = 3
  MaxCount = 9
INVARIANT RehashIsSound
INVARIANT RehashKeepsPace
PROPERTY ReadYourWrites
PROPERTY RehashMakesRoom
PROPERTY KeysChangeOnRequest
