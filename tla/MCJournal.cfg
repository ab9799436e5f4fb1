SPECIFICATION Spec
CONSTANTS
  ida = ida
  idb = idb
  k1 = k1
  k2 = k2
  zero = zero
  UMAX = 3
  ZeroId = zero
  Key <- MCKey
  Id <- MCId
  Capacity = 1
INVARIANTS TypeOK OneLine NoWrap
PROPERTY NeverRewound
