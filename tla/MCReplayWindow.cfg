SPECIFICATION Spec
CONSTANTS
  n1 = n1
  n2 = n2
  n3 = n3
  Nonce <- MCNonce
  UMAX = 5
  Capacity = 2
  MaxAhead = 2
SYMMETRY NonceSymmetry
INVARIANTS
  TypeOK
  ReplayClosed
