SPECIFICATION Spec
CONSTANTS
  s1 = s1
  s2 = s2
  s3 = s3
  NoOne = NoOne
  Sender = {s1, s2, s3}
  Msg = {1, 2, 3}
  Byte = {0, 1, 10, 11, 12, 13, 14, 20, 21, 22, 30}
  MaxHold = 1
  MaxChunks = 3
  UMAX = 2
  Envs <- Tables
INVARIANTS TypeOK PiecesIntact WantExact RoundTrip
PROPERTY HandedUntouched
