\* Three copies of the client over two names.
SPECIFICATION Spec
CONSTANTS
  Client = {c1, c2, c3}
  Username = {ann, bob}
  NoUser = NoUser
  MaxRows = 2
INVARIANTS
  TypeOK
  SingleSession
  UniqueUsername
PROPERTY LockedStays
SYMMETRY Alike
