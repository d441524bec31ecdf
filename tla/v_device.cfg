\* Is an account ever open on two devices?
SPECIFICATION Spec
CONSTANTS
  Client = {c1, c2}
  Username = {ann, bob}
  NoUser = NoUser
  MaxRows = 2
INVARIANT OneDevice
SYMMETRY Alike
