\* Is a name ever given to two accounts?
SPECIFICATION Spec
CONSTANTS
  Client = {c1, c2}
  Username = {ann, bob}
  NoUser = NoUser
  MaxRows = 2
INVARIANT UsernameTaken
SYMMETRY Alike
