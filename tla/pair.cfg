\* Two sessions of one folder, under two names, and one of another.
SPECIFICATION Spec
CONSTANTS
  s1 = s1
  s2 = s2
  s3 = s3
  ann = ann
  an2 = an2
  bob = bob
  big = big
  small = small
  empty = empty
  NoName = NoName
  Session = {s1, s2, s3}
  User = {ann, an2, bob}
  Directory = {ann, bob}
  FileName = {small}
  UserOf <- ThreeUsers
  FolderOf <- Folders2
  SentAs <- Uncut
  BlocksOf <- Blocks
  StringLen = 2
  ListingLen = 4
  MaxOps = 1
  MaxBlockNumber = 2
  LateReplies = FALSE
INVARIANTS
  DirIsOwners
  FolderReady
PROPERTY FolderIsolation
SYMMETRY SameFolderSwap
\* the system stops when every client has gone
CHECK_DEADLOCK FALSE
