\* Two sessions of one folder, a file of one block and one without a byte.
SPECIFICATION Spec
CONSTANTS
  s1 = s1
  s2 = s2
  s3 = s3
  ann = ann
  an2 = an2
  bob = bob
  big = big
  small = small
  empty = empty
  NoName = NoName
  Session = {s1, s2}
  User = {ann, an2}
  Directory = {ann}
  FileName = {small, empty}
  UserOf <- ThreeUsers
  FolderOf <- Folders2
  SentAs <- Uncut
  BlocksOf <- Blocks
  StringLen = 2
  ListingLen = 4
  MaxOps = 2
  MaxBlockNumber = 2
  LateReplies = FALSE
PROPERTY KeepsFolders
SYMMETRY SameFolderSwap
\* the system stops when every client has gone
CHECK_DEADLOCK FALSE
