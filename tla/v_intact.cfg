\* Does a confirmed upload leave the very file behind?
SPECIFICATION Spec
CONSTANTS
  s1 = s1
  s2 = s2
  s3 = s3
  ann = ann
  an2 = an2
  bob = bob
  big = big
  small = small
  empty = empty
  NoName = NoName
  Session = {s1}
  User = {ann}
  Directory = {ann}
  FileName = {big, small}
  UserOf <- OneUser
  FolderOf <- Folders2
  SentAs <- Uncut
  BlocksOf <- Blocks
  StringLen = 2
  ListingLen = 4
  MaxOps = 3
  MaxBlockNumber = 2
  LateReplies = FALSE
INVARIANT UploadIsIntact
\* the system stops when every client has gone
CHECK_DEADLOCK FALSE
