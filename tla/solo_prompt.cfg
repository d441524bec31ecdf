\* One session, every answer in time; the name empty is cut to small.
SPECIFICATION Spec
CONSTANTS
  s1 = s1
  s2 = s2
  s3 = s3
  ann = ann
  an2 = an2
  bob = bob
  big = big
  small = small
  empty = empty
  NoName = NoName
  Session = {s1}
  User = {ann}
  Directory = {ann}
  FileName = {big, small, empty}
  UserOf <- OneUser
  FolderOf <- Folders2
  SentAs <- Cut
  BlocksOf <- Blocks
  StringLen = 2
  ListingLen = 4
  MaxOps = 5
  MaxBlockNumber = 2
  LateReplies = FALSE
INVARIANTS
  TypeOK
  NoStaleReply
  UploadStoredInOrder
  AckedBlocksKept
  NoForeignBlock
PROPERTY DeleteConfirmed
\* the system stops when every client has gone
CHECK_DEADLOCK FALSE
