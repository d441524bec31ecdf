\* The answer of two files fits the buffer of the server, that of two long
\* names or of three does not; the text client takes that of one in a recv.
CONSTANTS
  Size = {256, 65543}
  BuffSize = 12
  MaxChanges = 2
  TextRoom = 8
  MaxUnread = 8
  Line <- MCLine
  LocalName <- MCLocalName
  Cp1252 <- MCCp1252
SPECIFICATION Spec
INVARIANTS
  TypeOK
  UntouchedListed
  RowsHadTheirSize
  TextWaitsInVain
PROPERTIES
  DeleteHitsItsRow
  TextShowsAnswer
\* The text client may wait for ever for an answer that does not come.
CHECK_DEADLOCK FALSE
