----------------------------- MODULE FileTable ------------------------------
(***************************************************************************)
(* The table of the desktop client, at the level of bytes: getFiles reads  *)
(* a listing byte by byte, and deleteFile sends the name of a row back.    *)
(* Strings are sequences of characters here; readString makes a character  *)
(* of each byte, getBytes makes bytes of characters in the charset of the  *)
(* platform.  Answers that are late are the subject of TfpClient.          *)
(***************************************************************************)
EXTENDS FileList

CONSTANT Cp1252   \* the bytes of windows-1252 for its characters above 255

ASSUME Cp1252Assumption ==
  \A c \in DOMAIN Cp1252 : c \in 256..USHRT_MAX /\ Cp1252[c] \in 128..159

VARIABLES
  charset,   \* the default charset of the client's platform
  dpc,       \* where the client is; "none": there is no desktop client
  rows,      \* rows of the table
  sel        \* name of the row whose delete is under way

tableVars == <<charset, dpc, rows, sel>>

Charset == {"utf8", "latin1", "cp1252"}

-----------------------------------------------------------------------------
(* getBytes: in UTF-8 a character takes one to three bytes.  ISO-8859-1    *)
(* has the characters below 256 as themselves; windows-1252 has others in  *)
(* the place of 128..159.  Both write a question mark for those they have  *)
(* not.                                                                    *)
Latin1(c) == IF c < 256 THEN c ELSE 63

Windows(c) ==
  IF c \in DOMAIN Cp1252 THEN Cp1252[c] ELSE IF c \in 128..159 THEN 63 ELSE Latin1(c)

Encode(cs, c) ==
  IF cs = "latin1" THEN << Latin1(c) >>
  ELSE IF cs = "cp1252" THEN << Windows(c) >>
  ELSE IF c < 128  THEN << c >>
  ELSE IF c < 2048 THEN << 192 + (c \div 64), 128 + (c % 64) >>
  ELSE << 224 + (c \div 4096), 128 + ((c \div 64) % 64), 128 + (c % 64) >>

GetBytes(cs, s) == FlattenSeq([i \in 1..Len(s) |-> Encode(cs, s[i])])

(* addString: as many bytes as the string has characters, and a NUL.       *)
AddString(cs, s) == WriteString(SubSeq(GetBytes(cs, s), 1, Len(s)))

(* The name the server stores a file under that is uploaded as s.          *)
StoredAs(cs, s) == EatString(AddString(cs, s)).str

-----------------------------------------------------------------------------
(* What getFiles makes of an answer b: rest[i] is what follows i rows.     *)
Parse(b) ==
  LET count == ReadShort(Tail(b))
      rest[i \in 0..count] ==
        IF i = 0 THEN SubSeq(b, 4, Len(b))
                 ELSE LET r == EatString(rest[i - 1]).rest IN SubSeq(r, 3, Len(r))
  IN  [i \in 1..count |-> LET e == EatString(rest[i - 1]) IN
                            [name |-> e.str, size |-> ReadShort(e.rest)]]

(* Refresh button: clear, getFiles.                                        *)
Refresh ==
  /\ dpc = "idle"
  /\ rows' = <<>>
  /\ req' = << 49 >>
  /\ dpc' = "list"
  /\ UNCHANGED <<charset, sel, reply>>

ReadRows ==
  /\ dpc = "list" /\ reply # <<>>
  /\ rows' = Parse(reply)
  /\ reply' = <<>>
  /\ dpc' = "idle"
  /\ UNCHANGED <<charset, sel, req>>

DeleteRowBug(i) ==                            \* the name is read once the row is gone
  LET left == RemoveAt(rows, i) IN
    /\ dpc = "idle" /\ left # <<>>
    /\ sel' = rows[i].name
    /\ rows' = left
    /\ req' = << 55 >> \o AddString(charset, left[1].name)
    /\ dpc' = "del"
    /\ UNCHANGED <<charset, reply>>

(* deleteFile of a row.                                                    *)
DeleteRow(i) ==
  /\ dpc = "idle"
  /\ sel' = rows[i].name
  /\ rows' = RemoveAt(rows, i)
  /\ req' = << 55 >> \o AddString(charset, rows[i].name)
  /\ dpc' = "del"
  /\ UNCHANGED <<charset, reply>>

(* The answer is read, and the list fetched again.                         *)
DeleteDone ==
  /\ dpc = "del" /\ reply # <<>>
  /\ rows' = <<>>
  /\ reply' = <<>>
  /\ req' = << 49 >>
  /\ dpc' = "list"
  /\ sel' = NoEntry
  /\ UNCHANGED charset

(* No answer comes: deleteFile goes on, getFiles ends the program unless   *)
(* the logout before exit(1) throws.                                       *)
NoAnswer ==
  /\ dpc \in {"list", "del"} /\ reply = <<>> /\ lpc = "dead"
  /\ \/ dpc' = "idle"
     \/ dpc = "list" /\ dpc' = "closed"
  /\ sel' = NoEntry
  /\ UNCHANGED <<charset, rows, req, reply>>

TableStep ==
  \/ Refresh \/ ReadRows \/ DeleteDone \/ NoAnswer
  \/ \E i \in 1..Len(rows) : DeleteRow(i)

TableTypeOK ==
  /\ charset \in Charset
  /\ dpc \in {"none", "idle", "list", "del", "closed"}
  /\ rows \in Seq([name : names, size : Short])
  /\ sel \in names \cup {NoEntry}

=============================================================================
