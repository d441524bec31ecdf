------------------------------ MODULE FileList ------------------------------
(***************************************************************************)
(* One server process at the level of bytes, and the folder it lists while *)
(* other processes of the same user change it: LIST_DIR with listFiles,    *)
(* which looks at a file three times, and the cases of socketThread that   *)
(* answer in one step.  Uploads with blocks are the subject of TfpServer.  *)
(***************************************************************************)
EXTENDS Wire, SequencesExt

CONSTANTS
  Size,        \* sizes of files
  BuffSize,    \* BUFF_SIZE of server.h: bytes of the buffer of an answer
  MaxChanges   \* bound of the model: changes made by other processes

ASSUME ListAssumption ==
  /\ Size \subseteq Nat
  /\ BuffSize \in Short \ {0}
  /\ MaxChanges \in Nat

VARIABLES
  names,       \* the names, as bytes, that files are stored under
  folder,      \* folder[n]: size of the file n; its domain are the names
  cdir,        \* cdirectory names the folder; FALSE: as yet it names none
  lpc,         \* where the process is
  todo,        \* names readdir has still to return
  cur,         \* the name readdir returned last
  stack,       \* the list of entries, newest first
  req,         \* bytes of the request in the socket
  reply,       \* bytes of the answers in the socket
  overlong,    \* history: an answer was longer than the buffer
  touched,     \* history: names changed since the last listing began
  had,         \* history: names with the sizes they had since then
  changes      \* changes made so far

scanVars == <<todo, cur, stack>>
histVars == <<touched, had, changes>>
listVars == <<names, folder, cdir, lpc, scanVars, req, reply, overlong, histVars>>

NoEntry == <<>>   \* the name of no file

-----------------------------------------------------------------------------
(* File entries.  The field size is an unsigned short; a folder shows the  *)
(* first two letters of "DIR" in its place.                                *)
EntryBug(n, dir, size) ==                     \* the size is kept whole
  [name |-> n, isDir |-> dir, size |-> size]

Entry(n, dir, size) == [name |-> n, isDir |-> dir, size |-> size % 65536]

DirMark == << 68, 73 >>

SizeBytes(e) == IF e.isDir THEN DirMark ELSE AddShort(e.size)

ListReply(es) ==
  << 50 >> \o AddShort(Len(es))
           \o FlattenSeq([i \in 1..Len(es) |-> Copy(es[i].name).bytes \o SizeBytes(es[i])])

(* What the table may show of a file: its size, and once it is gone what   *)
(* stat makes of that.                                                     *)
Shows(n)     == {<<n, folder[n] % 65536>>}
GoneMarks(n) == {<<n, ReadShort(DirMark)>>, <<n, 65535>>}

(* stat: the size, or -1, which the field turns into 65535.                *)
fileSizeBug(n) == IF n \in DOMAIN folder THEN folder[n] ELSE 0   \* no -1

fileSize(n) == IF n \in DOMAIN folder THEN folder[n] ELSE -1

(* stat: a file that is no longer there gives -1, which is true.           *)
isDir(n) == n \notin DOMAIN folder

(* A name goes; one that is not there is left alone.                       *)
Removed(n) ==
  /\ folder' = [m \in DOMAIN folder \ {n} |-> folder[m]]
  /\ IF n \in DOMAIN folder
     THEN touched' = touched \cup {n} /\ had' = had \cup GoneMarks(n)
     ELSE UNCHANGED <<touched, had>>

Untouched == UNCHANGED <<folder, touched, had>>

(* remove may fail, and nobody looks at its result.                        *)
removeFile(n) == Removed(n) \/ Untouched

(* fopen has emptied a file that was there, and remove fails.              *)
Emptied(n) ==
  /\ n \in DOMAIN folder
  /\ folder' = [folder EXCEPT ![n] = 0]
  /\ touched' = touched \cup {n}
  /\ had' = had \cup {<<n, 0>>}

-----------------------------------------------------------------------------
(* The requests.  The buffer is zeroed before recv, so the string a        *)
(* request carries ends although the text client sends no NUL.             *)
Asked(op) == lpc = "recv" /\ req # <<>> /\ req[1] = op /\ req' = <<>>

Name == EatString(Append(Tail(req), 0)).str

(* "Create Success" and "Delete success!", shortened.                      *)
StringAnswer == WriteString(<< 67 >>)

Answer(bytes) == reply' = reply \o bytes

(* create_Folder: without an answer, the process ends where mkdir fails,   *)
(* whatever the reason.  Every request names the one folder of the model.  *)
Create ==
  /\ Asked(48)
  /\ \/ cdir' = TRUE /\ Answer(StringAnswer) /\ UNCHANGED lpc
     \/ lpc' = "dead" /\ UNCHANGED <<cdir, reply>>
  /\ UNCHANGED <<names, folder, scanVars, overlong, histVars>>

ResListBug ==                                 \* nothing is sent
  /\ Asked(50)
  /\ UNCHANGED <<reply, names, folder, cdir, lpc, scanVars, overlong, histVars>>

(* case RES_LIST_DIR: the number is read and dropped.                      *)
ResList ==
  /\ Asked(50)
  /\ Answer(StringAnswer)
  /\ UNCHANGED <<names, folder, cdir, lpc, scanVars, overlong, histVars>>

(* case UPLOAD from the text client: the two bytes after the name are      *)
(* zeros, no block is awaited, and the file goes as soon as it is made.    *)
(* Where fopen fails nothing is sent: it does for a name that is empty, a  *)
(* dot or holds a slash, and may for any other.                            *)
Openable(n) == cdir /\ n \notin {<<>>, << 46 >>, << 46, 46 >>} /\ \A i \in 1..Len(n) : n[i] # 47

UploadNothing ==
  /\ Asked(51)
  /\ \/ Untouched /\ UNCHANGED reply
     \/ Openable(Name) /\ (Removed(Name) \/ Emptied(Name)) /\ Answer(<< 54 >>)
  /\ UNCHANGED <<names, cdir, lpc, scanVars, overlong, changes>>

(* case DELETE: removeMess, whose result is dropped.                       *)
removeMess ==
  /\ Asked(55)
  /\ IF cdir THEN removeFile(Name) ELSE Untouched
  /\ Answer(StringAnswer)
  /\ UNCHANGED <<names, cdir, lpc, scanVars, overlong, changes>>

(* Cases that do nothing, and default.                                     *)
Ignored == Byte \ {48, 49, 50, 51, 55, 57}

Ignore ==
  /\ req # <<>> /\ req[1] \in Ignored /\ Asked(req[1])
  /\ UNCHANGED <<names, folder, cdir, lpc, scanVars, reply, overlong, histVars>>

Exit ==
  /\ Asked(57)
  /\ lpc' = "closed"
  /\ UNCHANGED <<names, folder, cdir, scanVars, reply, overlong, histVars>>

-----------------------------------------------------------------------------
(* case LIST_DIR.                                                          *)

LastEntryBug == stack                         \* the next list goes on from here
LastEntry    == <<>>

(* opendir, and the first readdir, which fetches the names of a folder.    *)
BeginList ==
  /\ Asked(49)
  /\ lpc'   = "scan"
  /\ todo'  = IF cdir THEN DOMAIN folder ELSE {}
  /\ touched' = {}
  /\ had' = UNION {Shows(n) : n \in DOMAIN folder}
  /\ UNCHANGED <<names, folder, cdir, cur, stack, reply, overlong, changes>>

(* readdir and isDir: names that begin with a dot are passed over, and a   *)
(* file that has gone since is pushed as a folder.                         *)
ReadDir(n) ==
  /\ lpc = "scan" /\ n \in todo
  /\ todo' = todo \ {n}
  /\ IF n[1] = 46 THEN UNCHANGED <<lpc, cur, stack>>
     ELSE IF isDir(n) THEN stack' = << Entry(n, TRUE, 0) >> \o stack /\ UNCHANGED <<lpc, cur>>
     ELSE lpc' = "stat" /\ cur' = n /\ UNCHANGED stack
  /\ UNCHANGED <<names, folder, cdir, req, reply, overlong, histVars>>

(* fileSize, a stat later.                                                 *)
AddToStack ==
  /\ lpc = "stat"
  /\ lpc' = "scan"
  /\ cur' = NoEntry
  /\ stack' = << Entry(cur, FALSE, fileSize(cur)) >> \o stack
  /\ UNCHANGED <<names, folder, cdir, todo, req, reply, overlong, histVars>>

(* The answer is put together and sent.  Past the end of the buffer it     *)
(* overwrites what lies there: the process may be killed for that, or send *)
(* what it wrote.  The list is dropped, but never freed.                   *)
SendList ==
  /\ lpc = "scan" /\ todo = {}
  /\ stack' = LastEntry
  /\ LET bytes == ListReply(stack) IN
       \/ /\ Answer(bytes)
          /\ lpc' = "recv"
          /\ overlong' = (overlong \/ Len(bytes) > BuffSize)
       \/ /\ Len(bytes) > BuffSize
          /\ lpc' = "dead" /\ overlong' = TRUE /\ UNCHANGED reply
  /\ UNCHANGED <<names, folder, cdir, todo, cur, req, histVars>>

ProcessStep ==
  \/ Create \/ ResList \/ UploadNothing \/ removeMess \/ Ignore \/ Exit
  \/ BeginList \/ (\E n \in names : ReadDir(n)) \/ AddToStack \/ SendList

-----------------------------------------------------------------------------
(* Other processes of the user: an upload sets the size of a file, made    *)
(* for it or not, a delete removes one.                                    *)
PutFile(n, size) ==
  /\ changes < MaxChanges
  /\ folder' = [m \in DOMAIN folder \cup {n} |-> IF m = n THEN size ELSE folder[m]]
  /\ touched' = touched \cup {n}
  /\ had' = had \cup {<<n, size % 65536>>}
  /\ changes' = changes + 1
  /\ UNCHANGED <<names, cdir, lpc, scanVars, req, reply, overlong>>

Unlink(n) ==
  /\ changes < MaxChanges
  /\ n \in DOMAIN folder
  /\ Removed(n)
  /\ changes' = changes + 1
  /\ UNCHANGED <<names, cdir, lpc, scanVars, req, reply, overlong>>

Others == \E n \in names : Unlink(n) \/ \E size \in Size : PutFile(n, size)

-----------------------------------------------------------------------------
ListInit ==
  /\ \E held \in SUBSET names : folder \in [held -> Size]
  /\ lpc = "recv"
  /\ todo = {} /\ cur = NoEntry /\ stack = <<>>
  /\ reply = <<>>
  /\ overlong = FALSE
  /\ touched = {} /\ had = {} /\ changes = 0

ListTypeOK ==
  /\ DOMAIN folder \subseteq names /\ folder \in [DOMAIN folder -> Size \cup {0}]
  /\ cdir \in BOOLEAN /\ overlong \in BOOLEAN
  /\ lpc \in {"recv", "scan", "stat", "closed", "dead"}
  /\ todo \subseteq names /\ cur \in names \cup {NoEntry}
  /\ stack \in Seq([name : names, isDir : BOOLEAN, size : Short])
  /\ req \in Seq(Byte) /\ reply \in Seq(Byte)
  /\ touched \subseteq names
  /\ changes \in 0..MaxChanges

=============================================================================
