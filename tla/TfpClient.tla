----------------------------- MODULE TfpClient ------------------------------
(***************************************************************************)
(* The main screen of the desktop client and the network service under it  *)
(* (MainScreenController, NetworkServiceImpl).  A button handler runs on   *)
(* the JavaFX thread, writes a request and reads the reply before it       *)
(* returns, so a session does one operation at a time; the states of cpc   *)
(* are the reads in which a handler can wait.  A read gives up after three *)
(* seconds: the operators named ...Timeout.                                *)
(***************************************************************************)
EXTENDS TfpChannel

CONSTANTS
  MaxOps,          \* bound of the model: buttons pressed in a session
  MaxBlockNumber   \* blocks of the largest file the controller lets through

ASSUME ClientAssumption == MaxOps \in Nat /\ MaxBlockNumber \in Nat

VARIABLES
  cpc,       \* where the client of the session is
  sel,       \* file of the operation under way
  blockNo,   \* block of an upload the client waits the reply of
  files,     \* the cached list of files, the rows of the table
  local,     \* files created in Downloads
  acked,     \* history: files whose latest upload was confirmed to the end
  astray,    \* history: the session went on after it had lost its listing
  ops        \* buttons pressed so far

clientVars == <<cpc, sel, blockNo, files, local, acked, astray, ops>>

Waiting == {"create", "list", "upreq", "upblk", "del", "dl", "dlblk"}

ClientInit ==
  /\ cpc     = [s \in Session |-> "new"]
  /\ sel     = [s \in Session |-> NoName]
  /\ blockNo = [s \in Session |-> 0]
  /\ files   = [s \in Session |-> {}]
  /\ local   = [s \in Session |-> {}]
  /\ acked   = [s \in Session |-> {}]
  /\ astray  = [s \in Session |-> FALSE]
  /\ ops     = [s \in Session |-> 0]

-----------------------------------------------------------------------------
Write(s, m) == toSrv' = [toSrv EXCEPT ![s] = Append(@, m)]
Take(s, n)  == toCli' = [toCli EXCEPT ![s] = SubSeq(@, n + 1, Len(@))]
Goto(s, p)  == cpc' = [cpc EXCEPT ![s] = p]

(* readString: everything up to the first NUL, whatever comes before it.   *)
HasString(s) == \E i \in 1..Len(toCli[s]) : toCli[s][i].kind = "nul"

TakeString(s) ==
  \E n \in 1..Len(toCli[s]) :
    /\ toCli[s][n].kind = "nul"
    /\ \A j \in 1..(n - 1) : toCli[s][j].kind # "nul"
    /\ Take(s, n)

(* The client lets go of the connection, last having written sent.  If it  *)
(* has left replies unread TCP resets, and the end of sent may be lost.    *)
Close(s, sent) ==
  /\ open' = [open EXCEPT ![s] = FALSE]
  /\ \E k \in 0..Len(sent) :
       /\ toCli[s] = <<>> => k = Len(sent)
       /\ toSrv' = [toSrv EXCEPT ![s] = SubSeq(sent, 1, k)]
  /\ toCli' = [toCli EXCEPT ![s] = <<>>]
  /\ Goto(s, "closed")

(* initialize and refreshFiles catch what createFolder and getFiles throw: *)
(* logout in the database and exit(1).  But logout may throw as well; then *)
(* the program stays, on the login screen when there is no other yet, and  *)
(* with its connection; what it had read is gone.                          *)
Catch(s) ==
  \/ Close(s, toSrv[s]) /\ UNCHANGED astray
  \/ /\ Goto(s, IF ops[s] = 0 THEN "stranded" ELSE "idle")
     /\ astray' = [astray EXCEPT ![s] = TRUE]
     /\ Take(s, Len(toCli[s]))
     /\ UNCHANGED <<toSrv, open>>

(* A button is pressed: the handlers run only from the idle screen.        *)
Press(s) ==
  /\ cpc[s] = "idle"
  /\ ops[s] < MaxOps
  /\ ops' = [ops EXCEPT ![s] = @ + 1]

-----------------------------------------------------------------------------
InitializeBug(s) ==                           \* the user name is not yet set
  /\ cpc[s] = "new"
  /\ open' = [open EXCEPT ![s] = TRUE]
  /\ Write(s, Msg("create", NoName, 0))
  /\ Goto(s, "create")
  /\ UNCHANGED <<toCli, sel, blockNo, files, local, acked, astray, ops>>

(* initialize: the constructor connects, createFolder sends '0'.           *)
Initialize(s) ==
  /\ cpc[s] = "new"
  /\ open' = [open EXCEPT ![s] = TRUE]
  /\ Write(s, Msg("create", UserOf[s], 0))
  /\ Goto(s, "create")
  /\ UNCHANGED <<toCli, sel, blockNo, files, local, acked, astray, ops>>

(* createFolder returns and getFiles asks for the list.                    *)
CreateFolderDone(s) ==
  /\ cpc[s] = "create"
  /\ TakeString(s)
  /\ Write(s, Msg("list", UserOf[s], 0))
  /\ Goto(s, "list")
  /\ UNCHANGED <<open, sel, blockNo, files, local, acked, astray, ops>>

(* getFiles reads a listing and adds its names to the cached list.         *)
ListDone(s) ==
  /\ cpc[s] = "list"
  /\ toCli[s] # <<>>
  /\ Head(toCli[s]).kind = "listing"
  /\ files' = [files EXCEPT ![s] = @ \cup Head(toCli[s]).names]
  /\ Take(s, ListingLen)
  /\ Goto(s, "idle")
  /\ UNCHANGED <<toSrv, open, sel, blockNo, local, acked, astray, ops>>

(* getFiles meets another reply first, or the rest of one.  Its first byte *)
(* goes for the code, the next two for a number of files.  If that number  *)
(* is too large for what there is, all of it is read before the timeout.   *)
(* If its high byte is 0, what follows may do for so many rows, and        *)
(* getFiles returns them; in a stream already out of step any two may do.  *)
ListMisread(s) ==
  /\ cpc[s] = "list"
  /\ toCli[s] # <<>>
  /\ Head(toCli[s]).kind # "listing"
  /\ \/ Catch(s)
     \/ /\ \E n \in 3..Len(toCli[s]) : Take(s, n)
        /\ toCli[s][2].kind = "nul" \/ astray[s]
        /\ Goto(s, "idle")
        /\ astray' = [astray EXCEPT ![s] = TRUE]
        /\ UNCHANGED <<toSrv, open>>
  /\ \E rows \in SUBSET FileName :
       /\ Len(toCli[s]) <= 3 \/ cpc'[s] = "closed" => rows = {}
       /\ files' = [files EXCEPT ![s] = @ \cup rows]
  /\ UNCHANGED <<sel, blockNo, local, acked, ops>>

(* Refresh button, and the end of a delete: clear, then getFiles.          *)
RefreshFiles(s) ==
  /\ files' = [files EXCEPT ![s] = {}]
  /\ Write(s, Msg("list", UserOf[s], 0))
  /\ Goto(s, "list")

RefreshListFiles(s) ==
  /\ Press(s)
  /\ RefreshFiles(s)
  /\ UNCHANGED <<toCli, open, sel, blockNo, local, acked, astray>>

-----------------------------------------------------------------------------
(* The files that f stands for on the server are not what was confirmed.   *)
Disown(s, f) ==
  acked' = [acked EXCEPT ![s] = {g \in @ : SentAs[g] # SentAs[f]}]

(* uploadFile: a small enough file whose name is not in the cached list.   *)
UploadFile(s, f) ==
  /\ Press(s)
  /\ BlocksOf[f] <= MaxBlockNumber
  /\ f \notin files[s]
  /\ sel' = [sel EXCEPT ![s] = f]
  /\ Disown(s, f)
  /\ Write(s, Msg("upload", SentAs[f], BlocksOf[f]))
  /\ Goto(s, "upreq")
  /\ UNCHANGED <<toCli, open, blockNo, files, local, astray>>

MoreBlocksBug(s, b) == b + 1 < BlocksOf[sel[s]]  \* the last block is left out

MoreBlocks(s, b) == b < BlocksOf[sel[s]]

(* Send block b of the file, or, past the last one, report success.  The   *)
(* cached list does not learn of the new file.                             *)
NextBlock(s, b) ==
  \/ /\ MoreBlocks(s, b)
     /\ Write(s, Msg("data", sel[s], b))
     /\ blockNo' = [blockNo EXCEPT ![s] = b]
     /\ Goto(s, "upblk")
     /\ UNCHANGED acked
  \/ /\ ~ MoreBlocks(s, b)
     /\ acked' = [acked EXCEPT ![s] = @ \cup {sel[s]}]
     /\ Goto(s, "idle")
     /\ UNCHANGED <<toSrv, blockNo>>

(* The reply to the request, then to a block: one byte, whatever it is.    *)
UpConfirm(s) ==
  /\ cpc[s] = "upreq"
  /\ toCli[s] # <<>>
  /\ Take(s, 1)
  /\ NextBlock(s, 0)
  /\ UNCHANGED <<open, sel, files, local, astray, ops>>

UpAck(s) ==
  /\ cpc[s] = "upblk"
  /\ toCli[s] # <<>>
  /\ Take(s, 1)
  /\ NextBlock(s, blockNo[s] + 1)
  /\ UNCHANGED <<open, sel, files, local, astray, ops>>

DropRowBug(s, f) == UNCHANGED files            \* the row stays until refreshed

DropRow(s, f) == files' = [files EXCEPT ![s] = @ \ {f}]

(* deleteFile of a row of the table; the row goes before the request.      *)
DeleteFile(s, f) ==
  /\ Press(s)
  /\ f \in files[s]
  /\ DropRow(s, f)
  /\ sel' = [sel EXCEPT ![s] = f]
  /\ Disown(s, f)
  /\ Write(s, Msg("delete", SentAs[f], 0))
  /\ Goto(s, "del")
  /\ UNCHANGED <<toCli, open, blockNo, local, astray>>

(* deleteFile: a string is taken for the reply, and the list is refreshed. *)
DelReply(s) ==
  /\ cpc[s] = "del"
  /\ TakeString(s)
  /\ RefreshFiles(s)
  /\ UNCHANGED <<open, sel, blockNo, local, acked, astray, ops>>

(* downloadFile of a row: createNewFile must make the local file.          *)
DownloadFile(s, f) ==
  /\ Press(s)
  /\ f \in files[s] \ local[s]
  /\ local' = [local EXCEPT ![s] = @ \cup {f}]
  /\ sel' = [sel EXCEPT ![s] = f]
  /\ Write(s, Msg("download", SentAs[f], 0))
  /\ Goto(s, "dl")
  /\ UNCHANGED <<toCli, open, blockNo, files, acked, astray>>

(* A code and a block count, taken from any three bytes that have come.    *)
DlHeader(s) ==
  /\ cpc[s] = "dl"
  /\ Len(toCli[s]) >= 3
  /\ Take(s, 3)
  /\ Write(s, Msg("confirm", NoName, 0))
  /\ Goto(s, "dlblk")
  /\ UNCHANGED <<open, sel, blockNo, files, local, acked, astray, ops>>

(* A block: three bytes, then the rest up to the timeout.                  *)
DlBlock(s) ==
  /\ cpc[s] = "dlblk"
  /\ Len(toCli[s]) >= 3
  /\ Take(s, Len(toCli[s]))
  /\ Write(s, Msg("confirm", NoName, 0))
  /\ UNCHANGED <<open, cpc, sel, blockNo, files, local, acked, astray, ops>>

-----------------------------------------------------------------------------
(* userLogout: '9', then the socket is closed.                             *)
UserLogout(s) ==
  /\ cpc[s] = "idle"
  /\ Close(s, Append(toSrv[s], Msg("exit", NoName, 0)))
  /\ UNCHANGED <<sel, blockNo, files, local, acked, astray, ops>>

(* The window is closed or the program dies: nothing is sent.              *)
Crash(s) ==
  /\ cpc[s] \notin {"new", "closed"}
  /\ Close(s, toSrv[s])
  /\ UNCHANGED <<sel, blockNo, files, local, acked, astray, ops>>

ExitTimeoutBug(s) ==                          \* the failure is swallowed
  /\ cpc[s] = "list" /\ toCli[s] = <<>>
  /\ Goto(s, "idle")
  /\ UNCHANGED <<channelVars, sel, blockNo, files, local, acked, astray, ops>>

(* createFolder and getFiles time out.                                     *)
ExitTimeout(s) ==
  /\ \/ cpc[s] = "create" /\ ~ HasString(s)
     \/ cpc[s] = "list" /\ toCli[s] = <<>>
  /\ Catch(s)
  /\ UNCHANGED <<sel, blockNo, files, local, acked, ops>>

(* uploadFile: no reply to the request is an alert; no reply to a block is *)
(* an error message to the server and an alert.                            *)
UpTimeout(s) ==
  /\ toCli[s] = <<>>
  /\ \/ cpc[s] = "upreq" /\ UNCHANGED toSrv
     \/ cpc[s] = "upblk" /\ Write(s, Msg("error", NoName, 0))
  /\ Goto(s, "idle")
  /\ UNCHANGED <<toCli, open, sel, blockNo, files, local, acked, astray, ops>>

(* deleteFile and downloadFile: what has come is consumed, then an alert   *)
(* or an exception of the handler; the session goes on.                    *)
ReplyTimeout(s) ==
  /\ \/ cpc[s] = "del" /\ ~ HasString(s)
     \/ cpc[s] \in {"dl", "dlblk"} /\ Len(toCli[s]) < 3
  /\ Take(s, Len(toCli[s]))
  /\ Goto(s, "idle")
  /\ UNCHANGED <<toSrv, open, sel, blockNo, files, local, acked, astray, ops>>

-----------------------------------------------------------------------------
ClientRead(s) ==
  \/ CreateFolderDone(s) \/ ListDone(s) \/ ListMisread(s)
  \/ UpConfirm(s) \/ UpAck(s) \/ DelReply(s)
  \/ DlHeader(s) \/ DlBlock(s)

ClientTimeoutBug(s) == ExitTimeout(s) \/ UpTimeout(s)  \* two reads wait for ever

ClientTimeout(s) == ExitTimeout(s) \/ UpTimeout(s) \/ ReplyTimeout(s)

UserAct(s) ==
  \/ Initialize(s) \/ RefreshListFiles(s) \/ UserLogout(s) \/ Crash(s)
  \/ \E f \in FileName : UploadFile(s, f) \/ DeleteFile(s, f) \/ DownloadFile(s, f)

ClientTypeOK ==
  /\ cpc \in [Session -> Waiting \cup {"new", "idle", "stranded", "closed"}]
  /\ sel \in [Session -> FileName \cup {NoName}]
  /\ \A s \in Session : cpc[s] \in {"upreq", "upblk"} => sel[s] \in FileName
  /\ blockNo \in [Session -> Nat]
  /\ files \in [Session -> SUBSET FileName]
  /\ local \in [Session -> SUBSET FileName]
  /\ acked \in [Session -> SUBSET FileName]
  /\ astray \in [Session -> BOOLEAN]
  /\ ops \in [Session -> 0..MaxOps]

=============================================================================
