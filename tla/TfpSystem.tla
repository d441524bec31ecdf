----------------------------- MODULE TfpSystem ------------------------------
(***************************************************************************)
(* The file service as its users meet it: for every session a client       *)
(* (TfpClient) and the server process forked for it (TfpServer), joined by *)
(* a connection (TfpChannel), all processes over the same folders.         *)
(***************************************************************************)
EXTENDS TfpServer, TfpClient

CONSTANT LateReplies  \* may the timeout of three seconds beat an answer?

ASSUME SystemAssumption == LateReplies \in BOOLEAN

vars == <<channelVars, serverVars, clientVars>>

-----------------------------------------------------------------------------
Init ==
  /\ toSrv = [s \in Session |-> <<>>]
  /\ toCli = [s \in Session |-> <<>>]
  /\ open  = [s \in Session |-> FALSE]
  /\ ServerInit
  /\ ClientInit

(* No answer is on its way: the process has nothing left to handle.        *)
Quiet(s) ==
  \/ spc[s] \in {"dead", "returned"}
  \/ toSrv[s] = <<>> /\ spc[s] # "mkdir"

Serve(s)   == ServerStep(s)    /\ UNCHANGED clientVars
Act(s)     == UserAct(s)       /\ UNCHANGED serverVars
Read(s)    == ClientRead(s)    /\ UNCHANGED serverVars
Timeout(s) == ClientTimeout(s) /\ UNCHANGED serverVars
              /\ (LateReplies \/ Quiet(s))

Next == \E s \in Session : Serve(s) \/ Act(s) \/ Read(s) \/ Timeout(s)

Spec == Init /\ [][Next]_vars

(* The kernel runs every process, a read with bytes to return returns, and *)
(* a read without an answer times out.  Users owe nothing.                 *)
Fairness == \A s \in Session : /\ WF_vars(Serve(s))
                               /\ WF_vars(Read(s))
                               /\ WF_vars(Timeout(s))

FairSpec == Spec /\ Fairness

-----------------------------------------------------------------------------
TypeOK ==
  /\ toSrv \in [Session -> Seq(Message)]
  /\ toCli \in [Session -> Seq(Item)]
  /\ open \in [Session -> BOOLEAN]
  /\ ServerTypeOK
  /\ ClientTypeOK

(* No other session works in the folder of s, for its user or for one      *)
(* whose name leads to the same folder.                                    *)
Alone(s) == \A t \in Session \ {s} : Dir(t) # Dir(s)

Folder(s) == held[Dir(s)]

(* f is the only file that is called f on the server.                      *)
OnlyItself(f) == Sources(f) \subseteq {f}

-----------------------------------------------------------------------------
(* A server process works in no folder but the one the name of the user    *)
(* who is logged in to its client leads to, and before it has been told    *)
(* which one it has only the request that tells it (socketThread,          *)
(* cdirectory).                                                            *)
DirIsOwners ==
  \A s \in Session :
    /\ cdirectory[s] \in {NoName, Dir(s)}
    /\ cdirectory[s] = NoName =>
         /\ spc[s] = "main" /\ toCli[s] = <<>>
         /\ toSrv[s] \in {<<>>, << Msg("create", UserOf[s], 0) >>}

(* The main screen appears only over a folder that exists and a process    *)
(* that serves it, also when two sessions race through dirExist and mkdir  *)
(* and the second mkdir ends its process; and the process does not end as  *)
(* long as the client keeps the connection (create_Folder, send).          *)
FolderReady ==
  \A s \in Session :
    cpc[s] \notin {"new", "create", "stranded", "closed"} =>
      Dir(s) \in dirs /\ spc[s] \notin {"mkdir", "dead"}

(* A step that changes a folder is a step of a server process whose client *)
(* is logged in under a name that leads there (upload_mess, removeFile,    *)
(* mkdir).  The name need not be that of one user.                         *)
IdleIn(d) ==
  \A s \in Session : Dir(s) = d =>
    /\ spc'[s] = spc[s]
    /\ toSrv'[s] = toSrv[s]
    /\ packNum'[s] = packNum[s]

SameFolder(d) ==
  /\ held'[d] = held[d]
  /\ body'[d] = body[d]
  /\ (d \in dirs') = (d \in dirs)

FolderIsolation == [][\A d \in Directory : IdleIn(d) => SameFolder(d)]_vars

(* A listing in flight is one the client reads next or never: no reply of  *)
(* another kind is ever overtaken by it, and no other handler reads it as  *)
(* its own reply.  That rests on getFiles ending the program when its      *)
(* listing is late, and so on logout returning.                            *)
ListingIsAwaited ==
  \A s \in Session : ~ astray[s] => \A i \in 1..Len(toCli[s]) :
    toCli[s][i].kind = "listing" => cpc[s] = "list" /\ i + ListingLen - 1 = Len(toCli[s])

(* The table shows no file the server does not hold, as long as no other   *)
(* session works in the folder and getFiles has not returned something     *)
(* else (files is filled by getFiles, emptied by refreshFiles, and loses a *)
(* row before its delete is sent).  A row whose name other files are sent  *)
(* by may go with one of those.                                            *)
CacheSound ==
  \A s \in Session : Alone(s) /\ ~ astray[s] =>
    \A f \in files[s] : OnlyItself(f) => f \in Folder(s)

-----------------------------------------------------------------------------
(* What holds when no answer is late (LateReplies = FALSE).                *)

(* Replies keep step with requests: whatever the upload loop swallows and  *)
(* DOWNLOAD leaves unanswered, an idle client has no reply left to read.   *)
NoStaleReply ==
  \A s \in Session : cpc[s] = "idle" => toCli[s] = <<>>

(* While the client is there, what the upload loop has stored are the      *)
(* blocks of the announced file, from the first, in order, if no write has *)
(* failed (upload_mess, which looks at neither the code nor the number of  *)
(* a packet).                                                              *)
UploadStoredInOrder ==
  \A s \in Session :
    LET n == IF packNum[s] < numblock[s] THEN packNum[s] ELSE numblock[s]
        c == body[Dir(s)][filename[s]] IN
      /\ open[s] /\ spc[s] = "upload" /\ Alone(s)
      /\ filename[s] \notin spoilt[Dir(s)]
      => Len(c) >= n /\ \E g \in Sources(filename[s]) : \A i \in 1..n : c[i] = Block(g, i - 1)

(* A file whose every block was confirmed is held, and begins with all its *)
(* blocks in order, whatever the session did since, unless the process was *)
(* killed before fclose or a write failed (uploadFile, upload_mess).       *)
AckedBlocksKept ==
  \A s \in Session : Alone(s) =>
    \A f \in acked[s] : LET c == body[Dir(s)][SentAs[f]] IN
      BlocksOf[f] > 0 =>
        /\ SentAs[f] \in Folder(s)
        /\ SentAs[f] \notin spoilt[Dir(s)] => /\ Len(c) >= BlocksOf[f]
                                              /\ SubSeq(c, 1, BlocksOf[f]) = Full(f)

(* No block of a file ends up under a name it was not sent to, though the  *)
(* server takes whatever arrives during an upload for the next packet of   *)
(* that upload.                                                            *)
NoForeignBlock ==
  \A d \in Directory, f \in FileName : \A i \in 1..Len(body[d][f]) :
    body[d][f][i].file \in Sources(f) \cup {NoName}

(* deleteFile returns, and the list is fetched again, only after the file  *)
(* it named is gone, or remove has failed on that very file (case DELETE). *)
DeleteConfirmed ==
  [][\A s \in Session :
       Alone(s) /\ cpc[s] = "del" /\ cpc'[s] = "list"
         => SentAs[sel[s]] \notin Folder(s) \/ SentAs[sel[s]] \in stuck[Dir(s)]]_vars

-----------------------------------------------------------------------------
(* Liveness, under FairSpec.                                               *)

(* A handler of the main screen always returns to the user or ends the     *)
(* program: every read has an answer or a timeout, the JavaFX thread is    *)
(* not held for ever.                                                      *)
HandlerReturns ==
  \A s \in Session : cpc[s] \in Waiting ~> cpc[s] \in {"idle", "stranded", "closed"}

(* A process whose client went away in the middle of an upload does not    *)
(* stay in the upload loop, though nothing there looks at a closed         *)
(* connection.                                                             *)
UploadLoopLeft ==
  \A s \in Session : (~ open[s] /\ spc[s] = "upload") ~> spc[s] # "upload"

-----------------------------------------------------------------------------
(* What the README and the alerts of the client say, and the code does not *)
(* do.  Each is the subject of a run that finds a counterexample.          *)

(* "Upload file done!": a confirmed upload leaves the very file behind,    *)
(* even if every write succeeds and no process is killed.  The loop of     *)
(* upload_mess appends the packet after the last, and removes what it made *)
(* for a file without a byte.                                              *)
UploadIsIntact ==
  \A s \in Session : Alone(s) =>
    \A f \in acked[s] : SentAs[f] \notin spoilt[Dir(s)] =>
      SentAs[f] \in Folder(s) /\ body[Dir(s)][SentAs[f]] = Full(f)

(* "check duplicate file name": no upload request that waits for a process *)
(* in its main loop names a file the user already has.                     *)
DuplicateNameRefused ==
  \A s \in Session :
    Alone(s) /\ spc[s] = "main" /\ toSrv[s] # <<>> /\ Head(toSrv[s]).op = "upload"
      => Head(toSrv[s]).name \notin Folder(s)

=============================================================================
