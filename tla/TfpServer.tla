----------------------------- MODULE TfpServer ------------------------------
(***************************************************************************)
(* The server process of a connection: socketThread (server.c) with the    *)
(* helpers it calls (tfp.c, file.c).  Every connection has a process of    *)
(* its own, made by fork, so the processes share nothing but the folders   *)
(* under SERVER_ROOT; the mutex of socketThread is private to a process.   *)
(*                                                                         *)
(* One recv takes one or more of the messages that wait, whole, and only   *)
(* the first of them is looked at.  A process that is alone with a closed  *)
(* connection in the main loop keeps calling recv without effect: it       *)
(* stutters.                                                               *)
(***************************************************************************)
EXTENDS TfpChannel

VARIABLES
  spc,          \* where the process of the session is
  cdirectory,   \* the folder it works in; NoName before CREATE_FOLDER
  filename,     \* file the upload loop writes to
  numblock,     \* number of blocks announced for it
  packNum,      \* number of packets stored so far
  linked,       \* the open file still has its name in the folder
  dirs,         \* folders that exist
  held,         \* held[d]: names of the files in the folder d
  body,         \* body[d][f]: contents of the file f in the folder d
  spoilt,       \* history: spoilt[d]: files that may lack what was written to them
  stuck         \* history: stuck[d]: names whose latest remove has failed

diskVars   == <<dirs, held, body, spoilt, stuck>>
uploadVars == <<filename, numblock, packNum, linked>>
serverVars == <<spc, cdirectory, filename, numblock, packNum, linked,
                dirs, held, body, spoilt, stuck>>

ServerState == {"main", "mkdir", "upload", "returned", "dead"}

ServerInit ==
  /\ spc        = [s \in Session |-> "main"]
  /\ cdirectory = [s \in Session |-> NoName]
  /\ filename   = [s \in Session |-> NoName]
  /\ numblock   = [s \in Session |-> 0]
  /\ packNum    = [s \in Session |-> 0]
  /\ linked     = [s \in Session |-> FALSE]
  /\ dirs \in SUBSET Directory
  /\ held \in [Directory -> SUBSET {SentAs[f] : f \in FileName}]
  /\ \A d \in Directory \ dirs : held[d] = {}
  /\ body = [d \in Directory |->
               [f \in FileName |-> IF f \in held[d] THEN Full(Origin(f)) ELSE <<>>]]
  /\ spoilt = [d \in Directory |-> {}]
  /\ stuck  = [d \in Directory |-> {}]

-----------------------------------------------------------------------------
(* recv takes the messages that have arrived: at least one, perhaps more.  *)
Recv(s) ==
  \E k \in 1..Len(toSrv[s]) :
    toSrv' = [toSrv EXCEPT ![s] = SubSeq(@, k + 1, Len(@))]

(* send.  Once the client has closed its end the bytes are lost, and the   *)
(* process may be killed by SIGPIPE before it reaches its next state.      *)
Send(s, items, next) ==
  \/ /\ open[s]
     /\ toCli' = [toCli EXCEPT ![s] = @ \o items]
     /\ spc' = [spc EXCEPT ![s] = next]
  \/ /\ ~ open[s]
     /\ \E p \in {next, "dead"} : spc' = [spc EXCEPT ![s] = p]
     /\ UNCHANGED toCli

(* The main loop has received a request with code op.                      *)
Received(s, op) ==
  /\ spc[s] = "main"
  /\ toSrv[s] # <<>>
  /\ Head(toSrv[s]).op = op
  /\ Recv(s)
  /\ UNCHANGED open

(* Variants named ...Bug, here and below, are what a slip in the code     *)
(* would make of the definition that follows; no action uses them.         *)

(* cdirectory shared by all connections, as threads of one process.        *)
EnterFolderBug(s, u) == cdirectory' = [t \in Session |-> FolderOf[u]]

(* SERVER_ROOT, a slash and the name as it came.                           *)
EnterFolder(s, u) == cdirectory' = [cdirectory EXCEPT ![s] = FolderOf[u]]

MakeFolder(d) == d \notin dirs /\ dirs' = dirs \cup {d}

(* fopen "w+b": the file is there, and empty.                              *)
Emptied(d, f) ==
  /\ held'   = [held EXCEPT ![d] = @ \cup {f}]
  /\ body'   = [body EXCEPT ![d][f] = <<>>]
  /\ spoilt' = [spoilt EXCEPT ![d] = @ \ {f}]

(* A process keeps its file when the name goes, as if it were reopened.    *)
UnlinkedBug(d, f) ==
  /\ held'   = [held EXCEPT ![d] = @ \ {f}]
  /\ body'   = [body EXCEPT ![d][f] = <<>>]
  /\ spoilt' = [spoilt EXCEPT ![d] = @ \ {f}]
  /\ stuck'  = [stuck EXCEPT ![d] = @ \ {f}]
  /\ UNCHANGED linked

(* The file loses its name.  A process that has it open keeps writing to a *)
(* file nobody can reach.                                                  *)
Unlinked(d, f) ==
  /\ held'   = [held EXCEPT ![d] = @ \ {f}]
  /\ body'   = [body EXCEPT ![d][f] = <<>>]
  /\ spoilt' = [spoilt EXCEPT ![d] = @ \ {f}]
  /\ stuck'  = [stuck EXCEPT ![d] = @ \ {f}]
  /\ linked' = [t \in Session |->
                  linked[t] /\ ~ (cdirectory[t] = d /\ filename[t] = f)]

(* remove: the name goes, or it stays, and nobody looks at the result.     *)
Remove(d, f) ==
  \/ Unlinked(d, f)
  \/ /\ f \in held[d]
     /\ stuck' = [stuck EXCEPT ![d] = @ \cup {f}]
     /\ UNCHANGED <<held, body, spoilt, linked>>

-----------------------------------------------------------------------------
(* opendir tells whether the folder is there.                              *)
dirExist(d) == d \in dirs

(* create_Folder: if it is missing mkdir is a later step, and other        *)
(* processes may run in between.                                           *)
create_Folder(s, d) ==
  IF dirExist(d)
  THEN Send(s, StringReply, "main")
  ELSE spc' = [spc EXCEPT ![s] = "mkdir"] /\ UNCHANGED toCli

(* case CREATE_FOLDER.                                                     *)
CreateFolder(s) ==
  /\ Received(s, "create")
  /\ LET u == Head(toSrv[s]).name IN EnterFolder(s, u) /\ create_Folder(s, FolderOf[u])
  /\ UNCHANGED <<uploadVars, diskVars>>

CreateNewFolderBug(s) ==                      \* the answer does not wait for mkdir
  /\ spc[s] = "mkdir"
  /\ \/ MakeFolder(cdirectory[s]) /\ Send(s, StringReply, "main")
     \/ UNCHANGED dirs /\ Send(s, StringReply, "dead")
  /\ UNCHANGED <<toSrv, open, cdirectory, uploadVars, held, body, spoilt, stuck>>

(* mkdir; when it fails, be it for a folder that has appeared since or for *)
(* a name that is too long, the process ends and nothing is sent.          *)
CreateNewFolder(s) ==
  /\ spc[s] = "mkdir"
  /\ \/ /\ MakeFolder(cdirectory[s])
        /\ Send(s, StringReply, "main")
     \/ /\ spc' = [spc EXCEPT ![s] = "dead"]
        /\ UNCHANGED <<dirs, toCli>>
  /\ UNCHANGED <<toSrv, open, cdirectory, uploadVars, held, body, spoilt, stuck>>

(* case LIST_DIR: the names in the folder; the user name that came with    *)
(* the request is not read.                                                *)
ListDir(s) ==
  /\ Received(s, "list")
  /\ Send(s, Listing(held[cdirectory[s]]), "main")
  /\ UNCHANGED <<cdirectory, uploadVars, diskVars>>

(* case UPLOAD, once fopen has made or emptied the file: it is confirmed,  *)
(* and for no blocks at all closed and removed at once.                    *)
OpenUpload(s) ==
  /\ Received(s, "upload")
  /\ LET m == Head(toSrv[s])
         d == cdirectory[s] IN
       IF m.num > 0
       THEN /\ Emptied(d, m.name)
            /\ stuck'    = [stuck EXCEPT ![d] = @ \ {m.name}]
            /\ filename' = [filename EXCEPT ![s] = m.name]
            /\ numblock' = [numblock EXCEPT ![s] = m.num]
            /\ packNum'  = [packNum EXCEPT ![s] = 0]
            /\ linked'   = [linked EXCEPT ![s] = TRUE]
            /\ Send(s, <<Ack>>, "upload")
       ELSE /\ Send(s, <<Ack>>, "main")
            /\ \/ spc'[s] # "dead" /\ Unlinked(d, m.name)
               \/ /\ Emptied(d, m.name)
                  /\ \E b \in SUBSET {m.name} :
                       /\ spc'[s] # "dead" => b # {}
                       /\ stuck' = [stuck EXCEPT ![d] = @ \cup b]
                  /\ UNCHANGED linked
            /\ UNCHANGED <<filename, numblock, packNum>>
  /\ UNCHANGED <<cdirectory, dirs>>

(* case UPLOAD, fopen fails: upload_mess returns 1 and nothing is sent.    *)
OpenFails(s) ==
  /\ Received(s, "upload")
  /\ UNCHANGED <<toCli, spc, cdirectory, uploadVars, diskVars>>

DeleteBug(s) ==                               \* the file of the last upload goes
  /\ Received(s, "delete")
  /\ IF filename[s] = NoName THEN UNCHANGED <<held, body, spoilt, stuck, linked>>
     ELSE Remove(cdirectory[s], filename[s])
  /\ Send(s, StringReply, "main")
  /\ UNCHANGED <<cdirectory, filename, numblock, packNum, dirs>>

(* case DELETE: "Delete success!" whatever remove returned.                *)
Delete(s) ==
  /\ Received(s, "delete")
  /\ Remove(cdirectory[s], Head(toSrv[s]).name)
  /\ Send(s, StringReply, "main")
  /\ UNCHANGED <<cdirectory, filename, numblock, packNum, dirs>>

IgnoreBug(s) ==                               \* ERROR is confirmed
  /\ \/ Received(s, "error") /\ Send(s, <<Ack>>, "main")
     \/ \E op \in {"download", "data", "confirm"} : Received(s, op) /\ UNCHANGED <<toCli, spc>>
  /\ UNCHANGED <<cdirectory, uploadVars, diskVars>>

(* cases DOWNLOAD, DATA, CONFIRM and ERROR do nothing.                     *)
Ignore(s) ==
  /\ \E op \in {"download", "data", "confirm", "error"} : Received(s, op)
  /\ UNCHANGED <<toCli, spc, cdirectory, uploadVars, diskVars>>

(* case EXIT: the loop ends and the socket is closed.                      *)
Exit(s) ==
  /\ Received(s, "exit")
  /\ spc' = [spc EXCEPT ![s] = "returned"]
  /\ UNCHANGED <<toCli, cdirectory, uploadVars, diskVars>>

-----------------------------------------------------------------------------
(* The upload loop.  fwrite stores at the position of this process.        *)
Put(c, p, x) ==
  [i \in 1..(IF Len(c) < p THEN p ELSE Len(c)) |->
     IF i = p THEN x ELSE IF i \in 1..Len(c) THEN c[i] ELSE Junk]

PayloadBug(s) == Junk                         \* the header is stored as well

(* A packet of the loop: whatever was received, from its fourth byte on.   *)
Payload(s) ==
  LET m == Head(toSrv[s]) IN
    IF m.op = "data" /\ Len(toSrv'[s]) = Len(toSrv[s]) - 1
    THEN Block(m.name, m.num) ELSE Junk

LoopDoneBug(s, n) == n > numblock[s] + 1      \* one packet more

LoopDone(s, n) == n > numblock[s]

(* fwrite only fills a buffer, which stdio empties at any time up to       *)
(* fclose.  What a process sees of its own file is the same whenever that  *)
(* is: the chunk is taken as stored at once, and lost again, with any of   *)
(* those before it, by a process that is killed, or by a write that fails  *)
(* and that nobody looks at.                                               *)
Kept(s, c) ==
  /\ spc'[s] # "dead"
  /\ body' = [body EXCEPT ![cdirectory[s]][filename[s]] = c]
  /\ UNCHANGED spoilt

Lost(s, c) ==
  /\ \E k \in 0..Len(c) :
       body' = [body EXCEPT ![cdirectory[s]][filename[s]] = SubSeq(c, 1, k)]
  /\ spoilt' = [spoilt EXCEPT ![cdirectory[s]] = @ \cup {filename[s]}]

(* Store a packet, confirm it, and leave once packNum exceeds numblock.    *)
StorePacket(s, x) ==
  LET n == packNum[s] + 1
      c == Put(body[cdirectory[s]][filename[s]], n, x) IN
    /\ packNum' = [packNum EXCEPT ![s] = n]
    /\ Send(s, <<Ack>>, IF LoopDone(s, n) THEN "main" ELSE "upload")
    /\ \/ linked[s] /\ (Kept(s, c) \/ Lost(s, c))
       \/ ~ linked[s] /\ UNCHANGED <<body, spoilt>>
    /\ UNCHANGED <<open, cdirectory, filename, numblock, linked, dirs, held, stuck>>

RecvPacket(s) ==
  /\ spc[s] = "upload"
  /\ toSrv[s] # <<>>
  /\ Recv(s)
  /\ StorePacket(s, Payload(s))

RecvClosedBug(s) ==                           \* an empty read is repeated
  /\ spc[s] = "upload"
  /\ toSrv[s] = <<>> /\ ~ open[s]
  /\ UNCHANGED <<channelVars, serverVars>>

(* recv finds the connection closed: n - 3 is negative, the packet is      *)
(* bytes of the stack, and the loop counts it like any other.              *)
RecvClosed(s) ==
  /\ spc[s] = "upload"
  /\ toSrv[s] = <<>> /\ ~ open[s]
  /\ StorePacket(s, Junk)
  /\ UNCHANGED toSrv

ServerStep(s) ==
  \/ CreateFolder(s) \/ CreateNewFolder(s) \/ ListDir(s)
  \/ OpenUpload(s)   \/ OpenFails(s)       \/ Delete(s)
  \/ Ignore(s)       \/ Exit(s)
  \/ RecvPacket(s)   \/ RecvClosed(s)

ServerTypeOK ==
  /\ spc \in [Session -> ServerState]
  /\ cdirectory \in [Session -> Directory \cup {NoName}]
  /\ filename \in [Session -> FileName \cup {NoName}]
  /\ numblock \in [Session -> Nat]
  /\ packNum \in [Session -> Nat]
  /\ linked \in [Session -> BOOLEAN]
  /\ \A s \in Session : linked[s] => filename[s] \in FileName
  /\ dirs \in SUBSET Directory
  /\ held \in [Directory -> SUBSET FileName]
  /\ body \in [Directory -> [FileName -> Seq(Chunk)]]
  /\ spoilt \in [Directory -> SUBSET FileName]
  /\ stuck \in [Directory -> SUBSET FileName]

=============================================================================
