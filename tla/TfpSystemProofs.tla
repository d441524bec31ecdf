-------------------------- MODULE TfpSystemProofs ---------------------------
(***************************************************************************)
(* Proofs about TfpSystem, for every set of sessions, users, folders and   *)
(* files, any assignment of users to sessions and of folders to users, and *)
(* answers late or in time.                                                *)
(*                                                                         *)
(* TypeOK is not inductive: a process that listed the folder NoName would  *)
(* return anything at all.  The invariant IInv adds what rules that out: a *)
(* process without a folder has at most the request that names its folder  *)
(* ahead of it, and the client it belongs to is still waiting for the      *)
(* answer to that request.                                                 *)
(***************************************************************************)
EXTENDS TfpSystem, SequenceTheorems, TLAPS

(* The requests the client of session s may write.                         *)
OwnMessage(s) == {m \in Message : m.op = "create" => m.name = UserOf[s]}

OwnRequests == \A s \in Session : toSrv[s] \in Seq(OwnMessage(s))

Starting(s) == cpc[s] \in {"new", "create", "stranded", "closed"}

(* A process without a folder has a client that is starting or gone.       *)
NoFolderYet ==
  \A s \in Session :
    /\ cdirectory[s] = NoName => Starting(s)
    /\ cpc[s] = "new" => cdirectory[s] = NoName /\ toSrv[s] = <<>>
    /\ cpc[s] \in {"new", "create"} => ops[s] = 0

(* A folder exists once a process that works in it is past mkdir, and from *)
(* then on replies may be read.                                            *)
FolderMade ==
  \A s \in Session :
    /\ cdirectory[s] # NoName /\ spc[s] \notin {"mkdir", "dead"} => Dir(s) \in dirs
    /\ toCli[s] # <<>> \/ ~ Starting(s) => Dir(s) \in dirs
    /\ spc[s] = "mkdir" => cdirectory[s] # NoName

IInv == TypeOK /\ OwnRequests /\ DirIsOwners /\ NoFolderYet /\ FolderMade

-----------------------------------------------------------------------------
(* Messages and items.                                                     *)

LEMMA DirFacts ==
  ASSUME NEW s \in Session
  PROVE  UserOf[s] \in User /\ Dir(s) \in Directory /\ Dir(s) # NoName
  BY ChannelAssumption DEF Dir

LEMMA MessageTypes ==
  ASSUME NEW s \in Session, NEW f \in FileName, NEW n \in Nat
  PROVE  /\ Msg("create", UserOf[s], 0) \in OwnMessage(s)
         /\ Msg("list", UserOf[s], 0) \in OwnMessage(s)
         /\ Msg("upload", f, n) \in OwnMessage(s)
         /\ Msg("data", f, n) \in OwnMessage(s)
         /\ Msg("delete", f, 0) \in OwnMessage(s)
         /\ Msg("download", f, 0) \in OwnMessage(s)
         /\ Msg("confirm", NoName, 0) \in OwnMessage(s)
         /\ Msg("error", NoName, 0) \in OwnMessage(s)
         /\ Msg("exit", NoName, 0) \in OwnMessage(s)
  BY ChannelAssumption DEF OwnMessage, Message, Msg

LEMMA MessageParts ==
  ASSUME NEW m \in Message
  PROVE  /\ m.op \in {"create", "list"} => m.name \in User
         /\ m.op \in {"upload", "data"} => m.name \in FileName /\ m.num \in Nat
         /\ m.op \in {"delete", "download"} => m.name \in FileName
  BY DEF Message

LEMMA ReplyTypes ==
  /\ << Ack >> \in Seq(Item)
  /\ StringReply \in Seq(Item)
  /\ \A names \in SUBSET FileName : Listing(names) \in Seq(Item)
<1>1. Ack \in Item
  BY DEF Ack, Item
<1>2. ASSUME NEW names \in SUBSET FileName PROVE Listing(names) \in Seq(Item)
  <2>1. Listing(names) \in [1..ListingLen -> Item]
    BY DEF Listing, Item
  <2>2. QED
    BY <2>1, SeqDef, ChannelAssumption
<1>3. StringReply \in [1..StringLen -> Item]
  BY DEF StringReply, Item
<1>4. StringReply \in Seq(Item)
  BY <1>3, SeqDef, ChannelAssumption
<1>5. QED
  BY <1>1, <1>2, <1>4

(* What fwrite leaves behind is a sequence of chunks.                      *)
LEMMA PutType ==
  ASSUME NEW c \in Seq(Chunk), NEW p \in Nat \ {0}, NEW x \in Chunk
  PROVE  Put(c, p, x) \in Seq(Chunk)
<1> DEFINE n == IF Len(c) < p THEN p ELSE Len(c)
<1>1. n \in Nat
  OBVIOUS
<1>2. Junk \in Chunk
  BY DEF Junk, Block, Chunk
<1>3. \A i \in 1..Len(c) : c[i] \in Chunk
  OBVIOUS
<1>4. Put(c, p, x) \in [1..n -> Chunk]
  BY <1>2, <1>3 DEF Put
<1>5. QED
  BY <1>1, <1>4, SeqDef

-----------------------------------------------------------------------------
(* What the two ends do to the connection.                                 *)

(* recv shortens the queue of one session and changes no other.            *)
LEMMA RecvFacts ==
  ASSUME TypeOK, OwnRequests, NEW s \in Session, Recv(s)
  PROVE  /\ toSrv' \in [Session -> Seq(Message)]
         /\ OwnRequests'
         /\ Len(toSrv'[s]) < Len(toSrv[s])
         /\ \A t \in Session \ {s} : toSrv'[t] = toSrv[t]
         /\ Len(toSrv[s]) = 1 => toSrv'[s] = <<>>
<1>1. PICK k \in 1..Len(toSrv[s]) :
        toSrv' = [toSrv EXCEPT ![s] = SubSeq(@, k + 1, Len(@))]
  BY DEF Recv
<1> DEFINE q == toSrv[s]
           r == SubSeq(q, k + 1, Len(q))
<1>2. q \in Seq(Message) /\ q \in Seq(OwnMessage(s)) /\ Len(q) \in Nat
  BY DEF TypeOK, OwnRequests
<1>3. r \in Seq(Message)
  <2>1. \A i \in (k + 1)..Len(q) : q[i] \in Message
    BY <1>2
  <2>2. QED
    BY <1>2, <2>1, SubSeqProperties
<1>4. r \in Seq(OwnMessage(s))
  <2>1. \A i \in (k + 1)..Len(q) : q[i] \in OwnMessage(s)
    BY <1>2
  <2>2. QED
    BY <1>2, <2>1, SubSeqProperties
<1>5. Len(r) = Len(q) - k
  <2>1. \A i \in (k + 1)..Len(q) : q[i] \in Message
    BY <1>2
  <2>2. Len(r) = IF k + 1 <= Len(q) THEN Len(q) - (k + 1) + 1 ELSE 0
    BY <1>2, <2>1, SubSeqProperties
  <2>3. QED
    BY <1>2, <2>2
<1>6. toSrv'[s] = r /\ \A t \in Session \ {s} : toSrv'[t] = toSrv[t]
  BY <1>1 DEF TypeOK
<1>7. toSrv' \in [Session -> Seq(Message)]
  BY <1>1, <1>3 DEF TypeOK
<1>8. OwnRequests'
  BY <1>4, <1>6 DEF OwnRequests, OwnMessage
<1>9. Len(q) = 1 => r = <<>>
  BY <1>3, <1>5, EmptySeq
<1>10. QED
  BY <1>2, <1>5, <1>6, <1>7, <1>8, <1>9

(* send extends the replies of one session, or none, and moves or kills    *)
(* the process of that session.                                            *)
LEMMA SendFacts ==
  ASSUME TypeOK, NEW s \in Session, NEW items \in Seq(Item), NEW next \in ServerState,
         Send(s, items, next)
  PROVE  /\ toCli' \in [Session -> Seq(Item)]
         /\ spc' \in [Session -> ServerState]
         /\ spc'[s] \in {next, "dead"}
         /\ open[s] => spc'[s] = next
         /\ \A t \in Session \ {s} : toCli'[t] = toCli[t] /\ spc'[t] = spc[t]
<1>1. toCli[s] \o items \in Seq(Item)
  BY ConcatProperties DEF TypeOK
<1>2. CASE open[s] /\ toCli' = [toCli EXCEPT ![s] = @ \o items]
                   /\ spc' = [spc EXCEPT ![s] = next]
  BY <1>1, <1>2 DEF TypeOK, ServerTypeOK
<1>3. CASE ~ open[s] /\ (\E p \in {next, "dead"} : spc' = [spc EXCEPT ![s] = p])
                     /\ UNCHANGED toCli
  BY <1>3 DEF TypeOK, ServerTypeOK, ServerState
<1>4. QED
  BY <1>2, <1>3 DEF Send

LEMMA WriteFacts ==
  ASSUME TypeOK, OwnRequests, NEW s \in Session, NEW m \in OwnMessage(s), Write(s, m)
  PROVE  /\ toSrv' \in [Session -> Seq(Message)]
         /\ OwnRequests'
         /\ toSrv'[s] = Append(toSrv[s], m)
         /\ \A t \in Session \ {s} : toSrv'[t] = toSrv[t]
<1>1. m \in Message
  BY DEF OwnMessage
<1>2. toSrv'[s] = Append(toSrv[s], m) /\ \A t \in Session \ {s} : toSrv'[t] = toSrv[t]
  BY DEF Write, TypeOK
<1>3. Append(toSrv[s], m) \in Seq(Message) /\ Append(toSrv[s], m) \in Seq(OwnMessage(s))
  BY <1>1 DEF TypeOK, OwnRequests
<1>4. OwnRequests'
  BY <1>2, <1>3 DEF OwnRequests, OwnMessage
<1>5. QED
  BY <1>2, <1>3, <1>4 DEF Write, TypeOK

LEMMA TakeFacts ==
  ASSUME TypeOK, NEW s \in Session, NEW n \in Nat, Take(s, n)
  PROVE  /\ toCli' \in [Session -> Seq(Item)]
         /\ toCli[s] = <<>> => toCli'[s] = <<>>
         /\ \A t \in Session \ {s} : toCli'[t] = toCli[t]
<1> DEFINE q == toCli[s]
           r == SubSeq(q, n + 1, Len(q))
<1>1. q \in Seq(Item) /\ Len(q) \in Nat
  BY DEF TypeOK
<1>2. \A i \in (n + 1)..Len(q) : q[i] \in Item
  BY <1>1
<1>3. r \in Seq(Item) /\ Len(r) = IF n + 1 <= Len(q) THEN Len(q) - (n + 1) + 1 ELSE 0
  BY <1>1, <1>2, SubSeqProperties
<1>4. q = <<>> => r = <<>>
  BY <1>1, <1>3, EmptySeq
<1>5. QED
  BY <1>1, <1>3, <1>4 DEF Take, TypeOK

LEMMA CloseFacts ==
  ASSUME TypeOK, OwnRequests, NEW s \in Session, NEW sent \in Seq(OwnMessage(s)),
         Close(s, sent)
  PROVE  /\ toSrv' \in [Session -> Seq(Message)]
         /\ OwnRequests'
         /\ toCli' \in [Session -> Seq(Item)]
         /\ open' \in [Session -> BOOLEAN]
         /\ cpc' = [cpc EXCEPT ![s] = "closed"]
         /\ toCli'[s] = <<>>
         /\ Len(sent) <= 1 => toSrv'[s] \in {<<>>, sent}
         /\ \A t \in Session \ {s} : toSrv'[t] = toSrv[t] /\ toCli'[t] = toCli[t]
<1>1. PICK k \in 0..Len(sent) : toSrv' = [toSrv EXCEPT ![s] = SubSeq(sent, 1, k)]
  BY DEF Close
<1> DEFINE r == SubSeq(sent, 1, k)
<1>2. r \in Seq(OwnMessage(s)) /\ (k = 0 => r = <<>>) /\ (k = Len(sent) => r = sent)
  <2>1. \A i \in 1..k : sent[i] \in OwnMessage(s)
    OBVIOUS
  <2>2. r \in Seq(OwnMessage(s)) /\ Len(r) = IF 1 <= k THEN k - 1 + 1 ELSE 0
    BY <2>1, SubSeqProperties
  <2>3. k = 0 => r = <<>>
    BY <2>2, EmptySeq
  <2>4. k = Len(sent) => r = sent
    BY SubSeqFull
  <2>5. QED
    BY <2>2, <2>3, <2>4
<1>3. r \in Seq(Message)
  BY <1>2, SeqMonotonic DEF OwnMessage
<1>4. toSrv'[s] = r /\ \A t \in Session \ {s} : toSrv'[t] = toSrv[t]
  BY <1>1 DEF TypeOK
<1>5. OwnRequests'
  BY <1>2, <1>4 DEF OwnRequests, OwnMessage
<1>6. toSrv' \in [Session -> Seq(Message)]
  BY <1>1, <1>3 DEF TypeOK
<1>7. toCli' \in [Session -> Seq(Item)] /\ toCli'[s] = <<>>
      /\ \A t \in Session \ {s} : toCli'[t] = toCli[t]
  BY DEF Close, TypeOK
<1>8. open' \in [Session -> BOOLEAN] /\ cpc' = [cpc EXCEPT ![s] = "closed"]
  BY DEF Close, Goto, TypeOK
<1>9. QED
  BY <1>2, <1>4, <1>5, <1>6, <1>7, <1>8

-----------------------------------------------------------------------------
(* A process that is past its first request has its folder.                *)
LEMMA FolderKnown ==
  ASSUME IInv, NEW s \in Session,
         spc[s] # "main" \/ (toSrv[s] # <<>> /\ Head(toSrv[s]).op # "create")
  PROVE  /\ cdirectory[s] = Dir(s)
         /\ cpc[s] # "new"
         /\ spc[s] \notin {"mkdir", "dead"} => Dir(s) \in dirs
<1>1. Head(<< Msg("create", UserOf[s], 0) >>).op = "create"
  BY DEF Msg
<1>2. cdirectory[s] # NoName
  BY <1>1 DEF IInv, DirIsOwners
<1>3. QED
  BY <1>2 DEF IInv, DirIsOwners, NoFolderYet, FolderMade

(* A client past its first reply, or with a reply to read, has a folder.   *)
LEMMA FolderThere ==
  ASSUME IInv, NEW s \in Session, toCli[s] # <<>> \/ ~ Starting(s)
  PROVE  Dir(s) \in dirs /\ cdirectory[s] # NoName /\ cpc[s] # "new"
  BY DEF IInv, DirIsOwners, NoFolderYet, FolderMade

(* What every step of a server process has to show.                        *)
LEMMA ServeFrame ==
  ASSUME IInv, NEW s \in Session,
         UNCHANGED <<open, clientVars>>,
         cpc[s] # "new",
         toSrv' \in [Session -> Seq(Message)], OwnRequests',
         toCli' \in [Session -> Seq(Item)],
         ServerTypeOK',
         \A t \in Session \ {s} : /\ toSrv'[t] = toSrv[t]
                                  /\ toCli'[t] = toCli[t]
                                  /\ spc'[t] = spc[t]
                                  /\ cdirectory'[t] = cdirectory[t],
         cdirectory'[s] = Dir(s),
         dirs \subseteq dirs',
         spc'[s] \notin {"mkdir", "dead"} => Dir(s) \in dirs',
         toCli'[s] # <<>> \/ ~ Starting(s) => Dir(s) \in dirs'
  PROVE  IInv'
<1>1. cdirectory'[s] # NoName
  BY DirFacts
<1>2. TypeOK'
  BY DEF IInv, TypeOK, clientVars, ClientTypeOK
<1>3. DirIsOwners'
  BY <1>1 DEF IInv, DirIsOwners
<1>4. NoFolderYet'
  BY <1>1 DEF IInv, NoFolderYet, Starting, clientVars
<1>5. FolderMade'
  BY <1>1 DEF IInv, FolderMade, Starting, clientVars
<1>6. QED
  BY <1>2, <1>3, <1>4, <1>5 DEF IInv

(* What every step of a client has to show.                                *)
LEMMA ClientFrame ==
  ASSUME IInv, NEW s \in Session,
         UNCHANGED serverVars,
         toSrv' \in [Session -> Seq(Message)], OwnRequests',
         toCli' \in [Session -> Seq(Item)],
         open' \in [Session -> BOOLEAN],
         ClientTypeOK',
         \A t \in Session \ {s} : /\ toSrv'[t] = toSrv[t]
                                  /\ toCli'[t] = toCli[t]
                                  /\ cpc'[t] = cpc[t],
         cpc'[s] # "new",
         cpc'[s] = "create" => ops'[s] = 0,
         \A t \in Session \ {s} : ops'[t] = ops[t],
         cdirectory[s] = NoName =>
           /\ cpc'[s] \in {"create", "stranded", "closed"}
           /\ toCli'[s] = <<>>
           /\ toSrv'[s] \in {<<>>, << Msg("create", UserOf[s], 0) >>},
         toCli'[s] # <<>> \/ cpc'[s] \notin {"create", "stranded", "closed"} => Dir(s) \in dirs
  PROVE  IInv'
<1>1. TypeOK'
  BY DEF IInv, TypeOK, serverVars, ServerTypeOK
<1>2. DirIsOwners'
  BY DEF IInv, DirIsOwners, serverVars
<1>3. NoFolderYet'
  BY DEF IInv, NoFolderYet, Starting, serverVars
<1>4. FolderMade'
  BY DEF IInv, FolderMade, Starting, serverVars
<1>5. QED
  BY <1>1, <1>2, <1>3, <1>4 DEF IInv

-----------------------------------------------------------------------------
(* The steps of a server process.                                          *)

LEMMA ReceivedFacts ==
  ASSUME IInv, NEW s \in Session, NEW op, Received(s, op)
  PROVE  /\ toSrv' \in [Session -> Seq(Message)]
         /\ OwnRequests'
         /\ \A t \in Session \ {s} : toSrv'[t] = toSrv[t]
         /\ Head(toSrv[s]) \in OwnMessage(s) \cap Message
         /\ cpc[s] # "new"
         /\ op # "create" => cdirectory[s] = Dir(s) /\ Dir(s) \in dirs
         /\ spc[s] = "main"
<1>1. Recv(s) /\ toSrv[s] # <<>> /\ Head(toSrv[s]).op = op /\ spc[s] = "main"
  BY DEF Received
<1>2. Head(toSrv[s]) \in OwnMessage(s)
  BY <1>1 DEF IInv, OwnRequests
<1>3. cpc[s] # "new"
  BY <1>1 DEF IInv, NoFolderYet
<1>4. op # "create" => cdirectory[s] = Dir(s) /\ Dir(s) \in dirs
  BY <1>1, FolderKnown
<1>5. QED
  BY <1>1, <1>2, <1>3, <1>4, RecvFacts DEF IInv, OwnMessage

LEMMA EmptiedType ==
  ASSUME ServerTypeOK, NEW d, NEW f \in FileName, Emptied(d, f)
  PROVE  /\ held' \in [Directory -> SUBSET FileName]
         /\ body' \in [Directory -> [FileName -> Seq(Chunk)]]
         /\ spoilt' \in [Directory -> SUBSET FileName]
<1>1. <<>> \in Seq(Chunk)
  OBVIOUS
<1>2. \A v \in Directory : body'[v] \in [FileName -> Seq(Chunk)]
  BY <1>1 DEF Emptied, ServerTypeOK
<1>3. QED
  BY <1>2 DEF Emptied, ServerTypeOK

LEMMA UnlinkedType ==
  ASSUME ServerTypeOK, NEW d, NEW f, Unlinked(d, f)
  PROVE  /\ held' \in [Directory -> SUBSET FileName]
         /\ body' \in [Directory -> [FileName -> Seq(Chunk)]]
         /\ spoilt' \in [Directory -> SUBSET FileName]
         /\ stuck' \in [Directory -> SUBSET FileName]
         /\ linked' \in [Session -> BOOLEAN]
         /\ \A t \in Session : linked'[t] => linked[t]
<1>1. <<>> \in Seq(Chunk)
  OBVIOUS
<1>2. \A v \in Directory : body'[v] \in [FileName -> Seq(Chunk)]
  BY <1>1 DEF Unlinked, ServerTypeOK
<1>3. QED
  BY <1>2 DEF Unlinked, ServerTypeOK

LEMMA RemoveType ==
  ASSUME ServerTypeOK, NEW d, NEW f \in FileName, Remove(d, f)
  PROVE  /\ held' \in [Directory -> SUBSET FileName]
         /\ body' \in [Directory -> [FileName -> Seq(Chunk)]]
         /\ spoilt' \in [Directory -> SUBSET FileName]
         /\ stuck' \in [Directory -> SUBSET FileName]
         /\ linked' \in [Session -> BOOLEAN]
         /\ \A t \in Session : linked'[t] => linked[t]
<1>1. CASE Unlinked(d, f)
  BY <1>1, UnlinkedType
<1>2. CASE stuck' = [stuck EXCEPT ![d] = @ \cup {f}] /\ UNCHANGED <<held, body, spoilt, linked>>
  BY <1>2 DEF ServerTypeOK
<1>3. QED
  BY <1>1, <1>2 DEF Remove

LEMMA CreateFolderStep ==
  ASSUME IInv, NEW s \in Session, CreateFolder(s), UNCHANGED clientVars
  PROVE  IInv'
<1> DEFINE u == Head(toSrv[s]).name
<1>1. Received(s, "create") /\ EnterFolder(s, u) /\ UNCHANGED <<open, uploadVars, diskVars>>
  BY DEF CreateFolder, Received
<1>2. u = UserOf[s] /\ FolderOf[u] = Dir(s) /\ Dir(s) \in Directory
  BY <1>1, ReceivedFacts, DirFacts DEF OwnMessage, Received, Dir
<1>3. /\ cdirectory' \in [Session -> Directory \cup {NoName}]
      /\ cdirectory'[s] = Dir(s)
      /\ \A t \in Session \ {s} : cdirectory'[t] = cdirectory[t]
  BY <1>1, <1>2 DEF EnterFolder, IInv, TypeOK, ServerTypeOK
<1>4. CASE Dir(s) \in dirs /\ Send(s, StringReply, "main")
  <2>1. "main" \in ServerState /\ StringReply \in Seq(Item)
    BY ReplyTypes DEF ServerState
  <2>2. /\ toCli' \in [Session -> Seq(Item)]
        /\ spc' \in [Session -> ServerState]
        /\ \A t \in Session \ {s} : toCli'[t] = toCli[t] /\ spc'[t] = spc[t]
    BY <1>4, <2>1, SendFacts DEF IInv
  <2>3. ServerTypeOK'
    BY <1>1, <1>3, <2>2 DEF IInv, TypeOK, ServerTypeOK, uploadVars, diskVars
  <2>4. dirs' = dirs
    BY <1>1 DEF diskVars
  <2>5. QED
    BY <1>1, <1>2, <1>3, <1>4, <2>2, <2>3, <2>4, ReceivedFacts, ServeFrame
<1>5. CASE Dir(s) \notin dirs /\ spc' = [spc EXCEPT ![s] = "mkdir"] /\ UNCHANGED toCli
  <2>1. spc' \in [Session -> ServerState] /\ spc'[s] = "mkdir"
        /\ \A t \in Session \ {s} : spc'[t] = spc[t]
    BY <1>5 DEF IInv, TypeOK, ServerTypeOK, ServerState
  <2>2. ServerTypeOK'
    BY <1>1, <1>3, <2>1 DEF IInv, TypeOK, ServerTypeOK, uploadVars, diskVars
  <2>3. dirs' = dirs
    BY <1>1 DEF diskVars
  <2>4. toCli[s] # <<>> \/ ~ Starting(s) => Dir(s) \in dirs
    BY FolderThere
  <2>5. toCli' \in [Session -> Seq(Item)] /\ toCli' = toCli
    BY <1>5 DEF IInv, TypeOK
  <2>6. QED
    BY <1>1, <1>3, <2>1, <2>2, <2>3, <2>4, <2>5, ReceivedFacts, ServeFrame
<1>6. QED
  BY <1>2, <1>4, <1>5 DEF CreateFolder, create_Folder, dirExist

LEMMA CreateNewFolderStep ==
  ASSUME IInv, NEW s \in Session, CreateNewFolder(s), UNCHANGED clientVars
  PROVE  IInv'
<1>1. spc[s] = "mkdir" /\ UNCHANGED <<toSrv, open, cdirectory, uploadVars, held, body, spoilt, stuck>>
  BY DEF CreateNewFolder
<1>2. cdirectory[s] = Dir(s) /\ cpc[s] # "new" /\ Dir(s) \in Directory
  BY <1>1, FolderKnown, DirFacts
<1>3. toSrv' \in [Session -> Seq(Message)] /\ OwnRequests'
  BY <1>1 DEF IInv, TypeOK, OwnRequests, OwnMessage
<1>4. CASE MakeFolder(cdirectory[s]) /\ Send(s, StringReply, "main")
  <2>1. "main" \in ServerState /\ StringReply \in Seq(Item)
    BY ReplyTypes DEF ServerState
  <2>2. /\ toCli' \in [Session -> Seq(Item)]
        /\ spc' \in [Session -> ServerState]
        /\ \A t \in Session \ {s} : toCli'[t] = toCli[t] /\ spc'[t] = spc[t]
    BY <1>4, <2>1, SendFacts DEF IInv
  <2>3. dirs \subseteq dirs' /\ Dir(s) \in dirs' /\ dirs' \subseteq Directory
    BY <1>2, <1>4 DEF MakeFolder, IInv, TypeOK, ServerTypeOK
  <2>4. ServerTypeOK'
    BY <1>1, <2>2, <2>3 DEF IInv, TypeOK, ServerTypeOK, uploadVars
  <2>5. QED
    BY <1>1, <1>2, <1>3, <2>2, <2>3, <2>4, ServeFrame
<1>5. CASE spc' = [spc EXCEPT ![s] = "dead"] /\ UNCHANGED <<dirs, toCli>>
  <2>1. spc' \in [Session -> ServerState] /\ spc'[s] = "dead"
        /\ \A t \in Session \ {s} : spc'[t] = spc[t]
    BY <1>5 DEF IInv, TypeOK, ServerTypeOK, ServerState
  <2>2. ServerTypeOK'
    BY <1>1, <1>5, <2>1 DEF IInv, TypeOK, ServerTypeOK, uploadVars
  <2>3. toCli' \in [Session -> Seq(Item)] /\ toCli' = toCli
    BY <1>5 DEF IInv, TypeOK
  <2>4. toCli[s] # <<>> \/ ~ Starting(s) => Dir(s) \in dirs
    BY FolderThere
  <2>5. QED
    BY <1>1, <1>2, <1>3, <1>5, <2>1, <2>2, <2>3, <2>4, ServeFrame
<1>6. QED
  BY <1>4, <1>5 DEF CreateNewFolder

(* Steps of a process that is in its folder and stays there.               *)
LEMMA InFolder ==
  ASSUME IInv, NEW s \in Session,
         cpc[s] # "new", cdirectory[s] = Dir(s), Dir(s) \in dirs,
         UNCHANGED <<open, clientVars, cdirectory, dirs>>,
         toSrv' \in [Session -> Seq(Message)], OwnRequests',
         toCli' \in [Session -> Seq(Item)],
         ServerTypeOK',
         \A t \in Session \ {s} : /\ toSrv'[t] = toSrv[t]
                                  /\ toCli'[t] = toCli[t]
                                  /\ spc'[t] = spc[t]
  PROVE  IInv'
  BY ServeFrame

LEMMA ListDirStep ==
  ASSUME IInv, NEW s \in Session, ListDir(s), UNCHANGED clientVars
  PROVE  IInv'
<1>1. Received(s, "list") /\ UNCHANGED <<open, cdirectory, uploadVars, diskVars>>
  BY DEF ListDir, Received
<1>2. cdirectory[s] = Dir(s) /\ Dir(s) \in Directory
  BY <1>1, ReceivedFacts, DirFacts
<1>3. Listing(held[cdirectory[s]]) \in Seq(Item) /\ "main" \in ServerState
  BY <1>2, ReplyTypes DEF IInv, TypeOK, ServerTypeOK, ServerState
<1>4. /\ toCli' \in [Session -> Seq(Item)]
      /\ spc' \in [Session -> ServerState]
      /\ \A t \in Session \ {s} : toCli'[t] = toCli[t] /\ spc'[t] = spc[t]
  BY <1>3, SendFacts DEF ListDir, IInv
<1>5. ServerTypeOK'
  BY <1>1, <1>4 DEF IInv, TypeOK, ServerTypeOK, uploadVars, diskVars
<1>6. /\ toSrv' \in [Session -> Seq(Message)]
      /\ OwnRequests'
      /\ \A t \in Session \ {s} : toSrv'[t] = toSrv[t]
      /\ cpc[s] # "new" /\ cdirectory[s] = Dir(s) /\ Dir(s) \in dirs
  BY <1>1, ReceivedFacts
<1>7. QED
  BY <1>1, <1>4, <1>5, <1>6, InFolder DEF diskVars

LEMMA OpenUploadStep ==
  ASSUME IInv, NEW s \in Session, OpenUpload(s), UNCHANGED clientVars
  PROVE  IInv'
<1> DEFINE m == Head(toSrv[s])
           d == cdirectory[s]
<1>1. Received(s, "upload") /\ UNCHANGED <<open, cdirectory, dirs>>
  BY DEF OpenUpload, Received
<1>2. m \in Message /\ m.op = "upload"
  BY <1>1, ReceivedFacts DEF Received
<1>3. m.name \in FileName /\ m.num \in Nat
  BY <1>2, MessageParts
<1>4. << Ack >> \in Seq(Item) /\ "main" \in ServerState /\ "upload" \in ServerState
  BY ReplyTypes DEF ServerState
<1>5. \E next \in ServerState : Send(s, << Ack >>, next)
  BY <1>4 DEF OpenUpload
<1>6. /\ toCli' \in [Session -> Seq(Item)]
      /\ spc' \in [Session -> ServerState]
      /\ \A t \in Session \ {s} : toCli'[t] = toCli[t] /\ spc'[t] = spc[t]
  BY <1>4, <1>5, SendFacts DEF IInv
<1>7. /\ toSrv' \in [Session -> Seq(Message)]
      /\ OwnRequests'
      /\ \A t \in Session \ {s} : toSrv'[t] = toSrv[t]
      /\ cpc[s] # "new" /\ cdirectory[s] = Dir(s) /\ Dir(s) \in dirs
  BY <1>1, ReceivedFacts
<1>8. ServerTypeOK
  BY DEF IInv, TypeOK
<1>9. CASE m.num > 0
  <2>1. /\ Emptied(d, m.name)
        /\ stuck'    = [stuck EXCEPT ![d] = @ \ {m.name}]
        /\ filename' = [filename EXCEPT ![s] = m.name]
        /\ numblock' = [numblock EXCEPT ![s] = m.num]
        /\ packNum'  = [packNum EXCEPT ![s] = 0]
        /\ linked'   = [linked EXCEPT ![s] = TRUE]
    BY <1>9 DEF OpenUpload
  <2>2. ServerTypeOK'
    BY <1>1, <1>3, <1>6, <1>8, <2>1, EmptiedType DEF ServerTypeOK
  <2>3. QED
    BY <1>1, <1>6, <2>2, <1>7, InFolder
<1>10. CASE ~ (m.num > 0)
  <2>1. /\ UNCHANGED <<filename, numblock, packNum>>
        /\ \/ Unlinked(d, m.name)
           \/ /\ Emptied(d, m.name) /\ UNCHANGED linked
              /\ \E b \in SUBSET {m.name} : stuck' = [stuck EXCEPT ![d] = @ \cup b]
    BY <1>10 DEF OpenUpload
  <2>2. /\ held' \in [Directory -> SUBSET FileName]
        /\ body' \in [Directory -> [FileName -> Seq(Chunk)]]
        /\ spoilt' \in [Directory -> SUBSET FileName]
        /\ stuck' \in [Directory -> SUBSET FileName]
        /\ linked' \in [Session -> BOOLEAN]
        /\ \A t \in Session : linked'[t] => linked[t]
    <3>1. CASE /\ Emptied(d, m.name) /\ UNCHANGED linked
               /\ \E b \in SUBSET {m.name} : stuck' = [stuck EXCEPT ![d] = @ \cup b]
      <4>1. PICK b \in SUBSET {m.name} : stuck' = [stuck EXCEPT ![d] = @ \cup b]
        BY <3>1
      <4>2. b \subseteq FileName
        BY <1>3, <4>1
      <4>3. stuck' \in [Directory -> SUBSET FileName]
        BY <1>8, <4>1, <4>2 DEF ServerTypeOK
      <4>4. linked' \in [Session -> BOOLEAN] /\ linked' = linked
        BY <1>8, <3>1 DEF ServerTypeOK
      <4>5. QED
        BY <1>3, <1>8, <3>1, <4>3, <4>4, EmptiedType
    <3>2. CASE Unlinked(d, m.name)
      BY <1>8, <3>2, UnlinkedType
    <3>3. QED
      BY <2>1, <3>1, <3>2
  <2>3. ServerTypeOK'
    BY <1>1, <1>6, <1>8, <2>1, <2>2 DEF ServerTypeOK
  <2>4. QED
    BY <1>1, <1>6, <2>3, <1>7, InFolder
<1>11. QED
  BY <1>9, <1>10

LEMMA DeleteStep ==
  ASSUME IInv, NEW s \in Session, Delete(s), UNCHANGED clientVars
  PROVE  IInv'
<1>1. Received(s, "delete") /\ UNCHANGED <<open, cdirectory, filename, numblock, packNum, dirs>>
  BY DEF Delete, Received
<1>2. StringReply \in Seq(Item) /\ "main" \in ServerState
  BY ReplyTypes DEF ServerState
<1>3. /\ toCli' \in [Session -> Seq(Item)]
      /\ spc' \in [Session -> ServerState]
      /\ \A t \in Session \ {s} : toCli'[t] = toCli[t] /\ spc'[t] = spc[t]
  BY <1>2, SendFacts DEF Delete, IInv
<1>4. /\ held' \in [Directory -> SUBSET FileName]
      /\ body' \in [Directory -> [FileName -> Seq(Chunk)]]
      /\ spoilt' \in [Directory -> SUBSET FileName]
      /\ stuck' \in [Directory -> SUBSET FileName]
      /\ linked' \in [Session -> BOOLEAN]
      /\ \A t \in Session : linked'[t] => linked[t]
  <2>1. Head(toSrv[s]).name \in FileName
    BY <1>1, ReceivedFacts, MessageParts DEF Received
  <2>2. QED
    BY <2>1, RemoveType DEF Delete, IInv, TypeOK
<1>5. ServerTypeOK'
  BY <1>1, <1>3, <1>4 DEF IInv, TypeOK, ServerTypeOK
<1>6. /\ toSrv' \in [Session -> Seq(Message)]
      /\ OwnRequests'
      /\ \A t \in Session \ {s} : toSrv'[t] = toSrv[t]
      /\ cpc[s] # "new" /\ cdirectory[s] = Dir(s) /\ Dir(s) \in dirs
  BY <1>1, ReceivedFacts
<1>7. QED
  BY <1>1, <1>3, <1>5, <1>6, InFolder

(* A request that changes neither the folder nor the replies.              *)
LEMMA SilentStep ==
  ASSUME IInv, NEW s \in Session, UNCHANGED clientVars,
         OpenFails(s) \/ Ignore(s) \/ Exit(s)
  PROVE  IInv'
<1>1. /\ \E op \in {"upload", "download", "data", "confirm", "error", "exit"} : Received(s, op)
      /\ UNCHANGED <<toCli, open, cdirectory, uploadVars, diskVars>>
      /\ UNCHANGED spc \/ spc' = [spc EXCEPT ![s] = "returned"]
  BY DEF OpenFails, Ignore, Exit, Received
<1>2. spc' \in [Session -> ServerState] /\ \A t \in Session \ {s} : spc'[t] = spc[t]
  BY <1>1 DEF IInv, TypeOK, ServerTypeOK, ServerState
<1>3. ServerTypeOK'
  BY <1>1, <1>2 DEF IInv, TypeOK, ServerTypeOK, uploadVars, diskVars
<1>4. toCli' \in [Session -> Seq(Item)]
  BY <1>1 DEF IInv, TypeOK
<1>5. /\ toSrv' \in [Session -> Seq(Message)]
      /\ OwnRequests'
      /\ \A t \in Session \ {s} : toSrv'[t] = toSrv[t]
      /\ cpc[s] # "new" /\ cdirectory[s] = Dir(s) /\ Dir(s) \in dirs
  BY <1>1, ReceivedFacts
<1>6. QED
  BY <1>1, <1>2, <1>3, <1>4, <1>5, InFolder DEF diskVars

(* A packet of the upload loop, received or not.                           *)
LEMMA StorePacketStep ==
  ASSUME IInv, NEW s \in Session, NEW x \in Chunk,
         spc[s] = "upload", StorePacket(s, x), UNCHANGED clientVars,
         toSrv' \in [Session -> Seq(Message)], OwnRequests',
         \A t \in Session \ {s} : toSrv'[t] = toSrv[t]
  PROVE  IInv'
<1> DEFINE d == cdirectory[s]
           n == packNum[s] + 1
           f == filename[s]
           c == Put(body[d][f], n, x)
<1>1. d = Dir(s) /\ cpc[s] # "new" /\ Dir(s) \in dirs /\ d \in Directory
  BY FolderKnown, DirFacts
<1>2. /\ \/ linked[s] /\ (Kept(s, c) \/ Lost(s, c))
         \/ ~ linked[s] /\ UNCHANGED <<body, spoilt>>
      /\ packNum' = [packNum EXCEPT ![s] = n]
      /\ UNCHANGED <<open, cdirectory, filename, numblock, linked, dirs, held, stuck>>
      /\ \E next \in ServerState : Send(s, << Ack >>, next)
  BY DEF StorePacket, ServerState
<1>3. /\ toCli' \in [Session -> Seq(Item)]
      /\ spc' \in [Session -> ServerState]
      /\ \A t \in Session \ {s} : toCli'[t] = toCli[t] /\ spc'[t] = spc[t]
  BY <1>2, SendFacts, ReplyTypes DEF IInv
<1>4. n \in Nat \ {0} /\ packNum' \in [Session -> Nat]
  BY <1>2 DEF IInv, TypeOK, ServerTypeOK
<1>5. body[d] \in [FileName -> Seq(Chunk)] /\ f \in FileName \cup {NoName}
  BY <1>1 DEF IInv, TypeOK, ServerTypeOK
<1>6. f \in FileName => \A k \in 0..Len(c) : SubSeq(c, 1, k) \in Seq(Chunk) /\ c \in Seq(Chunk)
  <2>1. SUFFICES ASSUME f \in FileName, NEW k \in 0..Len(c)
                 PROVE  SubSeq(c, 1, k) \in Seq(Chunk) /\ c \in Seq(Chunk)
    OBVIOUS
  <2>2. c \in Seq(Chunk)
    BY <1>4, <1>5, <2>1, PutType
  <2>3. \A i \in 1..k : c[i] \in Chunk
    BY <2>1, <2>2
  <2>4. QED
    BY <2>2, <2>3, SubSeqProperties
<1>7. body' \in [Directory -> [FileName -> Seq(Chunk)]]
  <2>1. ASSUME NEW y, f \in FileName => y \in Seq(Chunk)
        PROVE  [body EXCEPT ![d][f] = y] \in [Directory -> [FileName -> Seq(Chunk)]]
    <3>1. [body[d] EXCEPT ![f] = y] \in [FileName -> Seq(Chunk)]
      BY <1>5, <2>1
    <3>2. QED
      BY <1>1, <3>1 DEF IInv, TypeOK, ServerTypeOK
  <2>2. CASE linked[s] /\ Kept(s, c)
    <3>1. f \in FileName => c \in Seq(Chunk)
      BY <1>4, <1>5, PutType
    <3>2. body' = [body EXCEPT ![d][f] = c]
      BY <2>2 DEF Kept
    <3>3. QED
      BY <2>1, <3>1, <3>2
  <2>3. CASE linked[s] /\ Lost(s, c)
    <3>1. PICK k \in 0..Len(c) : body' = [body EXCEPT ![d][f] = SubSeq(c, 1, k)]
      BY <2>3 DEF Lost
    <3>2. QED
      BY <1>6, <2>1, <3>1
  <2>4. CASE ~ linked[s]
    BY <1>2, <2>4 DEF IInv, TypeOK, ServerTypeOK
  <2>5. QED
    BY <1>2, <2>2, <2>3, <2>4
<1>8. spoilt' \in [Directory -> SUBSET FileName]
  BY <1>1, <1>2 DEF Kept, Lost, IInv, TypeOK, ServerTypeOK
<1>9. ServerTypeOK'
  BY <1>2, <1>3, <1>4, <1>7, <1>8 DEF IInv, TypeOK, ServerTypeOK
<1>10. QED
  BY <1>1, <1>2, <1>3, <1>9, InFolder

LEMMA UploadLoopStep ==
  ASSUME IInv, NEW s \in Session, RecvPacket(s) \/ RecvClosed(s), UNCHANGED clientVars
  PROVE  IInv'
<1>1. Junk \in Chunk
  BY DEF Junk, Block, Chunk
<1>2. CASE RecvPacket(s)
  <2>1. spc[s] = "upload" /\ toSrv[s] # <<>> /\ Recv(s) /\ StorePacket(s, Payload(s))
    BY <1>2 DEF RecvPacket
  <2>2. Head(toSrv[s]) \in Message
    BY <2>1 DEF IInv, TypeOK
  <2>3. Payload(s) \in Chunk
    BY <1>1, <2>2, MessageParts DEF Payload, Block, Chunk
  <2>4. QED
    BY <2>1, <2>3, RecvFacts, StorePacketStep DEF IInv
<1>3. CASE RecvClosed(s)
  <2>1. spc[s] = "upload" /\ StorePacket(s, Junk) /\ UNCHANGED toSrv
    BY <1>3 DEF RecvClosed
  <2>2. toSrv' \in [Session -> Seq(Message)] /\ OwnRequests'
    BY <2>1 DEF IInv, TypeOK, OwnRequests, OwnMessage
  <2>3. QED
    BY <1>1, <2>1, <2>2, StorePacketStep
<1>4. QED
  BY <1>2, <1>3

(* Every step of a server process preserves the invariant.                 *)
LEMMA ServeStep ==
  ASSUME IInv, NEW s \in Session, Serve(s)
  PROVE  IInv'
BY CreateFolderStep, CreateNewFolderStep, ListDirStep, OpenUploadStep, DeleteStep,
   SilentStep, UploadLoopStep DEF Serve, ServerStep

-----------------------------------------------------------------------------
(* The steps of a client.                                                  *)

(* The client writes a request, or nothing, and takes n items, or none,    *)
(* from the main screen or having a reply to read.                         *)
LEMMA TalkStep ==
  ASSUME IInv, NEW s \in Session,
         toCli[s] # <<>> \/ ~ Starting(s),
         UNCHANGED <<open, serverVars>>,
         UNCHANGED toSrv \/ (\E m \in OwnMessage(s) : Write(s, m)),
         UNCHANGED toCli \/ (\E n \in Nat : Take(s, n)),
         ClientTypeOK',
         \A t \in Session \ {s} : cpc'[t] = cpc[t] /\ ops'[t] = ops[t],
         cpc'[s] \notin {"new", "create"}
  PROVE  IInv'
<1>1. Dir(s) \in dirs /\ cdirectory[s] # NoName
  BY FolderThere
<1>2. /\ toSrv' \in [Session -> Seq(Message)]
      /\ OwnRequests'
      /\ \A t \in Session \ {s} : toSrv'[t] = toSrv[t]
  <2>1. CASE UNCHANGED toSrv
    BY <2>1 DEF IInv, TypeOK, OwnRequests, OwnMessage
  <2>2. CASE \E m \in OwnMessage(s) : Write(s, m)
    BY <2>2, WriteFacts DEF IInv
  <2>3. QED
    BY <2>1, <2>2
<1>3. toCli' \in [Session -> Seq(Item)] /\ \A t \in Session \ {s} : toCli'[t] = toCli[t]
  <2>1. CASE UNCHANGED toCli
    BY <2>1 DEF IInv, TypeOK
  <2>2. CASE \E n \in Nat : Take(s, n)
    BY <2>2, TakeFacts DEF IInv
  <2>3. QED
    BY <2>1, <2>2
<1>4. open' \in [Session -> BOOLEAN]
  BY DEF IInv, TypeOK
<1>5. QED
  BY <1>1, <1>2, <1>3, <1>4, ClientFrame

LEMMA InitializeStep ==
  ASSUME IInv, NEW s \in Session, Initialize(s), UNCHANGED serverVars
  PROVE  IInv'
<1> DEFINE m == Msg("create", UserOf[s], 0)
<1>1. /\ cpc[s] = "new"
      /\ open' = [open EXCEPT ![s] = TRUE]
      /\ Write(s, m)
      /\ cpc' = [cpc EXCEPT ![s] = "create"]
      /\ UNCHANGED <<toCli, sel, blockNo, files, local, acked, astray, ops>>
  BY DEF Initialize, Goto
<1>2. m \in OwnMessage(s)
  BY ChannelAssumption DEF OwnMessage, Message, Msg
<1>3. cdirectory[s] = NoName /\ toSrv[s] = <<>> /\ toCli[s] = <<>> /\ ops[s] = 0
  BY <1>1 DEF IInv, NoFolderYet, DirIsOwners
<1>4. /\ toSrv' \in [Session -> Seq(Message)]
      /\ OwnRequests'
      /\ toSrv'[s] = Append(toSrv[s], m)
      /\ \A t \in Session \ {s} : toSrv'[t] = toSrv[t]
  BY <1>1, <1>2, WriteFacts DEF IInv
<1>5. toSrv'[s] = << m >>
  BY <1>3, <1>4
<1>6. ClientTypeOK' /\ cpc'[s] = "create" /\ \A t \in Session \ {s} : cpc'[t] = cpc[t]
  BY <1>1 DEF IInv, TypeOK, ClientTypeOK, Waiting
<1>7. toCli' \in [Session -> Seq(Item)] /\ open' \in [Session -> BOOLEAN]
  BY <1>1 DEF IInv, TypeOK
<1>8. QED
  BY <1>1, <1>3, <1>4, <1>5, <1>6, <1>7, ClientFrame

(* The client lets go of the connection.                                   *)
LEMMA CloseStep ==
  ASSUME IInv, NEW s \in Session, NEW sent \in Seq(OwnMessage(s)),
         Close(s, sent), UNCHANGED <<sel, blockNo, local, acked, astray, ops>>,
         files' \in [Session -> SUBSET FileName],
         sent = toSrv[s] \/ ~ Starting(s),
         UNCHANGED serverVars
  PROVE  IInv'
<1>1. /\ toSrv' \in [Session -> Seq(Message)]
      /\ OwnRequests'
      /\ toCli' \in [Session -> Seq(Item)]
      /\ open' \in [Session -> BOOLEAN]
      /\ cpc' = [cpc EXCEPT ![s] = "closed"]
      /\ toCli'[s] = <<>>
      /\ Len(sent) <= 1 => toSrv'[s] \in {<<>>, sent}
      /\ \A t \in Session \ {s} : toSrv'[t] = toSrv[t] /\ toCli'[t] = toCli[t]
  BY CloseFacts DEF IInv
<1>2. ClientTypeOK' /\ cpc'[s] = "closed" /\ \A t \in Session \ {s} : cpc'[t] = cpc[t]
  BY <1>1 DEF IInv, TypeOK, ClientTypeOK
<1>3. cdirectory[s] = NoName => toSrv'[s] \in {<<>>, << Msg("create", UserOf[s], 0) >>}
  <2>1. SUFFICES ASSUME cdirectory[s] = NoName
                 PROVE  toSrv'[s] \in {<<>>, << Msg("create", UserOf[s], 0) >>}
    OBVIOUS
  <2>2. sent = toSrv[s]
    BY <2>1, FolderThere
  <2>3. sent \in {<<>>, << Msg("create", UserOf[s], 0) >>}
    BY <2>1, <2>2 DEF IInv, DirIsOwners
  <2>4. Len(sent) <= 1
    <3>1. CASE sent = <<>>
      BY <3>1
    <3>2. CASE sent = << Msg("create", UserOf[s], 0) >>
      <4>1. Len(sent) = 1
        BY <3>2
      <4>2. QED
        BY <4>1
    <3>3. QED
      BY <2>3, <3>1, <3>2
  <2>5. QED
    BY <1>1, <2>3, <2>4
<1>4. QED
  BY <1>1, <1>2, <1>3, ClientFrame

(* The session goes on, or is stranded, after logout has failed.           *)
LEMMA GoOnStep ==
  ASSUME IInv, NEW s \in Session, NEW p \in {"idle", "stranded"},
         NEW n \in Nat, Take(s, n), Goto(s, p),
         p = "stranded" \/ ~ Starting(s),
         astray' = [astray EXCEPT ![s] = TRUE],
         UNCHANGED <<toSrv, open, sel, blockNo, local, acked, ops>>,
         files' \in [Session -> SUBSET FileName],
         UNCHANGED serverVars
  PROVE  IInv'
<1>1. /\ toCli' \in [Session -> Seq(Item)]
      /\ toCli[s] = <<>> => toCli'[s] = <<>>
      /\ \A t \in Session \ {s} : toCli'[t] = toCli[t]
  BY TakeFacts DEF IInv
<1>2. /\ toSrv' \in [Session -> Seq(Message)] /\ OwnRequests' /\ open' \in [Session -> BOOLEAN]
      /\ \A t \in Session \ {s} : toSrv'[t] = toSrv[t]
  BY DEF IInv, TypeOK, OwnRequests, OwnMessage
<1>3. ClientTypeOK' /\ cpc'[s] = p /\ \A t \in Session \ {s} : cpc'[t] = cpc[t]
  BY DEF Goto, IInv, TypeOK, ClientTypeOK, Waiting
<1>4. CASE cdirectory[s] = NoName
  <2>1. toCli[s] = <<>> /\ toSrv[s] \in {<<>>, << Msg("create", UserOf[s], 0) >>}
    BY <1>4 DEF IInv, DirIsOwners
  <2>2. p = "stranded"
    BY <1>4, FolderThere
  <2>3. QED
    BY <1>1, <1>2, <1>3, <2>1, <2>2, ClientFrame
<1>5. CASE cdirectory[s] # NoName
  <2>1. toCli'[s] # <<>> \/ p # "stranded" => Dir(s) \in dirs
    BY <1>1, FolderThere
  <2>2. QED
    BY <1>1, <1>2, <1>3, <1>5, <2>1, ClientFrame
<1>6. QED
  BY <1>4, <1>5

LEMMA CatchStep ==
  ASSUME IInv, NEW s \in Session, Catch(s),
         cpc[s] \in {"create", "list"},
         cpc[s] = "create" => ops[s] = 0,
         UNCHANGED <<sel, blockNo, local, acked, ops>>,
         files' \in [Session -> SUBSET FileName],
         UNCHANGED serverVars
  PROVE  IInv'
<1>1. CASE Close(s, toSrv[s]) /\ UNCHANGED astray
  <2>1. toSrv[s] \in Seq(OwnMessage(s))
    BY DEF IInv, OwnRequests
  <2>2. QED
    BY <1>1, <2>1, CloseStep
<1>2. CASE /\ Goto(s, IF ops[s] = 0 THEN "stranded" ELSE "idle")
           /\ astray' = [astray EXCEPT ![s] = TRUE]
           /\ Take(s, Len(toCli[s]))
           /\ UNCHANGED <<toSrv, open>>
  <2>1. Len(toCli[s]) \in Nat
    BY DEF IInv, TypeOK
  <2>2. cpc[s] = "list" => ~ Starting(s)
    BY DEF Starting
  <2>3. QED
    BY <1>2, <2>1, <2>2, GoOnStep
<1>3. QED
  BY <1>1, <1>2 DEF Catch

LEMMA ClosingStep ==
  ASSUME IInv, NEW s \in Session, UNCHANGED serverVars,
         UserLogout(s) \/ Crash(s) \/ ExitTimeout(s) \/ ListMisread(s)
  PROVE  IInv'
<1>1. toSrv[s] \in Seq(OwnMessage(s)) /\ files \in [Session -> SUBSET FileName]
  BY DEF IInv, OwnRequests, TypeOK, ClientTypeOK
<1>2. CASE UserLogout(s)
  <2>1. Msg("exit", NoName, 0) \in OwnMessage(s)
    BY DEF OwnMessage, Message, Msg
  <2>2. Append(toSrv[s], Msg("exit", NoName, 0)) \in Seq(OwnMessage(s))
    BY <1>1, <2>1
  <2>3. QED
    BY <1>1, <1>2, <2>2, CloseStep DEF UserLogout, Starting
<1>3. CASE Crash(s)
  BY <1>1, <1>3, CloseStep DEF Crash
<1>4. CASE ExitTimeout(s)
  <2>1. cpc[s] \in {"create", "list"} /\ (cpc[s] = "create" => ops[s] = 0)
    BY <1>4 DEF ExitTimeout, IInv, NoFolderYet
  <2>2. QED
    BY <1>1, <1>4, <2>1, CatchStep DEF ExitTimeout
<1>5. CASE ListMisread(s)
  <2>1. cpc[s] = "list" /\ UNCHANGED <<sel, blockNo, local, acked, ops>>
    BY <1>5 DEF ListMisread
  <2>2. files' \in [Session -> SUBSET FileName]
    BY <1>1, <1>5 DEF ListMisread
  <2>3. CASE Catch(s)
    BY <2>1, <2>2, <2>3, CatchStep
  <2>4. CASE /\ \E n \in 3..Len(toCli[s]) : Take(s, n)
             /\ Goto(s, "idle")
             /\ astray' = [astray EXCEPT ![s] = TRUE]
             /\ UNCHANGED <<toSrv, open>>
    <3>1. PICK n \in 3..Len(toCli[s]) : Take(s, n)
      BY <2>4
    <3>2. n \in Nat /\ ~ Starting(s)
      BY <2>1, <3>1 DEF Starting
    <3>3. QED
      BY <2>1, <2>2, <2>4, <3>1, <3>2, GoOnStep
  <2>5. QED
    BY <1>5, <2>3, <2>4 DEF ListMisread
<1>6. QED
  BY <1>2, <1>3, <1>4, <1>5

LEMMA PressStep ==
  ASSUME IInv, NEW s \in Session, UNCHANGED serverVars,
         \/ RefreshListFiles(s)
         \/ \E f \in FileName : UploadFile(s, f) \/ DeleteFile(s, f) \/ DownloadFile(s, f)
  PROVE  IInv'
<1>1. cpc[s] = "idle" /\ ops[s] < MaxOps /\ ops' = [ops EXCEPT ![s] = @ + 1]
      /\ UNCHANGED <<open, toCli, blockNo>>
  BY DEF RefreshListFiles, UploadFile, DeleteFile, DownloadFile, Press
<1>2. ops' \in [Session -> 0..MaxOps]
  BY <1>1, ClientAssumption DEF IInv, TypeOK, ClientTypeOK
<1>3. ~ Starting(s)
  BY <1>1 DEF Starting
<1>4. CASE RefreshListFiles(s)
  <2>1. Msg("list", UserOf[s], 0) \in OwnMessage(s)
    BY ChannelAssumption DEF OwnMessage, Message, Msg
  <2>2. ClientTypeOK' /\ cpc'[s] = "list" /\ \A t \in Session \ {s} : cpc'[t] = cpc[t]
    BY <1>1, <1>2, <1>4 DEF RefreshListFiles, RefreshFiles, Goto, IInv, TypeOK, ClientTypeOK, Waiting
  <2>3. \E m \in OwnMessage(s) : Write(s, m)
    BY <1>4, <2>1 DEF RefreshListFiles, RefreshFiles
  <2>4. QED
    BY <1>1, <1>3, <2>2, <2>3, TalkStep
<1>5. ASSUME NEW f \in FileName, UploadFile(s, f) \/ DeleteFile(s, f) \/ DownloadFile(s, f)
      PROVE  IInv'
  <2>1. \E m \in OwnMessage(s) : Write(s, m)
    BY <1>5, MessageTypes, ChannelAssumption DEF UploadFile, DeleteFile, DownloadFile
  <2>2. ClientTypeOK'
    <3>1. CASE UploadFile(s, f)
      BY <1>1, <1>2, <3>1 DEF UploadFile, Disown, Goto, IInv, TypeOK, ClientTypeOK, Waiting
    <3>2. CASE DeleteFile(s, f)
      BY <1>1, <1>2, <3>2 DEF DeleteFile, Disown, DropRow, Goto, IInv, TypeOK, ClientTypeOK, Waiting
    <3>3. CASE DownloadFile(s, f)
      BY <1>1, <1>2, <3>3 DEF DownloadFile, Goto, IInv, TypeOK, ClientTypeOK, Waiting
    <3>4. QED
      BY <1>5, <3>1, <3>2, <3>3
  <2>3. cpc'[s] \notin {"new", "create"} /\ \A t \in Session \ {s} : cpc'[t] = cpc[t]
    BY <1>5 DEF UploadFile, DeleteFile, DownloadFile, Goto, IInv, TypeOK, ClientTypeOK
  <2>4. QED
    BY <1>1, <1>3, <2>1, <2>2, <2>3, TalkStep
<1>6. QED
  BY <1>4, <1>5

(* The replies of an upload.                                               *)
LEMMA NextBlockStep ==
  ASSUME IInv, NEW s \in Session, NEW b \in Nat,
         cpc[s] \in {"upreq", "upblk"}, toCli[s] # <<>>,
         Take(s, 1), NextBlock(s, b),
         UNCHANGED <<open, sel, files, local, astray, ops, serverVars>>
  PROVE  IInv'
<1>1. sel[s] \in FileName
  BY DEF IInv, TypeOK, ClientTypeOK
<1>2. CASE MoreBlocks(s, b) /\ Write(s, Msg("data", sel[s], b))
           /\ blockNo' = [blockNo EXCEPT ![s] = b]
           /\ Goto(s, "upblk") /\ UNCHANGED acked
  <2>1. \E m \in OwnMessage(s) : Write(s, m)
    BY <1>1, <1>2, MessageTypes
  <2>2. ClientTypeOK' /\ cpc'[s] = "upblk" /\ \A t \in Session \ {s} : cpc'[t] = cpc[t]
    BY <1>1, <1>2 DEF Goto, IInv, TypeOK, ClientTypeOK, Waiting
  <2>3. QED
    BY <2>1, <2>2, TalkStep
<1>3. CASE ~ MoreBlocks(s, b) /\ acked' = [acked EXCEPT ![s] = @ \cup {sel[s]}]
           /\ Goto(s, "idle") /\ UNCHANGED <<toSrv, blockNo>>
  <2>1. ClientTypeOK' /\ cpc'[s] = "idle" /\ \A t \in Session \ {s} : cpc'[t] = cpc[t]
    BY <1>1, <1>3 DEF Goto, IInv, TypeOK, ClientTypeOK, Waiting
  <2>2. QED
    BY <1>3, <2>1, TalkStep
<1>4. QED
  BY <1>2, <1>3 DEF NextBlock

(* The other reads, and the timeouts that leave the session alive.         *)
LEMMA TakeStringFacts ==
  ASSUME IInv, NEW s \in Session, TakeString(s)
  PROVE  toCli[s] # <<>> /\ \E n \in Nat : Take(s, n)
<1>1. PICK n \in 1..Len(toCli[s]) : Take(s, n)
  BY DEF TakeString
<1>2. toCli[s] \in Seq(Item)
  BY DEF IInv, TypeOK
<1>3. n \in Nat /\ Len(toCli[s]) # 0
  BY <1>2
<1>4. QED
  BY <1>1, <1>3

LEMMA StringStep ==
  ASSUME IInv, NEW s \in Session, UNCHANGED serverVars,
         CreateFolderDone(s) \/ DelReply(s)
  PROVE  IInv'
<1>1. TakeString(s) /\ UNCHANGED <<open, sel, blockNo, local, acked, astray, ops>>
  BY DEF CreateFolderDone, DelReply
<1>2. Msg("list", UserOf[s], 0) \in OwnMessage(s)
  BY ChannelAssumption DEF OwnMessage, Message, Msg
<1>3. Write(s, Msg("list", UserOf[s], 0)) /\ Goto(s, "list")
      /\ (UNCHANGED files \/ files' = [files EXCEPT ![s] = {}])
  BY DEF CreateFolderDone, DelReply, RefreshFiles
<1>4. ClientTypeOK' /\ cpc'[s] = "list" /\ \A t \in Session \ {s} : cpc'[t] = cpc[t]
  BY <1>1, <1>3 DEF Goto, IInv, TypeOK, ClientTypeOK, Waiting
<1>5. QED
  BY <1>1, <1>2, <1>3, <1>4, TakeStringFacts, TalkStep

LEMMA OtherReadStep ==
  ASSUME IInv, NEW s \in Session, UNCHANGED serverVars,
         ListDone(s) \/ DlHeader(s) \/ DlBlock(s)
  PROVE  IInv'
<1>1. toCli[s] \in Seq(Item) /\ Len(toCli[s]) \in Nat
  BY DEF IInv, TypeOK
<1>2. UNCHANGED open /\ toCli[s] # <<>>
  BY <1>1 DEF ListDone, DlHeader, DlBlock
<1>3. CASE ListDone(s)
  <2>1. Head(toCli[s]).names \in SUBSET FileName
    <3>1. Head(toCli[s]) \in Item
      BY <1>1, <1>2
    <3>2. QED
      BY <3>1 DEF Item
  <2>2. ClientTypeOK' /\ cpc'[s] = "idle" /\ \A t \in Session \ {s} : cpc'[t] = cpc[t]
    BY <1>3, <2>1 DEF ListDone, Goto, IInv, TypeOK, ClientTypeOK, Waiting
  <2>3. UNCHANGED toSrv /\ Take(s, ListingLen) /\ ListingLen \in Nat
    BY <1>3, ChannelAssumption DEF ListDone
  <2>4. QED
    BY <1>2, <1>3, <2>2, <2>3, TalkStep DEF ListDone
<1>4. CASE DlHeader(s) \/ DlBlock(s)
  <2>1. Msg("confirm", NoName, 0) \in OwnMessage(s)
    BY DEF OwnMessage, Message, Msg
  <2>2. Write(s, Msg("confirm", NoName, 0)) /\ \E n \in Nat : Take(s, n)
    BY <1>1, <1>4 DEF DlHeader, DlBlock
  <2>3. ClientTypeOK' /\ cpc'[s] = "dlblk" /\ \A t \in Session \ {s} : cpc'[t] = cpc[t]
    BY <1>4 DEF DlHeader, DlBlock, Goto, IInv, TypeOK, ClientTypeOK, Waiting
  <2>4. ops' = ops
    BY <1>4 DEF DlHeader, DlBlock
  <2>5. QED
    BY <1>2, <2>1, <2>2, <2>3, <2>4, TalkStep
<1>5. QED
  BY <1>3, <1>4

LEMMA TimeoutStep ==
  ASSUME IInv, NEW s \in Session, UNCHANGED serverVars, UpTimeout(s) \/ ReplyTimeout(s)
  PROVE  IInv'
<1>1. /\ ~ Starting(s) /\ UNCHANGED <<open, sel, blockNo, files, local, acked, astray, ops>>
      /\ Goto(s, "idle")
  BY DEF UpTimeout, ReplyTimeout, Starting
<1>2. Msg("error", NoName, 0) \in OwnMessage(s) /\ Len(toCli[s]) \in Nat
  BY DEF OwnMessage, Message, Msg, IInv, TypeOK
<1>3. ClientTypeOK' /\ cpc'[s] = "idle" /\ \A t \in Session \ {s} : cpc'[t] = cpc[t]
  BY <1>1 DEF Goto, IInv, TypeOK, ClientTypeOK
<1>4. UNCHANGED toSrv \/ Write(s, Msg("error", NoName, 0))
  BY DEF UpTimeout, ReplyTimeout
<1>5. UNCHANGED toCli \/ Take(s, Len(toCli[s]))
  BY DEF UpTimeout, ReplyTimeout
<1>6. QED
  BY <1>1, <1>2, <1>3, <1>4, <1>5, TalkStep

(* Every step of a client preserves the invariant.                         *)
LEMMA ClientStep ==
  ASSUME IInv, NEW s \in Session, Act(s) \/ Read(s) \/ Timeout(s)
  PROVE  IInv'
<1>1. CASE Act(s)
  BY <1>1, InitializeStep, PressStep, ClosingStep DEF Act, UserAct
<1>2. CASE Read(s)
  <2>1. CASE UpConfirm(s)
    BY <1>2, <2>1, NextBlockStep DEF UpConfirm, Read
  <2>2. CASE UpAck(s)
    <3>1. blockNo[s] + 1 \in Nat
      BY DEF IInv, TypeOK, ClientTypeOK
    <3>2. QED
      BY <1>2, <2>2, <3>1, NextBlockStep DEF UpAck, Read
  <2>3. QED
    BY <1>2, <2>1, <2>2, StringStep, OtherReadStep, ClosingStep DEF Read, ClientRead
<1>3. CASE Timeout(s)
  BY <1>3, TimeoutStep, ClosingStep DEF Timeout, ClientTimeout
<1>4. QED
  BY <1>1, <1>2, <1>3

-----------------------------------------------------------------------------
LEMMA InitInvariant == Init => IInv
<1> SUFFICES ASSUME Init PROVE IInv
  OBVIOUS
<1>1. ServerTypeOK
  <2>1. \A f \in FileName : Full(f) \in Seq(Chunk)
    <3>1. \A f \in FileName : Full(f) \in [1..BlocksOf[f] -> Chunk]
      BY ChannelAssumption DEF Full, Block, Chunk
    <3>2. \A f \in FileName : BlocksOf[f] \in Nat
      BY ChannelAssumption
    <3>3. QED
      BY <3>1, <3>2, SeqDef
  <2>2. held \in [Directory -> SUBSET FileName]
    BY ChannelAssumption DEF Init, ServerInit
  <2>3. \A d \in Directory : \A f \in held[d] : Origin(f) \in FileName
    <3>1. SUFFICES ASSUME NEW d \in Directory, NEW f \in held[d]
                   PROVE  Origin(f) \in FileName
      OBVIOUS
    <3>2. \E g \in FileName : SentAs[g] = f
      BY <3>1 DEF Init, ServerInit
    <3>3. QED
      BY <3>2 DEF Origin, Sources
  <2>4. body \in [Directory -> [FileName -> Seq(Chunk)]]
    <3>1. ASSUME NEW d \in Directory, NEW f \in FileName
          PROVE  (IF f \in held[d] THEN Full(Origin(f)) ELSE <<>>) \in Seq(Chunk)
      <4>1. <<>> \in Seq(Chunk)
        OBVIOUS
      <4>2. QED
        BY <2>1, <2>3, <4>1
    <3>2. QED
      BY <3>1 DEF Init, ServerInit
  <2>5. QED
    BY <2>2, <2>4 DEF Init, ServerInit, ServerTypeOK, ServerState
<1>2. ClientTypeOK
  BY ClientAssumption DEF Init, ClientInit, ClientTypeOK
<1>3. TypeOK
  BY <1>1, <1>2 DEF Init, TypeOK
<1>4. OwnRequests /\ DirIsOwners /\ NoFolderYet /\ FolderMade
  BY DEF Init, ServerInit, ClientInit, OwnRequests, DirIsOwners, NoFolderYet, FolderMade, Starting
<1>5. QED
  BY <1>3, <1>4 DEF IInv

LEMMA StutterInvariant == IInv /\ UNCHANGED vars => IInv'
BY DEF IInv, vars, channelVars, serverVars, clientVars, TypeOK, ServerTypeOK, ClientTypeOK,
       OwnRequests, OwnMessage, DirIsOwners, NoFolderYet, FolderMade, Starting

LEMMA NextInvariant == IInv /\ [Next]_vars => IInv'
BY ServeStep, ClientStep, StutterInvariant DEF Next

(* The inductive invariant holds.                                          *)
THEOREM Invariance == Spec => []IInv
<1>1. Init => IInv
  BY InitInvariant
<1>2. IInv /\ [Next]_vars => IInv'
  BY NextInvariant
<1>3. QED
  BY <1>1, <1>2, PTL DEF Spec

(* Every variable of every session keeps its type.                         *)
THEOREM TypeCorrect == Spec => []TypeOK
<1>1. IInv => TypeOK
  BY DEF IInv
<1>2. QED
  BY <1>1, Invariance, PTL

(* No process ever works in a folder that the name of its client's user    *)
(* does not lead to, and none touches a folder before it was told which    *)
(* (socketThread).                                                         *)
THEOREM DirectoryOfOwner == Spec => []DirIsOwners
<1>1. IInv => DirIsOwners
  BY DEF IInv
<1>2. QED
  BY <1>1, Invariance, PTL

-----------------------------------------------------------------------------
(* A process is there for its client.                                      *)

NoCreate(q) == \A i \in 1..Len(q) : q[i].op # "create"

(* A process ends under a client that keeps the connection only where      *)
(* mkdir fails; then no answer has come, and the client is still starting. *)
(* It asks for a folder once.                                              *)
Attended(s) ==
  /\ open[s] <=> cpc[s] \notin {"new", "closed"}
  /\ cdirectory[s] # NoName => NoCreate(toSrv[s])
  /\ open[s] /\ spc[s] \in {"mkdir", "dead"} =>
       cpc[s] \in {"create", "stranded"} /\ toCli[s] = <<>>

AInv == IInv /\ \A s \in Session : Attended(s)

LEMMA OthersAttended ==
  ASSUME AInv, IInv', NEW s \in Session, Attended(s)',
         \A t \in Session \ {s} : /\ toSrv'[t] = toSrv[t] /\ toCli'[t] = toCli[t]
                                  /\ open'[t] = open[t]   /\ cpc'[t] = cpc[t]
                                  /\ spc'[t] = spc[t]
                                  /\ cdirectory'[t] = cdirectory[t]
  PROVE  AInv'
BY DEF AInv, Attended, NoCreate

LEMMA RecvClear ==
  ASSUME IInv, NEW s \in Session, Recv(s), NoCreate(toSrv[s])
  PROVE  NoCreate(toSrv'[s])
<1>1. PICK k \in 1..Len(toSrv[s]) :
        toSrv' = [toSrv EXCEPT ![s] = SubSeq(@, k + 1, Len(@))]
  BY DEF Recv
<1> DEFINE q == toSrv[s]
           r == SubSeq(q, k + 1, Len(q))
<1>2. q \in Seq(Message) /\ Len(q) \in Nat /\ toSrv'[s] = r
  BY <1>1 DEF IInv, TypeOK
<1>3. /\ Len(r) = IF k + 1 <= Len(q) THEN Len(q) - (k + 1) + 1 ELSE 0
      /\ \A i \in 1..Len(r) : r[i] = q[k + i]
  <2>1. \A i \in (k + 1)..Len(q) : q[i] \in Message
    BY <1>2
  <2>2. Len(r) = IF k + 1 <= Len(q) THEN Len(q) - (k + 1) + 1 ELSE 0
    BY <1>2, <2>1, SubSeqProperties
  <2>3. \A i \in 1..(Len(q) - (k + 1) + 1) : r[i] = q[k + i]
    BY <1>2, <2>1, SubSeqProperties
  <2>4. QED
    BY <1>2, <2>2, <2>3
<1>4. ASSUME NEW i \in 1..Len(r) PROVE r[i].op # "create"
  <2>1. k + i \in 1..Len(q)
    BY <1>2, <1>3
  <2>2. QED
    BY <1>3, <2>1 DEF NoCreate
<1>5. QED
  BY <1>2, <1>4 DEF NoCreate

(* The first request is the only one that names a folder, and nothing has  *)
(* been answered before it.                                                *)
LEMMA FirstRequest ==
  ASSUME AInv, NEW s \in Session, Received(s, "create")
  PROVE  toSrv'[s] = <<>> /\ toCli[s] = <<>> /\ Starting(s)
<1>1. toSrv[s] \in Seq(Message) /\ toSrv[s] # <<>> /\ Head(toSrv[s]).op = "create" /\ Recv(s)
  BY DEF Received, AInv, IInv, TypeOK
<1>2. cdirectory[s] = NoName
  <2>1. 1 \in 1..Len(toSrv[s]) /\ toSrv[s][1] = Head(toSrv[s])
    BY <1>1
  <2>2. QED
    BY <1>1, <2>1 DEF AInv, Attended, NoCreate
<1>3. toSrv[s] = << Msg("create", UserOf[s], 0) >> /\ toCli[s] = <<>> /\ Starting(s)
  BY <1>1, <1>2 DEF AInv, IInv, DirIsOwners, NoFolderYet
<1>4. Len(toSrv[s]) = 1
  BY <1>3
<1>5. QED
  BY <1>1, <1>3, <1>4, RecvFacts DEF AInv, IInv

(* A step of a process that has its folder.                                *)
LEMMA InFolderAttended ==
  ASSUME AInv, NEW s \in Session, Serve(s),
         UNCHANGED cdirectory,
         cdirectory[s] # NoName,
         Recv(s) \/ UNCHANGED toSrv,
         \/ \E items \in Seq(Item), next \in {"main", "upload"} : Send(s, items, next)
         \/ UNCHANGED toCli /\ spc[s] = "main" /\ UNCHANGED spc
         \/ UNCHANGED toCli /\ spc' = [spc EXCEPT ![s] = "returned"]
  PROVE  AInv'
<1>1. IInv' /\ UNCHANGED <<cpc, open>>
  BY ServeStep DEF AInv, Serve, clientVars, ServerStep, CreateFolder, CreateNewFolder, ListDir, OpenUpload,
     OpenFails, Delete, Ignore, Exit, RecvPacket, RecvClosed, StorePacket, Received
<1>2. NoCreate(toSrv'[s]) /\ \A t \in Session \ {s} : toSrv'[t] = toSrv[t]
  <2>1. NoCreate(toSrv[s])
    BY DEF AInv, Attended
  <2>2. QED
    BY <2>1, RecvClear, RecvFacts DEF AInv, IInv
<1>3. /\ open[s] => spc'[s] \notin {"mkdir", "dead"}
      /\ \A t \in Session \ {s} : spc'[t] = spc[t] /\ toCli'[t] = toCli[t]
  <2>1. CASE \E items \in Seq(Item), next \in {"main", "upload"} : Send(s, items, next)
    BY <2>1, SendFacts DEF AInv, IInv, ServerState
  <2>2. CASE UNCHANGED toCli /\ spc[s] = "main" /\ UNCHANGED spc
    BY <2>2
  <2>3. CASE UNCHANGED toCli /\ spc' = [spc EXCEPT ![s] = "returned"]
    BY <2>3 DEF AInv, IInv, TypeOK, ServerTypeOK
  <2>4. QED
    BY <2>1, <2>2, <2>3
<1>4. Attended(s)'
  BY <1>1, <1>2, <1>3 DEF AInv, Attended
<1>5. QED
  BY <1>1, <1>2, <1>3, <1>4, OthersAttended

LEMMA ServeAttended ==
  ASSUME AInv, NEW s \in Session, Serve(s)
  PROVE  AInv'
<1>1. IInv /\ IInv' /\ Attended(s) /\ UNCHANGED <<cpc, open>>
  BY ServeStep DEF AInv, Serve, clientVars, ServerStep, CreateFolder, CreateNewFolder, ListDir, OpenUpload,
     OpenFails, Delete, Ignore, Exit, RecvPacket, RecvClosed, StorePacket, Received
<1>2. << Ack >> \in Seq(Item) /\ StringReply \in Seq(Item)
      /\ \A names \in SUBSET FileName : Listing(names) \in Seq(Item)
  BY ReplyTypes
<1>3. CASE CreateFolder(s)
  <2>1. Received(s, "create") /\ \E d : create_Folder(s, d)
    BY <1>3 DEF CreateFolder
  <2>2. toSrv'[s] = <<>> /\ toCli[s] = <<>> /\ Starting(s)
        /\ \A t \in Session \ {s} : toSrv'[t] = toSrv[t]
    BY <1>1, <2>1, FirstRequest, ReceivedFacts
  <2>3. \A t \in Session \ {s} : cdirectory'[t] = cdirectory[t]
    BY <1>1, <1>3 DEF CreateFolder, EnterFolder, IInv, TypeOK, ServerTypeOK
  <2>4. /\ open[s] => spc'[s] = "main" \/ (spc'[s] = "mkdir" /\ toCli'[s] = <<>>)
        /\ \A t \in Session \ {s} : spc'[t] = spc[t] /\ toCli'[t] = toCli[t]
    <3>1. CASE Send(s, StringReply, "main")
      BY <1>1, <1>2, <3>1, SendFacts DEF IInv, ServerState
    <3>2. CASE spc' = [spc EXCEPT ![s] = "mkdir"] /\ UNCHANGED toCli
      BY <1>1, <2>2, <3>2 DEF IInv, TypeOK, ServerTypeOK
    <3>3. QED
      BY <2>1, <3>1, <3>2 DEF create_Folder
  <2>5. Attended(s)'
    BY <1>1, <2>2, <2>4 DEF Attended, NoCreate, Starting
  <2>6. QED
    BY <1>1, <2>2, <2>3, <2>4, <2>5, OthersAttended
<1>4. CASE CreateNewFolder(s)
  <2>1. spc[s] = "mkdir" /\ UNCHANGED <<toSrv, cdirectory>>
    BY <1>4 DEF CreateNewFolder
  <2>2. /\ open[s] => spc'[s] = "main" \/ (spc'[s] = "dead" /\ UNCHANGED toCli)
        /\ \A t \in Session \ {s} : spc'[t] = spc[t] /\ toCli'[t] = toCli[t]
    <3>1. CASE Send(s, StringReply, "main")
      BY <1>1, <1>2, <3>1, SendFacts DEF IInv, ServerState
    <3>2. CASE spc' = [spc EXCEPT ![s] = "dead"] /\ UNCHANGED toCli
      BY <1>1, <3>2 DEF IInv, TypeOK, ServerTypeOK
    <3>3. QED
      BY <1>4, <3>1, <3>2 DEF CreateNewFolder
  <2>3. Attended(s)'
    BY <1>1, <2>1, <2>2 DEF Attended
  <2>4. QED
    BY <1>1, <2>1, <2>2, <2>3, OthersAttended
<1>5. CASE ListDir(s) \/ OpenUpload(s) \/ OpenFails(s) \/ Delete(s) \/ Ignore(s) \/ Exit(s)
  <2>1. PICK op \in {"list", "upload", "delete", "download", "data", "confirm", "error", "exit"} : Received(s, op)
    BY <1>5 DEF ListDir, OpenUpload, OpenFails, Delete, Ignore, Exit
  <2>2. Recv(s) /\ spc[s] = "main" /\ cdirectory[s] = Dir(s)
    BY <1>1, <2>1, ReceivedFacts DEF Received
  <2>3. held[cdirectory[s]] \in SUBSET FileName
    BY <1>1, <2>2, DirFacts DEF IInv, TypeOK, ServerTypeOK
  <2>4. UNCHANGED cdirectory
    BY <1>5 DEF ListDir, OpenUpload, OpenFails, Delete, Ignore, Exit
  <2>5. \/ \E items \in Seq(Item), next \in {"main", "upload"} : Send(s, items, next)
        \/ UNCHANGED toCli /\ spc[s] = "main" /\ UNCHANGED spc
        \/ UNCHANGED toCli /\ spc' = [spc EXCEPT ![s] = "returned"]
    BY <1>2, <1>5, <2>2, <2>3 DEF ListDir, OpenUpload, OpenFails, Delete, Ignore, Exit
  <2>6. QED
    BY <2>2, <2>4, <2>5, DirFacts, InFolderAttended
<1>6. CASE RecvPacket(s) \/ RecvClosed(s)
  <2>1. spc[s] = "upload" /\ (Recv(s) \/ UNCHANGED toSrv) /\ \E x : StorePacket(s, x)
    BY <1>6 DEF RecvPacket, RecvClosed
  <2>2. cdirectory[s] # NoName
    BY <1>1, <2>1 DEF IInv, DirIsOwners
  <2>3. UNCHANGED cdirectory /\ \E next \in {"main", "upload"} : Send(s, << Ack >>, next)
    BY <2>1 DEF StorePacket
  <2>4. QED
    BY <1>2, <2>1, <2>2, <2>3, InFolderAttended
<1>7. QED
  BY <1>3, <1>4, <1>5, <1>6 DEF Serve, ServerStep

(* A client with a reply to read, or past the first, has its process.      *)
LEMMA TalkAttended ==
  ASSUME AInv, IInv', NEW s \in Session, UNCHANGED <<open, serverVars>>,
         toCli[s] # <<>> \/ ~ Starting(s),
         cpc[s] \notin {"new", "closed"},
         NEW p \in {"idle", "list", "upreq", "upblk", "del", "dl", "dlblk"},
         Goto(s, p),
         UNCHANGED toSrv \/ (\E m \in OwnMessage(s) : m.op # "create" /\ Write(s, m)),
         UNCHANGED toCli \/ (\E n \in Nat : Take(s, n))
  PROVE  AInv'
<1>1. IInv /\ toSrv[s] \in Seq(Message) /\ Attended(s)
  BY DEF AInv, IInv, TypeOK
<1>2. cpc'[s] = p /\ \A t \in Session \ {s} : cpc'[t] = cpc[t]
  BY <1>1 DEF Goto, IInv, TypeOK, ClientTypeOK
<1>3. /\ NoCreate(toSrv[s]) => NoCreate(toSrv'[s])
      /\ \A t \in Session \ {s} : toSrv'[t] = toSrv[t]
  <2>1. CASE \E m \in OwnMessage(s) : m.op # "create" /\ Write(s, m)
    <3>1. PICK m \in OwnMessage(s) : m.op # "create" /\ Write(s, m)
      BY <2>1
    <3>2. toSrv'[s] = Append(toSrv[s], m) /\ \A t \in Session \ {s} : toSrv'[t] = toSrv[t]
      BY <1>1, <3>1, WriteFacts DEF IInv
    <3>3. /\ Len(toSrv'[s]) = Len(toSrv[s]) + 1 /\ toSrv'[s][Len(toSrv[s]) + 1] = m
          /\ \A i \in 1..Len(toSrv[s]) : toSrv'[s][i] = toSrv[s][i]
      BY <1>1, <3>2 DEF OwnMessage
    <3>4. QED
      BY <1>1, <3>1, <3>2, <3>3 DEF NoCreate
  <2>2. QED
    BY <2>1
<1>4. \A t \in Session \ {s} : toCli'[t] = toCli[t]
  BY <1>1, TakeFacts DEF IInv
<1>5. UNCHANGED <<spc, cdirectory>>
  BY DEF serverVars
<1>6. Attended(s)'
  BY <1>1, <1>2, <1>3, <1>5 DEF Attended, Starting
<1>7. QED
  BY <1>2, <1>3, <1>4, <1>5, <1>6, OthersAttended

LEMMA InitializeAttended ==
  ASSUME AInv, IInv', NEW s \in Session, Initialize(s), UNCHANGED serverVars
  PROVE  AInv'
<1>1. IInv /\ cpc[s] = "new" /\ UNCHANGED <<toCli, spc, cdirectory>>
  BY DEF Initialize, AInv, serverVars
<1>2. cdirectory[s] = NoName /\ spc[s] = "main"
  BY <1>1 DEF IInv, NoFolderYet, DirIsOwners
<1>3. /\ cpc'[s] = "create" /\ open'[s]
      /\ \A t \in Session \ {s} : /\ cpc'[t] = cpc[t] /\ open'[t] = open[t]
                                  /\ toSrv'[t] = toSrv[t]
  BY <1>1 DEF Initialize, Goto, Write, IInv, TypeOK, ClientTypeOK
<1>4. Attended(s)'
  BY <1>1, <1>2, <1>3 DEF Attended
<1>5. QED
  BY <1>1, <1>3, <1>4, OthersAttended

LEMMA CloseAttended ==
  ASSUME AInv, IInv', NEW s \in Session, UNCHANGED serverVars,
         Close(s, toSrv[s]) \/ (~ Starting(s) /\ Close(s, Append(toSrv[s], Msg("exit", NoName, 0))))
  PROVE  AInv'
<1>1. IInv /\ toSrv[s] \in Seq(Message) /\ Attended(s) /\ UNCHANGED <<spc, cdirectory>>
  BY DEF AInv, IInv, TypeOK, serverVars
<1>2. PICK sent \in {toSrv[s], Append(toSrv[s], Msg("exit", NoName, 0))} : Close(s, sent)
  OBVIOUS
<1>3. sent \in Seq(Message) /\ (NoCreate(toSrv[s]) => NoCreate(sent))
  <2>1. CASE sent = toSrv[s]
    BY <1>1, <2>1
  <2>2. CASE sent = Append(toSrv[s], Msg("exit", NoName, 0))
    <3>1. Msg("exit", NoName, 0) \in Message /\ Msg("exit", NoName, 0).op # "create"
      BY DEF Msg, Message
    <3>2. sent \in Seq(Message) /\ Len(sent) = Len(toSrv[s]) + 1
          /\ sent[Len(toSrv[s]) + 1] = Msg("exit", NoName, 0)
          /\ \A i \in 1..Len(toSrv[s]) : sent[i] = toSrv[s][i]
      BY <1>1, <2>2, <3>1
    <3>3. QED
      BY <1>1, <3>1, <3>2 DEF NoCreate
  <2>3. QED
    BY <2>1, <2>2
<1>4. PICK k \in 0..Len(sent) : toSrv' = [toSrv EXCEPT ![s] = SubSeq(sent, 1, k)]
  BY <1>2 DEF Close
<1>5. Len(SubSeq(sent, 1, k)) = k /\ \A i \in 1..k : SubSeq(sent, 1, k)[i] = sent[i]
  <2>1. \A i \in 1..k : sent[i] \in Message
    BY <1>3
  <2>2. Len(SubSeq(sent, 1, k)) = IF 1 <= k THEN k - 1 + 1 ELSE 0
    BY <1>3, <2>1, SubSeqProperties
  <2>3. \A i \in 1..(k - 1 + 1) : SubSeq(sent, 1, k)[i] = sent[1 + i - 1]
    BY <1>3, <2>1, SubSeqProperties
  <2>4. QED
    BY <2>2, <2>3
<1>6. NoCreate(toSrv[s]) => NoCreate(toSrv'[s])
  BY <1>1, <1>3, <1>4, <1>5 DEF NoCreate, IInv, TypeOK
<1>7. /\ cpc'[s] = "closed" /\ ~ open'[s]
      /\ \A t \in Session \ {s} : /\ cpc'[t] = cpc[t] /\ open'[t] = open[t]
                                  /\ toSrv'[t] = toSrv[t] /\ toCli'[t] = toCli[t]
  BY <1>1, <1>2 DEF Close, Goto, IInv, TypeOK, ClientTypeOK
<1>8. Attended(s)'
  BY <1>1, <1>6, <1>7 DEF Attended
<1>9. QED
  BY <1>1, <1>7, <1>8, OthersAttended

LEMMA CatchAttended ==
  ASSUME AInv, IInv', NEW s \in Session, UNCHANGED serverVars,
         cpc[s] \in {"create", "list"}, cpc[s] = "create" => ops[s] = 0,
         Catch(s)
  PROVE  AInv'
<1>1. CASE Close(s, toSrv[s])
  BY <1>1, CloseAttended
<1>2. CASE /\ Goto(s, IF ops[s] = 0 THEN "stranded" ELSE "idle")
           /\ Take(s, Len(toCli[s]))
           /\ UNCHANGED <<toSrv, open>>
  <2>1. IInv /\ Attended(s) /\ Len(toCli[s]) \in Nat /\ UNCHANGED <<spc, cdirectory>>
    BY DEF AInv, IInv, TypeOK, serverVars
  <2>2. /\ cpc'[s] \in {"stranded", "idle"} /\ (cpc[s] = "create" => cpc'[s] = "stranded")
        /\ \A t \in Session \ {s} : cpc'[t] = cpc[t]
    BY <1>2, <2>1 DEF Goto, IInv, TypeOK, ClientTypeOK
  <2>3. toCli[s] = <<>> => toCli'[s] = <<>>
    BY <1>2, <2>1, TakeFacts DEF IInv
  <2>4. \A t \in Session \ {s} : toCli'[t] = toCli[t]
    BY <1>2, <2>1, TakeFacts DEF IInv
  <2>5. Attended(s)'
    BY <1>2, <2>1, <2>2, <2>3 DEF Attended
  <2>6. QED
    BY <1>2, <2>1, <2>2, <2>4, <2>5, OthersAttended
<1>3. QED
  BY <1>1, <1>2 DEF Catch

LEMMA ClientAttended ==
  ASSUME AInv, NEW s \in Session, Act(s) \/ Read(s) \/ Timeout(s)
  PROVE  AInv'
<1>1. IInv /\ IInv' /\ UNCHANGED serverVars
  BY ClientStep DEF AInv, Act, Read, Timeout
<1>2. toCli[s] \in Seq(Item) /\ Len(toCli[s]) \in Nat /\ ListingLen \in Nat
  BY <1>1, ChannelAssumption DEF IInv, TypeOK
<1>3. \A f \in FileName : /\ Msg("upload", SentAs[f], BlocksOf[f]) \in OwnMessage(s)
                          /\ Msg("delete", SentAs[f], 0) \in OwnMessage(s)
                          /\ Msg("download", SentAs[f], 0) \in OwnMessage(s)
                          /\ \A n \in Nat : Msg("data", f, n) \in OwnMessage(s)
  BY MessageTypes, ChannelAssumption
<1>4. /\ Msg("list", UserOf[s], 0) \in OwnMessage(s)
      /\ Msg("confirm", NoName, 0) \in OwnMessage(s)
      /\ Msg("error", NoName, 0) \in OwnMessage(s)
  BY ChannelAssumption DEF OwnMessage, Message, Msg
<1>5. CASE Initialize(s)
  BY <1>1, <1>5, InitializeAttended
<1>6. CASE UserLogout(s) \/ Crash(s)
  BY <1>1, <1>6, CloseAttended DEF UserLogout, Crash, Starting
<1>7. CASE RefreshListFiles(s) \/ \E f \in FileName : UploadFile(s, f) \/ DeleteFile(s, f) \/ DownloadFile(s, f)
  <2>1. cpc[s] = "idle" /\ UNCHANGED <<open, toCli>>
    BY <1>7 DEF RefreshListFiles, UploadFile, DeleteFile, DownloadFile, Press
  <2>2. \E m \in OwnMessage(s) : m.op # "create" /\ Write(s, m)
    BY <1>3, <1>4, <1>7 DEF RefreshListFiles, RefreshFiles, UploadFile, DeleteFile, DownloadFile, Msg
  <2>3. \E p \in {"list", "upreq", "del", "dl"} : Goto(s, p)
    BY <1>7 DEF RefreshListFiles, RefreshFiles, UploadFile, DeleteFile, DownloadFile
  <2>4. QED
    BY <1>1, <2>1, <2>2, <2>3, TalkAttended DEF Starting
<1>8. CASE CreateFolderDone(s) \/ DelReply(s)
  <2>1. toCli[s] # <<>> /\ \E n \in Nat : Take(s, n)
    BY <1>1, <1>8, TakeStringFacts DEF CreateFolderDone, DelReply
  <2>2. cpc[s] \notin {"new", "closed"} /\ UNCHANGED open /\ Goto(s, "list")
        /\ Write(s, Msg("list", UserOf[s], 0))
    BY <1>8 DEF CreateFolderDone, DelReply, RefreshFiles
  <2>3. QED
    BY <1>1, <1>4, <2>1, <2>2, TalkAttended DEF Msg
<1>9. CASE ListDone(s) \/ UpConfirm(s) \/ UpAck(s) \/ DlHeader(s) \/ DlBlock(s)
  <2>1. cpc[s] \notin {"new", "closed"} /\ UNCHANGED open /\ ~ Starting(s) /\ \E n \in Nat : Take(s, n)
    BY <1>2, <1>9 DEF ListDone, UpConfirm, UpAck, DlHeader, DlBlock, Starting
  <2>2. CASE ListDone(s)
    BY <1>1, <2>1, <2>2, TalkAttended DEF ListDone
  <2>3. CASE DlHeader(s) \/ DlBlock(s)
    <3>1. Goto(s, "dlblk") /\ Write(s, Msg("confirm", NoName, 0))
      BY <1>1, <2>3 DEF DlHeader, DlBlock, Goto, IInv, TypeOK, ClientTypeOK
    <3>2. QED
      BY <1>1, <1>4, <2>1, <3>1, TalkAttended DEF Msg
  <2>4. CASE UpConfirm(s) \/ UpAck(s)
    <3>1. sel[s] \in FileName /\ blockNo[s] + 1 \in Nat
      BY <1>1, <2>4 DEF UpConfirm, UpAck, IInv, TypeOK, ClientTypeOK
    <3>2. PICK b \in Nat : NextBlock(s, b)
      BY <2>4, <3>1 DEF UpConfirm, UpAck
    <3>3. CASE Write(s, Msg("data", sel[s], b)) /\ Goto(s, "upblk")
      BY <1>1, <1>3, <2>1, <3>1, <3>3, TalkAttended DEF Msg
    <3>4. CASE Goto(s, "idle") /\ UNCHANGED toSrv
      BY <1>1, <2>1, <3>4, TalkAttended
    <3>5. QED
      BY <3>2, <3>3, <3>4 DEF NextBlock
  <2>5. QED
    BY <1>9, <2>2, <2>3, <2>4
<1>10. CASE ExitTimeout(s)
  BY <1>1, <1>10, CatchAttended DEF ExitTimeout, IInv, NoFolderYet
<1>11. CASE ListMisread(s)
  <2>1. CASE Catch(s)
    BY <1>1, <1>11, <2>1, CatchAttended DEF ListMisread
  <2>2. CASE (\E n \in 3..Len(toCli[s]) : Take(s, n)) /\ Goto(s, "idle") /\ UNCHANGED <<toSrv, open>>
    <3>1. \E n \in Nat : Take(s, n)
      BY <1>2, <2>2
    <3>2. QED
      BY <1>1, <1>11, <2>2, <3>1, TalkAttended DEF ListMisread, Starting
  <2>3. QED
    BY <1>11, <2>1, <2>2 DEF ListMisread
<1>12. CASE UpTimeout(s) \/ ReplyTimeout(s)
  <2>1. /\ cpc[s] \notin {"new", "closed"} /\ ~ Starting(s) /\ UNCHANGED open /\ Goto(s, "idle")
        /\ UNCHANGED toSrv \/ Write(s, Msg("error", NoName, 0))
        /\ UNCHANGED toCli \/ \E n \in Nat : Take(s, n)
    BY <1>2, <1>12 DEF UpTimeout, ReplyTimeout, Starting
  <2>2. QED
    BY <1>1, <1>4, <2>1, TalkAttended DEF Msg
<1>13. QED
  BY <1>5, <1>6, <1>7, <1>8, <1>9, <1>10, <1>11, <1>12
  DEF Act, UserAct, Read, ClientRead, Timeout, ClientTimeout

(* The main screen appears only over a folder that exists and a process    *)
(* that serves it, however many sessions race to make the folder and       *)
(* however the processes of the others end (create_Folder, send).          *)
THEOREM FolderIsReady == Spec => []FolderReady
<1>1. Init => AInv
  BY InitInvariant DEF AInv, Attended, Init, ServerInit, ClientInit
<1>2. AInv /\ [Next]_vars => AInv'
  <2>1. AInv /\ UNCHANGED vars => AInv'
    BY StutterInvariant DEF AInv, Attended, NoCreate, vars, channelVars, serverVars, clientVars
  <2>2. QED
    BY <2>1, ServeAttended, ClientAttended DEF Next
<1>3. AInv => FolderReady
  BY DEF AInv, Attended, IInv, FolderMade, FolderReady, Starting
<1>4. QED
  BY <1>1, <1>2, <1>3, PTL DEF Spec

-----------------------------------------------------------------------------
(* A process that takes a step cannot leave its session's state untouched. *)
LEMMA StepShows ==
  ASSUME IInv, NEW s \in Session, ServerStep(s)
  PROVE  ~ IdleIn(Dir(s))
<1>1. toSrv[s] \in Seq(Message) /\ packNum[s] \in Nat
  BY DEF IInv, TypeOK, ServerTypeOK
<1>2. CASE Recv(s)
  <2>1. Len(toSrv'[s]) < Len(toSrv[s])
    BY <1>2, RecvFacts DEF IInv
  <2>2. toSrv'[s] # toSrv[s]
    BY <1>1, <2>1
  <2>3. QED
    BY <2>2 DEF IdleIn
<1>3. CASE CreateNewFolder(s)
  <2>1. spc[s] = "mkdir"
    BY <1>3 DEF CreateNewFolder
  <2>2. spc'[s] \in {"main", "dead"}
    <3>1. CASE Send(s, StringReply, "main")
      BY <3>1, ReplyTypes, SendFacts DEF IInv, ServerState
    <3>2. CASE spc' = [spc EXCEPT ![s] = "dead"]
      BY <3>2 DEF IInv, TypeOK, ServerTypeOK
    <3>3. QED
      BY <1>3, <3>1, <3>2 DEF CreateNewFolder
  <2>3. QED
    BY <2>1, <2>2 DEF IdleIn
<1>4. CASE RecvClosed(s)
  <2>1. packNum'[s] = packNum[s] + 1
    BY <1>4 DEF RecvClosed, StorePacket, IInv, TypeOK, ServerTypeOK
  <2>2. QED
    BY <1>1, <2>1 DEF IdleIn
<1>5. Recv(s) \/ CreateNewFolder(s) \/ RecvClosed(s)
  BY DEF ServerStep, CreateFolder, create_Folder, dirExist, ListDir, OpenUpload, OpenFails, Delete, Ignore, Exit,
         RecvPacket, Received
<1>6. QED
  BY <1>2, <1>3, <1>4, <1>5

(* A process changes no folder but its own.                                *)
LEMMA OtherFolders ==
  ASSUME IInv, NEW s \in Session, ServerStep(s), NEW u \in Directory, u # Dir(s)
  PROVE  SameFolder(u)
<1>1. cdirectory[s] # u
  BY ChannelAssumption DEF IInv, DirIsOwners
<1>2. /\ held \in [Directory -> SUBSET FileName]
      /\ body \in [Directory -> [FileName -> Seq(Chunk)]]
  BY DEF IInv, TypeOK, ServerTypeOK
<1>3. CASE UNCHANGED diskVars
  BY <1>3 DEF diskVars, SameFolder
<1>4. CASE CreateNewFolder(s)
  BY <1>1, <1>4 DEF CreateNewFolder, MakeFolder, SameFolder
<1>5. CASE OpenUpload(s)
  BY <1>1, <1>2, <1>5 DEF OpenUpload, Emptied, Unlinked, SameFolder
<1>6. CASE Delete(s)
  BY <1>1, <1>2, <1>6 DEF Delete, Remove, Unlinked, SameFolder
<1>7. CASE RecvPacket(s) \/ RecvClosed(s)
  BY <1>1, <1>2, <1>7 DEF RecvPacket, RecvClosed, StorePacket, Kept, Lost, SameFolder
<1>8. QED
  BY <1>3, <1>4, <1>5, <1>6, <1>7
  DEF ServerStep, CreateFolder, create_Folder, dirExist, ListDir, OpenFails, Ignore, Exit

(* A folder changes only in a step of a process of a session whose user's  *)
(* name leads to it.                                                       *)
THEOREM Isolation == Spec => FolderIsolation
<1>1. IInv /\ [Next]_vars => [\A d \in Directory : IdleIn(d) => SameFolder(d)]_vars
  <2>1. ASSUME IInv, NEW s \in Session, Serve(s), NEW u \in Directory, IdleIn(u)
        PROVE  SameFolder(u)
    <3>1. u # Dir(s)
      BY <2>1, StepShows DEF Serve
    <3>2. QED
      BY <2>1, <3>1, OtherFolders DEF Serve
  <2>2. ASSUME NEW s \in Session, Act(s) \/ Read(s) \/ Timeout(s), NEW u \in Directory
        PROVE  SameFolder(u)
    BY <2>2 DEF Act, Read, Timeout, serverVars, SameFolder
  <2>3. QED
    BY <2>1, <2>2 DEF Next
<1>2. QED
  BY <1>1, Invariance, PTL DEF Spec, FolderIsolation

=============================================================================
