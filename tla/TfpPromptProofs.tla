-------------------------- MODULE TfpPromptProofs ---------------------------
(***************************************************************************)
(* What holds when no answer is late, proved for every set of sessions,    *)
(* users and files: replies keep step with requests, and what an upload    *)
(* confirms is what the server holds.                                      *)
(*                                                                         *)
(* The invariant says, for each read a handler can wait in, where the      *)
(* process is, what is on its way to it and what is on its way back; the   *)
(* second half adds what the loop of an upload has stored so far.          *)
(***************************************************************************)
EXTENDS TfpListingProofs

ErrorMsg == Msg("error", NoName, 0)

(* The request m is on its way, perhaps behind a late error message; or    *)
(* the loop takes it for the packet after the last, or has confirmed it as *)
(* that; or it was lost, or is one that is not answered.                   *)
Unanswered(s, m) ==
  \/ /\ spc[s] = "main" /\ toCli[s] = <<>>
     /\ toSrv[s] \in {<< m >>, << ErrorMsg, m >>}
  \/ spc[s] = "upload" /\ packNum[s] = numblock[s] /\ toCli[s] = <<>> /\ toSrv[s] = << m >>
  \/ spc[s] = "main" /\ toSrv[s] = <<>> /\ toCli[s] \in {<<>>, << Ack >>}

InCreate(s) ==
  /\ cpc[s] = "create"
  /\ \/ spc[s] = "main" /\ toCli[s] = <<>> /\ toSrv[s] = << Msg("create", UserOf[s], 0) >>
     \/ spc[s] \in {"mkdir", "dead"} /\ toCli[s] = <<>> /\ toSrv[s] = <<>>
     \/ spc[s] = "main" /\ toSrv[s] = <<>> /\ toCli[s] = StringReply

(* initialize has failed, and so has logout in its catch.                  *)
InStranded(s) ==
  /\ cpc[s] = "stranded" /\ spc[s] \in {"main", "dead"}
  /\ toCli[s] = <<>> /\ toSrv[s] = <<>>

InIdle(s) ==
  /\ cpc[s] = "idle" /\ toCli[s] = <<>>
  /\ \/ spc[s] = "main" /\ toSrv[s] \in {<<>>, << ErrorMsg >>}
     \/ spc[s] = "upload" /\ packNum[s] = numblock[s] /\ toSrv[s] = <<>>

InList(s) ==
  /\ cpc[s] = "list"
  /\ \/ Unanswered(s, Msg("list", UserOf[s], 0))
     \/ /\ spc[s] = "main" /\ toSrv[s] = <<>>
        /\ \E names \in SUBSET FileName : toCli[s] = Listing(names)

InDelete(s) ==
  /\ cpc[s] = "del"
  /\ \/ Unanswered(s, Msg("delete", SentAs[sel[s]], 0))
     \/ spc[s] = "main" /\ toSrv[s] = <<>> /\ toCli[s] = StringReply

InDownload(s) == cpc[s] = "dl" /\ Unanswered(s, Msg("download", SentAs[sel[s]], 0))

(* The loop runs for the file of the client.                               *)
OwnLoop(s) == spc[s] = "upload" /\ filename[s] = SentAs[sel[s]] /\ numblock[s] = BlocksOf[sel[s]]

InUpRequest(s) ==
  /\ cpc[s] = "upreq"
  /\ \/ Unanswered(s, Msg("upload", SentAs[sel[s]], BlocksOf[sel[s]]))
     \/ /\ OwnLoop(s) /\ packNum[s] = 0 /\ BlocksOf[sel[s]] > 0
        /\ toSrv[s] = <<>> /\ toCli[s] = << Ack >>

InUpBlock(s) ==
  LET m == Msg("data", sel[s], blockNo[s]) IN
    /\ cpc[s] = "upblk" /\ blockNo[s] < BlocksOf[sel[s]]
    /\ \/ spc[s] = "main" /\ toCli[s] = <<>> /\ toSrv[s] \in {<<>>, << m >>}
       \/ OwnLoop(s) /\ packNum[s] = blockNo[s] /\ toSrv[s] = << m >> /\ toCli[s] = <<>>
       \/ OwnLoop(s) /\ packNum[s] = blockNo[s] + 1 /\ toSrv[s] = <<>> /\ toCli[s] = << Ack >>

Phase(s) ==
  \/ InCreate(s) \/ InStranded(s) \/ InIdle(s) \/ InList(s) \/ InDelete(s) \/ InDownload(s)
  \/ InUpRequest(s) \/ InUpBlock(s)

Sync(s) ==
  /\ open[s] <=> cpc[s] \notin {"new", "closed"}
  /\ open[s] => Phase(s)

PInv == IInv /\ \A s \in Session : Sync(s)

-----------------------------------------------------------------------------
(* Queues of one or two elements.                                          *)

LEMMA RecvOne ==
  ASSUME TypeOK, OwnRequests, NEW s \in Session, Recv(s), NEW m, toSrv[s] = << m >>
  PROVE  toSrv'[s] = <<>>
BY RecvFacts

LEMMA RecvTwo ==
  ASSUME TypeOK, NEW s \in Session, Recv(s), NEW a, NEW b, toSrv[s] = << a, b >>
  PROVE  toSrv'[s] \in {<< b >>, <<>>}
<1>1. PICK k \in 1..Len(toSrv[s]) :
        toSrv' = [toSrv EXCEPT ![s] = SubSeq(@, k + 1, Len(@))]
  BY DEF Recv
<1>2. Len(toSrv[s]) = 2 /\ (k = 1 \/ k = 2)
  <2>1. Len(<< a, b >>) = 2
    OBVIOUS
  <2>2. k \in 1..2
    BY <2>1
  <2>3. QED
    BY <2>1, <2>2
<1>3. toSrv'[s] = SubSeq(<< a, b >>, k + 1, 2)
  BY <1>1, <1>2 DEF TypeOK
<1>4. CASE k = 2
  <2>1. SubSeq(<< a, b >>, 2 + 1, 2) = <<>>
    BY SubSeqEmpty
  <2>2. QED
    BY <1>3, <1>4, <2>1
<1>5. CASE k = 1
  <2>1. << a, b >> \in Seq({a, b}) /\ << a, b >> # <<>> /\ Len(<< a, b >>) = 2
    OBVIOUS
  <2>2. Tail(<< a, b >>) = SubSeq(<< a, b >>, 2, 2)
    BY <2>1, TailIsSubSeq
  <2>3. Tail(<< a, b >>) = << b >>
    OBVIOUS
  <2>4. k + 1 = 2
    BY <1>5
  <2>5. toSrv'[s] = << b >>
    BY <1>3, <2>2, <2>3, <2>4, Zenon
  <2>6. QED
    BY <2>5
<1>6. QED
  BY <1>2, <1>4, <1>5

LEMMA TakeAll ==
  ASSUME TypeOK, NEW s \in Session, NEW n \in Nat, Take(s, n), Len(toCli[s]) <= n
  PROVE  toCli'[s] = <<>>
<1>1. toCli'[s] = SubSeq(toCli[s], n + 1, Len(toCli[s])) /\ toCli[s] \in Seq(Item)
  BY DEF Take, TypeOK
<1>2. Len(toCli[s]) < n + 1
  BY <1>1
<1>3. QED
  BY <1>1, <1>2, SubSeqEmpty

(* The one NUL of a string reply is its last byte.                         *)
LEMMA StringParts ==
  /\ Len(StringReply) = StringLen /\ StringLen \in Nat \ {0}
  /\ \A i \in 1..StringLen : StringReply[i].kind = IF i = StringLen THEN "nul" ELSE "char"
BY ReplyTypes, ChannelAssumption DEF StringReply

LEMMA TakeStringAll ==
  ASSUME TypeOK, NEW s \in Session, TakeString(s), toCli[s] = StringReply
  PROVE  toCli'[s] = <<>>
<1>1. PICK n \in 1..Len(toCli[s]) : toCli[s][n].kind = "nul" /\ Take(s, n)
  BY DEF TakeString
<1>2. n = StringLen /\ n = Len(toCli[s]) /\ n \in Nat
  BY <1>1, StringParts
<1>3. QED
  BY <1>1, <1>2, TakeAll

LEMMA NoStringThere ==
  ASSUME NEW s \in Session, toCli[s] \in {<<>>, << Ack >>}
  PROVE  ~ HasString(s) /\ ~ TakeString(s)
BY DEF HasString, TakeString, Ack

LEMMA StringThere ==
  ASSUME NEW s \in Session, toCli[s] = StringReply
  PROVE  HasString(s) /\ toCli[s] # <<>>
<1>1. StringReply[StringLen].kind = "nul" /\ StringLen \in 1..Len(StringReply)
  BY StringParts
<1>2. QED
  BY <1>1 DEF HasString

-----------------------------------------------------------------------------
(* The steps of a server process while its client is there.                *)

(* What a process in its main loop makes of a message.                     *)
Answered(s, m) ==
  \/ m.op = "create" /\ spc'[s] = "main" /\ toCli'[s] = StringReply
  \/ m.op = "create" /\ spc'[s] = "mkdir" /\ toCli'[s] = <<>>
  \/ /\ m.op = "list" /\ spc'[s] = "main"
     /\ \E names \in SUBSET FileName : toCli'[s] = Listing(names)
  \/ /\ m.op = "upload" /\ m.num > 0 /\ spc'[s] = "upload" /\ toCli'[s] = << Ack >>
     /\ filename'[s] = m.name /\ numblock'[s] = m.num /\ packNum'[s] = 0
  \/ m.op = "upload" /\ m.num = 0 /\ spc'[s] = "main" /\ toCli'[s] = << Ack >>
  \/ m.op = "delete" /\ spc'[s] = "main" /\ toCli'[s] = StringReply
  \/ /\ m.op \in {"upload", "download", "data", "confirm", "error"}
     /\ spc'[s] = "main" /\ toCli'[s] = <<>>
  \/ m.op = "exit" /\ spc'[s] = "returned" /\ toCli'[s] = <<>>

(* A reply to a client that has read all there was.                        *)
LEMMA SendFirst ==
  ASSUME TypeOK, NEW s \in Session, open[s], toCli[s] = <<>>,
         NEW items \in Seq(Item), NEW next \in ServerState, Send(s, items, next)
  PROVE  toCli'[s] = items /\ spc'[s] = next
<1>1. toCli'[s] = <<>> \o items /\ spc'[s] = next
  BY DEF Send, TypeOK, ServerTypeOK
<1>2. <<>> \o items = items
  BY ConcatEmptySeq
<1>3. QED
  BY <1>1, <1>2

LEMMA MainStep ==
  ASSUME IInv, NEW s \in Session, ServerStep(s), spc[s] = "main", open[s], toCli[s] = <<>>
  PROVE  toSrv[s] # <<>> /\ Recv(s) /\ Answered(s, Head(toSrv[s]))
<1> DEFINE m == Head(toSrv[s])
<1>0. /\ TypeOK /\ held \in [Directory -> SUBSET FileName] /\ spc \in [Session -> ServerState]
      /\ filename \in [Session -> FileName \cup {NoName}]
      /\ numblock \in [Session -> Nat] /\ packNum \in [Session -> Nat]
  BY DEF IInv, TypeOK, ServerTypeOK
<1>1. << Ack >> \in Seq(Item) /\ StringReply \in Seq(Item)
      /\ {"main", "upload", "mkdir"} \subseteq ServerState
  BY ReplyTypes DEF ServerState
<1>2. CASE CreateFolder(s)
  <2>1. Received(s, "create") /\ create_Folder(s, FolderOf[m.name])
    BY <1>2 DEF CreateFolder
  <2>2. CASE Send(s, StringReply, "main")
    BY <1>0, <1>1, <2>1, <2>2, SendFirst DEF Answered, Received
  <2>3. CASE spc' = [spc EXCEPT ![s] = "mkdir"] /\ UNCHANGED toCli
    BY <1>0, <2>1, <2>3 DEF Answered, Received
  <2>4. QED
    BY <2>1, <2>2, <2>3 DEF create_Folder
<1>3. CASE ListDir(s)
  <2>1. Received(s, "list") /\ Send(s, Listing(held[cdirectory[s]]), "main")
    BY <1>3 DEF ListDir
  <2>2. cdirectory[s] \in Directory
    BY <2>1, ReceivedFacts, DirFacts
  <2>3. held[cdirectory[s]] \in SUBSET FileName
    BY <1>0, <2>2
  <2>4. Listing(held[cdirectory[s]]) \in Seq(Item)
    BY <2>3, ReplyTypes
  <2>5. toCli'[s] = Listing(held[cdirectory[s]]) /\ spc'[s] = "main"
    BY <1>0, <1>1, <2>1, <2>4, SendFirst
  <2>6. QED
    BY <2>1, <2>3, <2>5 DEF Answered, Received
<1>4. CASE OpenUpload(s)
  <2>1. Received(s, "upload")
    BY <1>4 DEF OpenUpload
  <2>2. m \in Message /\ m.op = "upload"
    BY <2>1, ReceivedFacts DEF Received
  <2>3. m.num \in Nat
    BY <2>2, MessageParts
  <2>4. CASE m.num > 0
    <3>1. Send(s, << Ack >>, "upload") /\ filename'[s] = m.name /\ numblock'[s] = m.num
          /\ packNum'[s] = 0
      BY <1>0, <1>4, <2>4 DEF OpenUpload
    <3>2. QED
      BY <1>0, <1>1, <2>1, <2>2, <2>4, <3>1, SendFirst DEF Answered, Received
  <2>5. CASE m.num = 0
    <3>1. Send(s, << Ack >>, "main")
      BY <1>4, <2>5 DEF OpenUpload
    <3>2. QED
      BY <1>0, <1>1, <2>1, <2>2, <2>5, <3>1, SendFirst DEF Answered, Received
  <2>6. QED
    BY <2>3, <2>4, <2>5
<1>5. CASE Delete(s)
  <2>1. Received(s, "delete") /\ Send(s, StringReply, "main")
    BY <1>5 DEF Delete
  <2>2. QED
    BY <1>0, <1>1, <2>1, SendFirst DEF Answered, Received
<1>6. CASE OpenFails(s) \/ Ignore(s)
  BY <1>0, <1>6 DEF OpenFails, Ignore, Answered, Received
<1>7. CASE Exit(s)
  BY <1>0, <1>7 DEF Exit, Answered, Received
<1>8. ~ CreateNewFolder(s) /\ ~ RecvPacket(s) /\ ~ RecvClosed(s)
  BY DEF CreateNewFolder, RecvPacket, RecvClosed
<1>9. QED
  BY <1>2, <1>3, <1>4, <1>5, <1>6, <1>7, <1>8 DEF ServerStep

LEMMA LoopStep ==
  ASSUME IInv, NEW s \in Session, ServerStep(s), spc[s] = "upload", open[s], toCli[s] = <<>>
  PROVE  /\ RecvPacket(s) /\ toSrv[s] # <<>> /\ Recv(s)
         /\ toCli'[s] = << Ack >>
         /\ packNum'[s] = packNum[s] + 1
         /\ spc'[s] = IF packNum[s] + 1 > numblock[s] THEN "main" ELSE "upload"
         /\ UNCHANGED <<filename, numblock>>
<1>1. RecvPacket(s)
  BY DEF ServerStep, CreateFolder, CreateNewFolder, ListDir, OpenUpload, OpenFails, Delete,
         Ignore, Exit, RecvClosed, Received
<1>2. StorePacket(s, Payload(s)) /\ toSrv[s] # <<>> /\ Recv(s)
  BY <1>1 DEF RecvPacket
<1> DEFINE next == IF packNum[s] + 1 > numblock[s] THEN "main" ELSE "upload"
<1>3. << Ack >> \in Seq(Item) /\ next \in ServerState
  BY ReplyTypes DEF ServerState
<1>4. Send(s, << Ack >>, next)
  BY <1>2 DEF StorePacket, LoopDone
<1>5. toCli'[s] = << Ack >> /\ spc'[s] = next
  BY <1>3, <1>4, SendFirst DEF IInv
<1>6. packNum'[s] = packNum[s] + 1 /\ UNCHANGED <<filename, numblock>>
  BY <1>2 DEF StorePacket, IInv, TypeOK, ServerTypeOK
<1>7. QED
  BY <1>1, <1>2, <1>5, <1>6

LEMMA MkdirStep ==
  ASSUME IInv, NEW s \in Session, ServerStep(s), spc[s] = "mkdir", open[s], toCli[s] = <<>>
  PROVE  /\ UNCHANGED toSrv
         /\ \/ spc'[s] = "main" /\ toCli'[s] = StringReply
            \/ spc'[s] = "dead" /\ toCli'[s] = <<>>
<1>1. CreateNewFolder(s)
  BY DEF ServerStep, CreateFolder, ListDir, OpenUpload, OpenFails, Delete, Ignore, Exit,
         RecvPacket, RecvClosed, Received
<1>2. StringReply \in Seq(Item) /\ "main" \in ServerState
  BY ReplyTypes DEF ServerState
<1>3. CASE Send(s, StringReply, "main")
  BY <1>1, <1>2, <1>3, SendFirst DEF CreateNewFolder, IInv
<1>4. CASE spc' = [spc EXCEPT ![s] = "dead"] /\ UNCHANGED toCli
  BY <1>1, <1>4 DEF CreateNewFolder, IInv, TypeOK, ServerTypeOK
<1>5. QED
  BY <1>1, <1>3, <1>4 DEF CreateNewFolder

(* A process moves only when the client has read all there was.            *)
LEMMA NothingToRead ==
  ASSUME NEW s \in Session, ServerStep(s), open[s], Phase(s)
  PROVE  toCli[s] = <<>> /\ spc[s] \in {"main", "upload", "mkdir"}
<1>1. toSrv[s] # <<>> \/ spc[s] = "mkdir"
  BY DEF ServerStep, CreateFolder, CreateNewFolder, ListDir, OpenUpload, OpenFails, Delete,
         Ignore, Exit, RecvPacket, RecvClosed, Received
<1>2. QED
  BY <1>1 DEF Phase, InCreate, InStranded, InIdle, InList, InDelete, InDownload, InUpRequest, InUpBlock,
              Unanswered, OwnLoop

LEMMA UnansweredServed ==
  ASSUME IInv, NEW s \in Session, ServerStep(s), open[s], toCli[s] = <<>>,
         NEW m, Unanswered(s, m)
  PROVE  \/ toSrv'[s] = <<>> /\ Answered(s, m)
         \/ spc'[s] = "main" /\ toCli'[s] = <<>> /\ toSrv'[s] \in {<< m >>, <<>>}
         \/ spc'[s] = "main" /\ toCli'[s] = << Ack >> /\ toSrv'[s] = <<>>
<1>1. TypeOK /\ OwnRequests /\ packNum[s] \in Nat /\ numblock[s] \in Nat
  BY DEF IInv, TypeOK, ServerTypeOK
<1>2. CASE spc[s] = "main" /\ toSrv[s] = << m >>
  <2>1. Recv(s) /\ Answered(s, m)
    BY <1>2, MainStep
  <2>2. QED
    BY <1>1, <1>2, <2>1, RecvOne
<1>3. CASE spc[s] = "main" /\ toSrv[s] = << ErrorMsg, m >>
  <2>1. Recv(s) /\ Answered(s, ErrorMsg)
    BY <1>3, MainStep
  <2>2. spc'[s] = "main" /\ toCli'[s] = <<>>
    BY <2>1 DEF Answered, ErrorMsg, Msg
  <2>3. toSrv'[s] \in {<< m >>, <<>>}
    BY <1>1, <1>3, <2>1, RecvTwo
  <2>4. QED
    BY <2>2, <2>3
<1>4. CASE spc[s] = "upload" /\ packNum[s] = numblock[s] /\ toSrv[s] = << m >>
  <2>1. Recv(s) /\ toCli'[s] = << Ack >> /\ spc'[s] = "main"
    BY <1>1, <1>4, LoopStep
  <2>2. QED
    BY <1>1, <1>4, <2>1, RecvOne
<1>5. CASE spc[s] = "main" /\ toSrv[s] = <<>>
  BY <1>5, MainStep
<1>6. QED
  BY <1>2, <1>3, <1>4, <1>5 DEF Unanswered

LEMMA ServePhase ==
  ASSUME PInv, NEW s \in Session, Serve(s), open[s]
  PROVE  Phase(s)'
<1>1. IInv /\ TypeOK /\ OwnRequests /\ ServerStep(s) /\ Phase(s)
      /\ packNum[s] \in Nat /\ numblock[s] \in Nat
  BY DEF PInv, Sync, Serve, IInv, TypeOK, ServerTypeOK
<1>2. toCli[s] = <<>> /\ spc[s] \in {"main", "upload", "mkdir"}
  BY <1>1, NothingToRead
<1>3. UNCHANGED <<cpc, sel, blockNo>>
  BY DEF Serve, clientVars
<1>4. spc[s] = "main" => toSrv[s] # <<>> /\ Recv(s) /\ Answered(s, Head(toSrv[s]))
  BY <1>1, <1>2, MainStep
<1>5. CASE InCreate(s)
  <2>1. CASE spc[s] = "main"
    <3>1. toSrv[s] = << Msg("create", UserOf[s], 0) >>
      BY <1>4, <1>5, <2>1 DEF InCreate
    <3>2. toSrv'[s] = <<>>
      BY <1>1, <1>4, <2>1, <3>1, RecvOne
    <3>3. \/ spc'[s] = "main" /\ toCli'[s] = StringReply
          \/ spc'[s] = "mkdir" /\ toCli'[s] = <<>>
      BY <1>4, <2>1, <3>1 DEF Answered, Msg
    <3>4. QED
      BY <1>3, <1>5, <3>2, <3>3 DEF InCreate, Phase
  <2>2. CASE spc[s] = "mkdir"
    <3>1. toSrv[s] = <<>>
      BY <1>5, <2>2 DEF InCreate
    <3>2. QED
      BY <1>1, <1>2, <1>3, <1>5, <2>2, <3>1, MkdirStep DEF InCreate, Phase
  <2>3. QED
    BY <1>2, <1>5, <2>1, <2>2 DEF InCreate
<1>6. CASE InIdle(s)
  <2>1. spc[s] = "main" /\ toSrv[s] = << ErrorMsg >>
    <3>1. spc[s] = "upload" => toSrv[s] # <<>>
      BY <1>1, <1>2, LoopStep
    <3>2. QED
      BY <1>4, <1>6, <3>1 DEF InIdle
  <2>2. toSrv'[s] = <<>>
    BY <1>1, <1>4, <2>1, RecvOne
  <2>3. spc'[s] = "main" /\ toCli'[s] = <<>>
    BY <1>4, <2>1 DEF Answered, ErrorMsg, Msg
  <2>4. QED
    BY <1>3, <1>6, <2>2, <2>3 DEF InIdle, Phase
<1>7. CASE InList(s)
  <2> DEFINE m == Msg("list", UserOf[s], 0)
  <2>1. Unanswered(s, m)
    BY <1>4, <1>2, <1>7 DEF InList
  <2>2. m.op = "list"
    BY DEF Msg
  <2> HIDE DEF m
  <2>3. \/ toSrv'[s] = <<>> /\ Answered(s, m)
        \/ spc'[s] = "main" /\ toCli'[s] = <<>> /\ toSrv'[s] \in {<< m >>, <<>>}
        \/ spc'[s] = "main" /\ toCli'[s] = << Ack >> /\ toSrv'[s] = <<>>
    BY <1>1, <1>2, <2>1, UnansweredServed
  <2>4. CASE toSrv'[s] = <<>> /\ Answered(s, m)
    <3>1. spc'[s] = "main" /\ \E names \in SUBSET FileName : toCli'[s] = Listing(names)
      BY <2>2, <2>4 DEF Answered
    <3>2. QED
      BY <1>3, <1>7, <2>4, <3>1 DEF InList, Phase
  <2>5. CASE \/ spc'[s] = "main" /\ toCli'[s] = <<>> /\ toSrv'[s] \in {<< m >>, <<>>}
             \/ spc'[s] = "main" /\ toCli'[s] = << Ack >> /\ toSrv'[s] = <<>>
    BY <1>3, <1>7, <2>5 DEF InList, Phase, Unanswered, m
  <2>6. QED
    BY <2>3, <2>4, <2>5
<1>8. CASE InDelete(s)
  <2>1. PICK m : m = Msg("delete", SentAs[sel[s]], 0)
    OBVIOUS
  <2>2. Unanswered(s, m)
    BY <1>4, <1>2, <1>8, <2>1 DEF InDelete
  <2>3. m.op = "delete" /\ m = Msg("delete", SentAs[sel'[s]], 0)
    BY <1>3, <2>1 DEF Msg
  <2>4. \/ toSrv'[s] = <<>> /\ Answered(s, m)
        \/ spc'[s] = "main" /\ toCli'[s] = <<>> /\ toSrv'[s] \in {<< m >>, <<>>}
        \/ spc'[s] = "main" /\ toCli'[s] = << Ack >> /\ toSrv'[s] = <<>>
    BY <1>1, <1>2, <2>2, UnansweredServed
  <2>5. Answered(s, m) => spc'[s] = "main" /\ toCli'[s] = StringReply
    BY <2>3 DEF Answered
  <2>6. QED
    BY <1>3, <1>8, <2>3, <2>4, <2>5 DEF InDelete, Phase, Unanswered
<1>9. CASE InDownload(s)
  <2>1. PICK m : m = Msg("download", SentAs[sel[s]], 0)
    OBVIOUS
  <2>2. Unanswered(s, m)
    BY <1>9, <2>1 DEF InDownload
  <2>3. m.op = "download" /\ m = Msg("download", SentAs[sel'[s]], 0)
    BY <1>3, <2>1 DEF Msg
  <2>4. \/ toSrv'[s] = <<>> /\ Answered(s, m)
        \/ spc'[s] = "main" /\ toCli'[s] = <<>> /\ toSrv'[s] \in {<< m >>, <<>>}
        \/ spc'[s] = "main" /\ toCli'[s] = << Ack >> /\ toSrv'[s] = <<>>
    BY <1>1, <1>2, <2>2, UnansweredServed
  <2>5. Answered(s, m) => spc'[s] = "main" /\ toCli'[s] = <<>>
    BY <2>3 DEF Answered
  <2>6. QED
    BY <1>3, <1>9, <2>3, <2>4, <2>5 DEF InDownload, Phase, Unanswered
<1>10. CASE InUpRequest(s)
  <2>1. PICK m : m = Msg("upload", SentAs[sel[s]], BlocksOf[sel[s]])
    OBVIOUS
  <2>2. Unanswered(s, m)
    BY <1>2, <1>10, <2>1 DEF InUpRequest
  <2>3. /\ m.op = "upload" /\ m = Msg("upload", SentAs[sel'[s]], BlocksOf[sel'[s]])
        /\ m.name = SentAs[sel'[s]] /\ m.num = BlocksOf[sel'[s]]
    BY <1>3, <2>1 DEF Msg
  <2>4. \/ toSrv'[s] = <<>> /\ Answered(s, m)
        \/ spc'[s] = "main" /\ toCli'[s] = <<>> /\ toSrv'[s] \in {<< m >>, <<>>}
        \/ spc'[s] = "main" /\ toCli'[s] = << Ack >> /\ toSrv'[s] = <<>>
    BY <1>1, <1>2, <2>2, UnansweredServed
  <2>5. Answered(s, m) =>
          \/ /\ spc'[s] = "upload" /\ toCli'[s] = << Ack >> /\ BlocksOf[sel'[s]] > 0
             /\ filename'[s] = SentAs[sel'[s]] /\ numblock'[s] = BlocksOf[sel'[s]] /\ packNum'[s] = 0
          \/ spc'[s] = "main" /\ toCli'[s] \in {<<>>, << Ack >>}
    BY <2>3 DEF Answered
  <2>6. QED
    BY <1>3, <1>10, <2>3, <2>4, <2>5 DEF InUpRequest, OwnLoop, Phase, Unanswered
<1>11. CASE InUpBlock(s)
  <2>1. PICK m : m = Msg("data", sel[s], blockNo[s])
    OBVIOUS
  <2>2. m = Msg("data", sel'[s], blockNo'[s]) /\ m.op = "data"
    BY <1>3, <2>1 DEF Msg
  <2>3. CASE spc[s] = "main"
    <3>1. toSrv[s] = << m >>
      BY <1>4, <1>11, <2>1, <2>3 DEF InUpBlock, OwnLoop
    <3>2. toSrv'[s] = <<>>
      BY <1>1, <1>4, <2>3, <3>1, RecvOne
    <3>3. Answered(s, m)
      BY <1>4, <2>3, <3>1
    <3>4. spc'[s] = "main" /\ toCli'[s] = <<>>
      BY <2>2, <3>3 DEF Answered
    <3>5. QED
      BY <1>3, <1>11, <3>2, <3>4 DEF InUpBlock, Phase
  <2>4. CASE spc[s] = "upload"
    <3>1. /\ Recv(s) /\ toCli'[s] = << Ack >> /\ packNum'[s] = packNum[s] + 1
          /\ spc'[s] = IF packNum[s] + 1 > numblock[s] THEN "main" ELSE "upload"
          /\ UNCHANGED <<filename, numblock>>
      BY <1>1, <1>2, <2>4, LoopStep
    <3>2. OwnLoop(s) /\ packNum[s] = blockNo[s] /\ toSrv[s] = << m >> /\ blockNo[s] < BlocksOf[sel[s]]
      BY <1>2, <1>11, <2>1, <2>4 DEF InUpBlock
    <3>3. toSrv'[s] = <<>>
      BY <1>1, <3>1, <3>2, RecvOne
    <3>4. spc'[s] = "upload"
      BY <1>1, <3>1, <3>2 DEF OwnLoop
    <3>5. QED
      BY <1>3, <1>11, <3>1, <3>2, <3>3, <3>4 DEF InUpBlock, OwnLoop, Phase
  <2>5. QED
    BY <1>2, <1>11, <2>3, <2>4 DEF InUpBlock, OwnLoop
<1>12. ~ InStranded(s)
  BY <1>2, <1>4 DEF InStranded
<1>13. QED
  BY <1>1, <1>12, <1>5, <1>6, <1>7, <1>8, <1>9, <1>10, <1>11 DEF Phase

-----------------------------------------------------------------------------
(* The steps of a client.                                                  *)

LEMMA ClosedSync ==
  ASSUME PInv, NEW s \in Session, NEW sent, Close(s, sent)
  PROVE  Sync(s)'
<1>1. ~ open'[s] /\ cpc'[s] = "closed"
  BY DEF Close, Goto, PInv, IInv, TypeOK, ClientTypeOK
<1>2. QED
  BY <1>1 DEF Sync

(* initialize or refreshFiles has failed: the program ends, or logout has  *)
(* failed as well and the session goes on with nothing under way.          *)
LEMMA CatchSync ==
  ASSUME PInv, NEW s \in Session, UNCHANGED serverVars, Catch(s),
         toSrv[s] = <<>>,
         \/ cpc[s] = "create" /\ spc[s] = "dead"
         \/ cpc[s] = "list" /\ spc[s] = "main"
  PROVE  Sync(s)'
<1>1. TypeOK /\ ClientTypeOK /\ Sync(s) /\ NoFolderYet
  BY DEF PInv, IInv, TypeOK
<1>2. CASE Close(s, toSrv[s])
  BY <1>2, ClosedSync
<1>3. CASE /\ Goto(s, IF ops[s] = 0 THEN "stranded" ELSE "idle")
           /\ Take(s, Len(toCli[s]))
           /\ UNCHANGED <<toSrv, open>>
  <2>1. Len(toCli[s]) \in Nat
    BY <1>1 DEF TypeOK
  <2>2. toCli'[s] = <<>>
    BY <1>1, <1>3, <2>1, TakeAll
  <2>3. open'[s]
    BY <1>1, <1>3 DEF Sync
  <2>4. cpc'[s] = IF ops[s] = 0 THEN "stranded" ELSE "idle"
    BY <1>1, <1>3 DEF Goto, ClientTypeOK
  <2>5. toSrv'[s] = <<>> /\ spc'[s] = spc[s]
    BY <1>3 DEF serverVars
  <2>6. CASE ops[s] = 0
    BY <2>2, <2>3, <2>4, <2>5, <2>6 DEF Sync, Phase, InStranded
  <2>7. CASE ops[s] # 0
    <3>1. spc[s] = "main"
      BY <1>1, <2>7 DEF NoFolderYet
    <3>2. QED
      BY <2>2, <2>3, <2>4, <2>5, <2>7, <3>1 DEF Sync, Phase, InIdle
  <2>8. QED
    BY <2>6, <2>7
<1>4. QED
  BY <1>2, <1>3 DEF Catch

(* What getFiles reads in place of its listing is the confirmation of the  *)
(* packet after the last.                                                  *)
LEMMA MisreadFacts ==
  ASSUME PInv, NEW s \in Session, ListMisread(s)
  PROVE  cpc[s] = "list" /\ spc[s] = "main" /\ toSrv[s] = <<>> /\ Catch(s)
<1>1. Sync(s)
  BY DEF PInv
<1>2. cpc[s] = "list" /\ toCli[s] # <<>> /\ Head(toCli[s]).kind # "listing"
  BY DEF ListMisread
<1>3. InList(s)
  BY <1>1, <1>2 DEF Sync, Phase, InCreate, InStranded, InIdle, InList, InDelete, InDownload,
                    InUpRequest, InUpBlock
<1>4. \A names \in SUBSET FileName : toCli[s] # Listing(names)
  <2>1. SUFFICES ASSUME NEW names \in SUBSET FileName, toCli[s] = Listing(names) PROVE FALSE
    OBVIOUS
  <2>2. Listing(names) \in Seq(Item) /\ Listing(names)[1].kind = "listing"
    BY ListingParts
  <2>3. QED
    BY <1>2, <2>1, <2>2
<1>5. toCli[s] = << Ack >> /\ spc[s] = "main" /\ toSrv[s] = <<>>
  BY <1>2, <1>3, <1>4 DEF InList, Unanswered
<1>6. ~ \E n \in 3..Len(toCli[s]) : Take(s, n)
  <2>1. Len(<< Ack >>) = 1
    OBVIOUS
  <2>2. 3..Len(toCli[s]) = {}
    BY <1>5, <2>1
  <2>3. QED
    BY <2>2
<1>7. Catch(s)
  BY <1>6 DEF ListMisread
<1>8. QED
  BY <1>2, <1>5, <1>7

LEMMA ClosingSync ==
  ASSUME PInv, NEW s \in Session, UNCHANGED serverVars,
         \/ UserLogout(s) \/ Crash(s) \/ ListMisread(s)
         \/ ExitTimeout(s) /\ Quiet(s)
  PROVE  Sync(s)'
<1>1. Sync(s)
  BY DEF PInv
<1>2. CASE UserLogout(s) \/ Crash(s)
  BY <1>2, ClosedSync DEF UserLogout, Crash
<1>3. CASE ListMisread(s)
  BY <1>3, MisreadFacts, CatchSync
<1>4. CASE ExitTimeout(s) /\ Quiet(s)
  <2>1. Catch(s)
    BY <1>4 DEF ExitTimeout
  <2>2. CASE cpc[s] = "create" /\ ~ HasString(s)
    <3>1. InCreate(s)
      BY <1>1, <2>2 DEF Sync, Phase, InCreate, InStranded, InIdle, InList, InDelete,
                        InDownload, InUpRequest, InUpBlock
    <3>2. toCli[s] # StringReply
      BY <2>2, StringThere
    <3>3. \A m : << m >> # <<>>
      OBVIOUS
    <3>4. toSrv[s] = <<>> /\ spc[s] = "dead"
      BY <1>4, <3>1, <3>2, <3>3 DEF InCreate, Quiet
    <3>5. QED
      BY <2>1, <2>2, <3>4, CatchSync
  <2>3. CASE cpc[s] = "list" /\ toCli[s] = <<>>
    <3>1. InList(s)
      BY <1>1, <2>3 DEF Sync, Phase, InCreate, InStranded, InIdle, InList, InDelete,
                        InDownload, InUpRequest, InUpBlock
    <3>2. spc[s] \in {"main", "upload"}
      BY <3>1 DEF InList, Unanswered
    <3>3. toSrv[s] = <<>>
      BY <1>4, <3>2 DEF Quiet
    <3>4. spc[s] = "main"
      BY <3>1, <3>3 DEF InList, Unanswered
    <3>5. QED
      BY <2>1, <2>3, <3>3, <3>4, CatchSync
  <2>4. QED
    BY <1>4, <2>2, <2>3 DEF ExitTimeout
<1>5. QED
  BY <1>2, <1>3, <1>4

LEMMA InitializeSync ==
  ASSUME PInv, NEW s \in Session, Initialize(s), UNCHANGED serverVars
  PROVE  Sync(s)'
<1> DEFINE m == Msg("create", UserOf[s], 0)
<1>1. TypeOK /\ ClientTypeOK /\ cpc[s] = "new" /\ Write(s, m) /\ UNCHANGED toCli
  BY DEF PInv, IInv, TypeOK, Initialize
<1>2. toSrv[s] = <<>> /\ toCli[s] = <<>> /\ spc[s] = "main"
  BY <1>1 DEF PInv, IInv, NoFolderYet, DirIsOwners
<1>3. toSrv'[s] = << m >> /\ open'[s] /\ cpc'[s] = "create"
  BY <1>1, <1>2 DEF Write, Goto, Initialize, TypeOK, ClientTypeOK
<1>4. InCreate(s)'
  BY <1>1, <1>2, <1>3 DEF InCreate, serverVars
<1>5. QED
  BY <1>3, <1>4 DEF Sync, Phase

(* A button is pressed: the client has nothing left to read.               *)
LEMMA PressSync ==
  ASSUME PInv, NEW s \in Session, UNCHANGED serverVars,
         \/ RefreshListFiles(s)
         \/ \E f \in FileName : UploadFile(s, f) \/ DeleteFile(s, f) \/ DownloadFile(s, f)
  PROVE  Sync(s)'
<1>1. TypeOK /\ ClientTypeOK /\ Sync(s)
  BY DEF PInv, IInv, TypeOK
<1>2. cpc[s] = "idle" /\ UNCHANGED <<toCli, open>>
  BY DEF RefreshListFiles, UploadFile, DeleteFile, DownloadFile, Press
<1>3. open[s] /\ InIdle(s)
  BY <1>1, <1>2 DEF Sync, Phase, InCreate, InStranded, InIdle, InList, InDelete, InDownload, InUpRequest,
                    InUpBlock
<1>4. ASSUME NEW m, Write(s, m) PROVE Unanswered(s, m)'
  <2>1. toSrv'[s] = Append(toSrv[s], m)
    BY <1>1, <1>4 DEF Write, TypeOK
  <2>2. toSrv'[s] \in {<< m >>, << ErrorMsg, m >>} /\ (toSrv[s] = <<>> => toSrv'[s] = << m >>)
    <3>1. Append(<<>>, m) = << m >> /\ Append(<< ErrorMsg >>, m) = << ErrorMsg, m >>
      <4>1. << ErrorMsg >> \in Seq({ErrorMsg, m}) /\ << ErrorMsg, m >> \in Seq({ErrorMsg, m})
        OBVIOUS
      <4>2. Len(<< ErrorMsg >>) = 1 /\ << ErrorMsg >>[1] = ErrorMsg
        OBVIOUS
      <4>3. /\ Len(Append(<< ErrorMsg >>, m)) = 2
            /\ Append(<< ErrorMsg >>, m)[1] = ErrorMsg /\ Append(<< ErrorMsg >>, m)[2] = m
            /\ Append(<< ErrorMsg >>, m) \in Seq({ErrorMsg, m})
        BY <4>1, <4>2, AppendProperties
      <4>4. /\ Len(<< ErrorMsg, m >>) = 2
            /\ << ErrorMsg, m >>[1] = ErrorMsg /\ << ErrorMsg, m >>[2] = m
        OBVIOUS
      <4>5. Append(<< ErrorMsg >>, m) = << ErrorMsg, m >>
        <5> DEFINE x == Append(<< ErrorMsg >>, m)
                   y == << ErrorMsg, m >>
        <5>1. x \in Seq({ErrorMsg, m}) /\ y \in Seq({ErrorMsg, m}) /\ Len(x) = 2 /\ Len(y) = 2
              /\ x[1] = y[1] /\ x[2] = y[2]
          BY <4>1, <4>3, <4>4
        <5> HIDE DEF x, y
        <5>2. Len(x) = Len(y) /\ \A i \in 1..Len(x) : x[i] = y[i]
          BY <5>1
        <5>3. x = y
          BY <5>1, <5>2, SeqEqual
        <5>4. QED
          BY <5>3 DEF x, y
      <4>6. QED
        BY <4>5
    <3>2. toSrv[s] = <<>> \/ toSrv[s] = << ErrorMsg >>
      BY <1>3 DEF InIdle
    <3>3. << ErrorMsg >> # <<>>
      OBVIOUS
    <3>4. QED
      BY <2>1, <3>1, <3>2, <3>3, Zenon
  <2>3. QED
    BY <1>2, <1>3, <2>2 DEF InIdle, Unanswered, serverVars, uploadVars
<1>5. CASE RefreshListFiles(s)
  <2>1. Write(s, Msg("list", UserOf[s], 0)) /\ cpc'[s] = "list"
    BY <1>1, <1>5 DEF RefreshListFiles, RefreshFiles, Goto, ClientTypeOK
  <2>2. Unanswered(s, Msg("list", UserOf[s], 0))'
    BY <1>4, <2>1
  <2>3. InList(s)'
    BY <2>1, <2>2 DEF InList
  <2>4. QED
    BY <1>2, <1>3, <2>1, <2>3 DEF Sync, Phase
<1>6. ASSUME NEW f \in FileName, UploadFile(s, f) PROVE Sync(s)'
  <2>1. Write(s, Msg("upload", SentAs[f], BlocksOf[f])) /\ cpc'[s] = "upreq" /\ sel'[s] = f
    BY <1>1, <1>6 DEF UploadFile, Goto, ClientTypeOK
  <2>2. Unanswered(s, Msg("upload", SentAs[f], BlocksOf[f]))'
    BY <1>4, <2>1
  <2>3. InUpRequest(s)'
    BY <2>1, <2>2 DEF InUpRequest, Unanswered
  <2>4. QED
    BY <1>2, <1>3, <2>1, <2>3 DEF Sync, Phase
<1>7. ASSUME NEW f \in FileName, DeleteFile(s, f) PROVE Sync(s)'
  <2>1. Write(s, Msg("delete", SentAs[f], 0)) /\ cpc'[s] = "del" /\ sel'[s] = f
    BY <1>1, <1>7 DEF DeleteFile, Goto, ClientTypeOK
  <2>2. Unanswered(s, Msg("delete", SentAs[f], 0))'
    BY <1>4, <2>1
  <2>3. InDelete(s)'
    BY <2>1, <2>2 DEF InDelete, Unanswered
  <2>4. QED
    BY <1>2, <1>3, <2>1, <2>3 DEF Sync, Phase
<1>8. ASSUME NEW f \in FileName, DownloadFile(s, f) PROVE Sync(s)'
  <2>1. Write(s, Msg("download", SentAs[f], 0)) /\ cpc'[s] = "dl" /\ sel'[s] = f
    BY <1>1, <1>8 DEF DownloadFile, Goto, ClientTypeOK
  <2>2. Unanswered(s, Msg("download", SentAs[f], 0))'
    BY <1>4, <2>1
  <2>3. InDownload(s)'
    BY <2>1, <2>2 DEF InDownload, Unanswered
  <2>4. QED
    BY <1>2, <1>3, <2>1, <2>3 DEF Sync, Phase
<1>9. QED
  BY <1>5, <1>6, <1>7, <1>8

(* A string is read, and the list asked for.                               *)
LEMMA StringSync ==
  ASSUME PInv, NEW s \in Session, UNCHANGED serverVars, CreateFolderDone(s) \/ DelReply(s)
  PROVE  /\ Sync(s)'
         /\ toCli[s] = StringReply /\ toSrv[s] = <<>> /\ spc[s] = "main"
<1> DEFINE m == Msg("list", UserOf[s], 0)
<1>1. TypeOK /\ ClientTypeOK /\ Sync(s)
  BY DEF PInv, IInv, TypeOK
<1>2. /\ cpc[s] \in {"create", "del"} /\ TakeString(s) /\ Write(s, m) /\ cpc'[s] = "list"
      /\ UNCHANGED open
  BY <1>1 DEF CreateFolderDone, DelReply, RefreshFiles, Goto, ClientTypeOK
<1>3. toCli[s] \notin {<<>>, << Ack >>}
  BY <1>2, NoStringThere
<1>4. InCreate(s) \/ InDelete(s)
  BY <1>1, <1>2 DEF Sync, Phase, InCreate, InStranded, InIdle, InList, InDelete, InDownload, InUpRequest,
                    InUpBlock
<1>5. toCli[s] = StringReply /\ toSrv[s] = <<>> /\ spc[s] = "main"
  BY <1>3, <1>4 DEF InCreate, InDelete, Unanswered
<1>6. toCli'[s] = <<>>
  BY <1>1, <1>2, <1>5, TakeStringAll
<1>7. toSrv'[s] = << m >>
  BY <1>1, <1>2, <1>5 DEF Write, TypeOK
<1>8. InList(s)'
  BY <1>2, <1>5, <1>6, <1>7 DEF InList, Unanswered, serverVars
<1>9. QED
  BY <1>1, <1>2, <1>5, <1>8 DEF Sync, Phase

LEMMA ListSync ==
  ASSUME PInv, NEW s \in Session, UNCHANGED serverVars, ListDone(s)
  PROVE  Sync(s)'
<1>1. TypeOK /\ ClientTypeOK /\ Sync(s)
  BY DEF PInv, IInv, TypeOK
<1>2. /\ cpc[s] = "list" /\ toCli[s] # <<>> /\ Head(toCli[s]).kind = "listing"
      /\ Take(s, ListingLen) /\ cpc'[s] = "idle" /\ UNCHANGED <<toSrv, open>>
  BY <1>1 DEF ListDone, Goto, ClientTypeOK
<1>3. InList(s)
  BY <1>1, <1>2 DEF Sync, Phase, InCreate, InStranded, InIdle, InList, InDelete, InDownload, InUpRequest,
                    InUpBlock
<1>4. toCli[s] # << Ack >>
  BY <1>2 DEF Ack
<1>5. PICK names \in SUBSET FileName :
        toCli[s] = Listing(names) /\ spc[s] = "main" /\ toSrv[s] = <<>>
  BY <1>2, <1>3, <1>4 DEF InList, Unanswered
<1>6. toCli'[s] = <<>>
  <2>1. Len(toCli[s]) <= ListingLen /\ ListingLen \in Nat
    BY <1>5, ListingParts
  <2>2. QED
    BY <1>1, <1>2, <2>1, TakeAll
<1>7. InIdle(s)'
  BY <1>2, <1>5, <1>6 DEF InIdle, serverVars
<1>8. QED
  BY <1>1, <1>2, <1>7 DEF Sync, Phase

(* A byte confirms the request of an upload or a block of it.              *)
LEMMA AckSync ==
  ASSUME PInv, NEW s \in Session, UNCHANGED serverVars, UpConfirm(s) \/ UpAck(s)
  PROVE  Sync(s)'
<1>1. TypeOK /\ ClientTypeOK /\ Sync(s)
  BY DEF PInv, IInv, TypeOK
<1>2. /\ cpc[s] \in {"upreq", "upblk"} /\ toCli[s] # <<>> /\ Take(s, 1)
      /\ UNCHANGED <<open, sel>> /\ sel[s] \in FileName /\ BlocksOf[sel[s]] \in Nat
      /\ blockNo[s] \in Nat
  BY <1>1, ChannelAssumption DEF UpConfirm, UpAck, ClientTypeOK
<1>3. InUpRequest(s) \/ InUpBlock(s)
  BY <1>1, <1>2 DEF Sync, Phase, InCreate, InStranded, InIdle, InList, InDelete, InDownload, InUpRequest,
                    InUpBlock
<1>4. toCli[s] = << Ack >> /\ toSrv[s] = <<>>
  BY <1>2, <1>3 DEF InUpRequest, InUpBlock, Unanswered
<1>5. toCli'[s] = <<>>
  <2>1. Len(toCli[s]) <= 1 /\ 1 \in Nat
    BY <1>4
  <2>2. QED
    BY <1>1, <1>2, <2>1, TakeAll
<1>6. PICK b \in Nat :
        /\ NextBlock(s, b)
        /\ \/ UpConfirm(s) /\ InUpRequest(s) /\ b = 0
           \/ UpAck(s) /\ InUpBlock(s) /\ b = blockNo[s] + 1
  BY <1>2, <1>3 DEF UpConfirm, UpAck, InUpRequest, InUpBlock
<1>7. /\ spc[s] = "main" \/ (OwnLoop(s) /\ packNum[s] = b /\ b <= BlocksOf[sel[s]])
      /\ spc[s] \in {"main", "upload"}
  BY <1>2, <1>4, <1>6 DEF InUpRequest, InUpBlock, Unanswered, OwnLoop
<1>8. CASE MoreBlocks(s, b)
  <2>1. /\ Write(s, Msg("data", sel[s], b)) /\ blockNo'[s] = b /\ cpc'[s] = "upblk"
        /\ b < BlocksOf[sel[s]]
    BY <1>1, <1>6, <1>8 DEF NextBlock, MoreBlocks, Goto, ClientTypeOK
  <2>2. toSrv'[s] = << Msg("data", sel[s], b) >>
    BY <1>1, <1>4, <2>1 DEF Write, TypeOK
  <2>3. InUpBlock(s)'
    BY <1>2, <1>5, <1>7, <2>1, <2>2 DEF InUpBlock, OwnLoop, serverVars, uploadVars
  <2>4. QED
    BY <1>1, <1>2, <2>1, <2>3 DEF Sync, Phase
<1>9. CASE ~ MoreBlocks(s, b)
  <2>1. cpc'[s] = "idle" /\ UNCHANGED toSrv /\ ~ (b < BlocksOf[sel[s]])
    BY <1>1, <1>6, <1>9 DEF NextBlock, MoreBlocks, Goto, ClientTypeOK
  <2>2. spc[s] = "main" \/ (spc[s] = "upload" /\ packNum[s] = numblock[s])
    BY <1>2, <1>7, <2>1 DEF OwnLoop
  <2>3. InIdle(s)'
    BY <1>4, <1>5, <2>1, <2>2 DEF InIdle, serverVars, uploadVars
  <2>4. QED
    BY <1>1, <1>2, <2>1, <2>3 DEF Sync, Phase
<1>10. QED
  BY <1>8, <1>9

(* A download is never answered, so its two reads never end well.          *)
LEMMA NoDownload ==
  ASSUME PInv, NEW s \in Session
  PROVE  ~ DlHeader(s) /\ ~ DlBlock(s)
<1>1. Sync(s)
  BY DEF PInv
<1>2. cpc[s] # "dlblk"
  BY <1>1 DEF Sync, Phase, InCreate, InStranded, InIdle, InList, InDelete, InDownload, InUpRequest,
              InUpBlock
<1>3. cpc[s] = "dl" => ~ (Len(toCli[s]) >= 3)
  <2>1. cpc[s] = "dl" => InDownload(s)
    BY <1>1 DEF Sync, Phase, InCreate, InStranded, InIdle, InList, InDelete, InDownload, InUpRequest,
                InUpBlock
  <2>2. cpc[s] = "dl" => toCli[s] = <<>> \/ toCli[s] = << Ack >>
    BY <2>1 DEF InDownload, Unanswered
  <2>3. toCli[s] = <<>> => Len(toCli[s]) = 0
    OBVIOUS
  <2>4. toCli[s] = << Ack >> => Len(toCli[s]) = 1
    OBVIOUS
  <2>5. cpc[s] = "dl" => Len(toCli[s]) = 0 \/ Len(toCli[s]) = 1
    BY <2>2, <2>3, <2>4, Zenon
  <2>6. \A n : n = 0 \/ n = 1 => ~ (n >= 3)
    OBVIOUS
  <2>7. QED
    BY <2>5, <2>6, Zenon
<1>4. QED
  BY <1>2, <1>3 DEF DlHeader, DlBlock

(* A read gives up once no answer is on its way.                           *)
LEMMA TimeoutSync ==
  ASSUME PInv, NEW s \in Session, UNCHANGED serverVars, Quiet(s),
         UpTimeout(s) \/ ReplyTimeout(s)
  PROVE  Sync(s)'
<1>1. TypeOK /\ ClientTypeOK /\ Sync(s)
  BY DEF PInv, IInv, TypeOK
<1>2. cpc[s] \in {"upreq", "upblk", "del", "dl", "dlblk"} /\ cpc'[s] = "idle" /\ UNCHANGED open
  BY <1>1 DEF UpTimeout, ReplyTimeout, Goto, ClientTypeOK
<1>3. InUpRequest(s) \/ InUpBlock(s) \/ InDelete(s) \/ InDownload(s)
  BY <1>1, <1>2 DEF Sync, Phase, InCreate, InStranded, InIdle, InList, InDelete, InDownload, InUpRequest,
                    InUpBlock
<1>4. spc[s] \notin {"dead", "returned"}
  BY <1>3 DEF InUpRequest, InUpBlock, InDelete, InDownload, Unanswered, OwnLoop
<1>5. toSrv[s] = <<>>
  BY <1>4 DEF Quiet
<1>6. CASE UpTimeout(s)
  <2>1. toCli[s] = <<>> /\ UNCHANGED toCli
    BY <1>6 DEF UpTimeout
  <2>2. spc[s] = "main"
    BY <1>3, <1>5, <1>6, <2>1 DEF InUpRequest, InUpBlock, InDelete, InDownload, Unanswered,
                                  UpTimeout
  <2>3. toSrv'[s] \in {<<>>, << ErrorMsg >>}
    BY <1>1, <1>5, <1>6 DEF UpTimeout, Write, ErrorMsg, TypeOK
  <2>4. InIdle(s)'
    BY <1>2, <2>1, <2>2, <2>3 DEF InIdle, serverVars
  <2>5. QED
    BY <1>1, <1>2, <2>4 DEF Sync, Phase
<1>7. CASE ReplyTimeout(s)
  <2>1. Take(s, Len(toCli[s])) /\ UNCHANGED toSrv /\ (cpc[s] = "del" => ~ HasString(s))
    BY <1>7 DEF ReplyTimeout
  <2>2. Len(toCli[s]) \in Nat
    BY <1>1 DEF TypeOK
  <2>3. toCli'[s] = <<>>
    BY <1>1, <2>1, <2>2, TakeAll
  <2>4. spc[s] = "main"
    BY <1>3, <1>5, <1>7, <2>1, StringThere
    DEF InUpRequest, InUpBlock, InDelete, InDownload, Unanswered, ReplyTimeout
  <2>5. InIdle(s)'
    BY <1>2, <1>5, <2>1, <2>3, <2>4 DEF InIdle, serverVars
  <2>6. QED
    BY <1>1, <1>2, <2>5 DEF Sync, Phase
<1>8. QED
  BY <1>6, <1>7

-----------------------------------------------------------------------------
(* The other sessions, and the whole step.                                 *)

LEMMA ServerLocalUpload ==
  ASSUME TypeOK, NEW s \in Session, ServerStep(s), NEW t \in Session, t # s
  PROVE  filename'[t] = filename[t] /\ numblock'[t] = numblock[t] /\ packNum'[t] = packNum[t]
<1> USE DEF TypeOK, ServerTypeOK, uploadVars
<1>1. CASE CreateFolder(s) \/ CreateNewFolder(s) \/ ListDir(s)
  BY <1>1 DEF CreateFolder, CreateNewFolder, ListDir
<1>2. CASE OpenUpload(s)
  <2>1. CASE Head(toSrv[s]).num > 0
    BY <1>2, <2>1 DEF OpenUpload
  <2>2. CASE ~ (Head(toSrv[s]).num > 0)
    BY <1>2, <2>2 DEF OpenUpload
  <2>3. QED
    BY <2>1, <2>2
<1>3. CASE OpenFails(s) \/ Ignore(s) \/ Exit(s) \/ Delete(s)
  BY <1>3 DEF OpenFails, Ignore, Exit, Delete
<1>4. CASE RecvPacket(s) \/ RecvClosed(s)
  BY <1>4 DEF RecvPacket, RecvClosed, StorePacket
<1>5. QED
  BY <1>1, <1>2, <1>3, <1>4 DEF ServerStep

LEMMA ClientLocalUpload ==
  ASSUME TypeOK, NEW s \in Session, UserAct(s) \/ ClientRead(s) \/ ClientTimeout(s),
         NEW t \in Session, t # s
  PROVE  sel'[t] = sel[t] /\ blockNo'[t] = blockNo[t] /\ acked'[t] = acked[t]
<1> USE DEF TypeOK, ClientTypeOK
<1>1. CASE Initialize(s) \/ RefreshListFiles(s)
  BY <1>1 DEF Initialize, RefreshListFiles
<1>2. CASE \E f \in FileName : UploadFile(s, f) \/ DeleteFile(s, f) \/ DownloadFile(s, f)
  BY <1>2 DEF UploadFile, DeleteFile, DownloadFile, Disown
<1>3. CASE UserLogout(s) \/ Crash(s) \/ ExitTimeout(s) \/ ListMisread(s)
  BY <1>3 DEF UserLogout, Crash, ExitTimeout, ListMisread
<1>4. CASE CreateFolderDone(s) \/ DelReply(s) \/ ListDone(s) \/ DlHeader(s) \/ DlBlock(s)
  BY <1>4 DEF CreateFolderDone, DelReply, ListDone, DlHeader, DlBlock
<1>5. CASE UpConfirm(s) \/ UpAck(s)
  BY <1>5 DEF UpConfirm, UpAck, NextBlock
<1>6. CASE UpTimeout(s) \/ ReplyTimeout(s)
  BY <1>6 DEF UpTimeout, ReplyTimeout
<1>7. QED
  BY <1>1, <1>2, <1>3, <1>4, <1>5, <1>6 DEF UserAct, ClientRead, ClientTimeout

(* A session whose state a step leaves alone.                              *)
LEMMA SyncKept ==
  ASSUME NEW t \in Session, Sync(t),
         toSrv'[t] = toSrv[t], toCli'[t] = toCli[t], open'[t] = open[t], spc'[t] = spc[t],
         cpc'[t] = cpc[t], sel'[t] = sel[t], blockNo'[t] = blockNo[t],
         filename'[t] = filename[t], numblock'[t] = numblock[t], packNum'[t] = packNum[t]
  PROVE  Sync(t)'
BY DEF Sync, Phase, InCreate, InStranded, InIdle, InList, InDelete, InDownload, InUpRequest, InUpBlock,
       Unanswered, OwnLoop

LEMMA ServeSync ==
  ASSUME PInv, NEW s \in Session, Serve(s), NEW t \in Session
  PROVE  Sync(t)'
<1>1. IInv /\ TypeOK /\ ServerStep(s) /\ UNCHANGED clientVars /\ UNCHANGED open /\ Sync(t)
  BY ServerLocal DEF PInv, IInv, Serve
<1>2. CASE t = s /\ open[s]
  <2>1. Phase(s)
    BY <1>1, <1>2 DEF Sync
  <2>2. Phase(s)'
    BY <1>1, <1>2, <2>1, NothingToRead, ServePhase
  <2>3. QED
    BY <1>1, <1>2, <2>2 DEF Sync, clientVars
<1>3. CASE t = s /\ ~ open[s]
  BY <1>1, <1>3 DEF Sync, clientVars
<1>4. CASE t # s
  <2>1. toSrv'[t] = toSrv[t] /\ toCli'[t] = toCli[t] /\ spc'[t] = spc[t]
    BY <1>1, <1>4, ServerLocal
  <2>2. filename'[t] = filename[t] /\ numblock'[t] = numblock[t] /\ packNum'[t] = packNum[t]
    BY <1>1, <1>4, ServerLocalUpload
  <2>3. QED
    BY <1>1, <2>1, <2>2, SyncKept DEF clientVars
<1>5. QED
  BY <1>2, <1>3, <1>4

LEMMA ClientSync ==
  ASSUME PInv, NEW s \in Session, NEW t \in Session, UNCHANGED serverVars,
         UserAct(s) \/ ClientRead(s) \/ (ClientTimeout(s) /\ Quiet(s))
  PROVE  Sync(t)'
<1>1. TypeOK /\ Sync(t)
  BY DEF PInv, IInv
<1>2. CASE t # s
  <2>1. Apart(t) /\ sel'[t] = sel[t] /\ blockNo'[t] = blockNo[t]
    BY <1>1, <1>2, ClientLocal, ClientLocalUpload
  <2>2. QED
    BY <1>1, <2>1, SyncKept DEF Apart, serverVars
<1>3. Sync(s)'
  <2>1. CASE UserAct(s)
    BY <2>1, InitializeSync, PressSync, ClosingSync DEF UserAct
  <2>2. CASE ClientRead(s)
    BY <2>2, StringSync, ListSync, AckSync, NoDownload, ClosingSync DEF ClientRead
  <2>3. CASE ClientTimeout(s) /\ Quiet(s)
    BY <2>3, TimeoutSync, ClosingSync DEF ClientTimeout
  <2>4. QED
    BY <2>1, <2>2, <2>3
<1>4. QED
  BY <1>2, <1>3

LEMMA PromptInitial == Init => PInv
<1> SUFFICES ASSUME Init PROVE PInv
  OBVIOUS
<1>1. \A s \in Session : ~ open[s] /\ cpc[s] = "new"
  BY DEF Init, ClientInit
<1>2. QED
  BY <1>1, InitInvariant DEF PInv, Sync

LEMMA PromptStep ==
  ASSUME LateReplies = FALSE
  PROVE  PInv /\ [Next]_vars => PInv'
<1> SUFFICES ASSUME PInv, [Next]_vars PROVE PInv'
  OBVIOUS
<1>1. IInv'
  BY NextInvariant DEF PInv
<1>2. ASSUME NEW t \in Session PROVE Sync(t)'
  <2>1. Sync(t)
    BY DEF PInv
  <2>2. CASE UNCHANGED vars
    BY <2>1, <2>2, SyncKept DEF vars, channelVars, serverVars, clientVars
  <2>3. ASSUME NEW s \in Session, Serve(s) PROVE Sync(t)'
    BY <2>3, ServeSync
  <2>4. ASSUME NEW s \in Session, Act(s) \/ Read(s) \/ Timeout(s) PROVE Sync(t)'
    BY <2>4, ClientSync DEF Act, Read, Timeout
  <2>5. QED
    BY <2>2, <2>3, <2>4 DEF Next
<1>3. QED
  BY <1>1, <1>2 DEF PInv

LEMMA PromptInvariance ==
  ASSUME LateReplies = FALSE
  PROVE  Spec => []PInv
<1>1. Init => PInv
  BY PromptInitial
<1>2. PInv /\ [Next]_vars => PInv'
  BY PromptStep
<1>3. QED
  BY <1>1, <1>2, PTL DEF Spec

(* When no answer is late, replies keep step with requests: whatever the   *)
(* upload loop swallows and DOWNLOAD leaves unanswered, an idle client has *)
(* no reply left to read (NetworkServiceImpl reads as much as each request *)
(* of its is answered with).                                               *)
THEOREM RepliesKeepStep ==
  ASSUME LateReplies = FALSE
  PROVE  Spec => []NoStaleReply
<1>1. PInv => NoStaleReply
  <2> SUFFICES ASSUME PInv, NEW s \in Session, cpc[s] = "idle" PROVE toCli[s] = <<>>
    BY DEF NoStaleReply
  <2>1. open[s] /\ Phase(s)
    BY DEF PInv, Sync
  <2>2. InIdle(s)
    BY <2>1 DEF Phase, InCreate, InStranded, InIdle, InList, InDelete, InDownload, InUpRequest, InUpBlock
  <2>3. QED
    BY <2>2 DEF InIdle
<1>2. QED
  BY <1>1, PromptInvariance, PTL

-----------------------------------------------------------------------------
(* What an upload leaves behind.                                           *)

(* A request is about no file that counts as confirmed, an upload          *)
(* announces the blocks of one that is sent by its name, and a block is    *)
(* for the loop of its own file.                                           *)
Proper(s, m) ==
  /\ m.op = "upload" => \E g \in Sources(m.name) : m.num = BlocksOf[g]
  /\ m.op \in {"upload", "delete"} => \A g \in acked[s] : SentAs[g] # m.name
  /\ m.op = "data" /\ spc[s] = "upload" => filename[s] = SentAs[m.name]

(* A block waits alone.                                                    *)
Queued(s) ==
  \A i \in 1..Len(toSrv[s]) :
    /\ Proper(s, toSrv[s][i])
    /\ toSrv[s][i].op = "data" => Len(toSrv[s]) = 1

Pending(s) ==
  cpc[s] \in {"upreq", "upblk", "del"} => \A g \in acked[s] : SentAs[g] # SentAs[sel[s]]

(* The loop of an upload counts to the number it was told, which for a     *)
(* confirmed file is the number of its blocks, and has counted so far once *)
(* the file is confirmed.                                                  *)
Loop(s) ==
  spc[s] = "upload" =>
    /\ filename[s] \in FileName
    /\ packNum[s] <= numblock[s]
    /\ \A g \in acked[s] : SentAs[g] = filename[s] =>
         packNum[s] = numblock[s] /\ numblock[s] = BlocksOf[g]
    /\ Alone(s) => linked[s] /\ filename[s] \in Folder(s)

(* The contents c begin with the first n blocks of f, in order.            *)
Begins(f, c, n) == Len(c) >= n /\ \A i \in 1..n : c[i] = Block(f, i - 1)

InOrder(s) ==
  (open[s] /\ spc[s] = "upload" /\ Alone(s) /\ filename[s] \notin spoilt[Dir(s)])
  => \E g \in Sources(filename[s]) :
       /\ Begins(g, body[Dir(s)][filename[s]], packNum[s])
       /\ cpc[s] = "upblk" => g = sel[s]

Held(s) ==
  Alone(s) => \A f \in acked[s] : BlocksOf[f] > 0 =>
    /\ SentAs[f] \in Folder(s)
    /\ SentAs[f] \notin spoilt[Dir(s)] => Begins(f, body[Dir(s)][SentAs[f]], BlocksOf[f])

Deleted(s) ==
  cpc[s] = "del" /\ HasString(s) /\ Alone(s) =>
    SentAs[sel[s]] \notin Folder(s) \/ SentAs[sel[s]] \in stuck[Dir(s)]

Upload(s) == Queued(s) /\ Pending(s) /\ Loop(s) /\ InOrder(s) /\ Held(s) /\ Deleted(s)

UInv == PInv /\ \A s \in Session : Upload(s)

-----------------------------------------------------------------------------
(* What fwrite stores.                                                     *)

LEMMA PutFacts ==
  ASSUME NEW c \in Seq(Chunk), NEW p \in Nat \ {0}, NEW x
  PROVE  /\ Len(Put(c, p, x)) = IF Len(c) < p THEN p ELSE Len(c)
         /\ \A i \in 1..Len(Put(c, p, x)) :
              Put(c, p, x)[i] = IF i = p THEN x ELSE IF i \in 1..Len(c) THEN c[i] ELSE Junk
<1> DEFINE n == IF Len(c) < p THEN p ELSE Len(c)
<1>1. n \in Nat
  OBVIOUS
<1>2. /\ DOMAIN Put(c, p, x) = 1..n
      /\ \A i \in 1..n :
           Put(c, p, x)[i] = IF i = p THEN x ELSE IF i \in 1..Len(c) THEN c[i] ELSE Junk
  BY DEF Put
<1>3. Put(c, p, x) \in Seq({Put(c, p, x)[i] : i \in 1..n})
  <2> DEFINE w == Put(c, p, x)
             S == {w[i] : i \in 1..n}
  <2>1. w \in [1..n -> S]
    BY DEF Put
  <2> HIDE DEF w, S, n
  <2>2. w \in Seq(S)
    BY <1>1, <2>1, SeqDef
  <2>3. QED
    BY <2>2 DEF w, S
<1>4. Len(Put(c, p, x)) = n
  BY <1>1, <1>2, <1>3, LenProperties
<1>5. QED
  BY <1>2, <1>4

(* A packet stored past the first n leaves them alone; the next of them is *)
(* one more.                                                               *)
LEMMA PutBegins ==
  ASSUME NEW c \in Seq(Chunk), NEW f, NEW n \in Nat, Begins(f, c, n), NEW x
  PROVE  /\ \A p \in Nat : p > n => Begins(f, Put(c, p, x), n)
         /\ x = Block(f, n) => Begins(f, Put(c, n + 1, x), n + 1)
<1>1. Len(c) \in Nat /\ Len(c) >= n /\ \A i \in 1..n : c[i] = Block(f, i - 1)
  BY DEF Begins
<1>2. ASSUME NEW p \in Nat, p > n PROVE Begins(f, Put(c, p, x), n)
  <2>1. Len(Put(c, p, x)) >= n /\ Len(Put(c, p, x)) \in Nat
    BY <1>1, <1>2, PutFacts
  <2>2. ASSUME NEW i \in 1..n PROVE Put(c, p, x)[i] = c[i]
    <3>1. i \in 1..Len(Put(c, p, x)) /\ i # p /\ i \in 1..Len(c)
      BY <1>1, <1>2, <2>1
    <3>2. QED
      BY <1>2, <3>1, PutFacts
  <2>3. QED
    BY <1>1, <2>1, <2>2 DEF Begins
<1>3. ASSUME x = Block(f, n) PROVE Begins(f, Put(c, n + 1, x), n + 1)
  <2> DEFINE r == Put(c, n + 1, x)
  <2>1. Len(r) >= n + 1 /\ Len(r) \in Nat
    BY <1>1, PutFacts
  <2>2. r[n + 1] = Block(f, (n + 1) - 1)
    <3>1. n + 1 \in 1..Len(r) /\ (n + 1) - 1 = n
      BY <2>1
    <3>2. r[n + 1] = x
      BY <3>1, PutFacts
    <3>3. QED
      BY <1>3, <3>1, <3>2
  <2>3. ASSUME NEW i \in 1..n PROVE r[i] = Block(f, i - 1)
    <3>1. Begins(f, r, n)
      BY <1>2
    <3>2. QED
      BY <3>1 DEF Begins
  <2> HIDE DEF r
  <2>4. \A i \in 1..(n + 1) : r[i] = Block(f, i - 1)
    BY <2>2, <2>3
  <2>5. Begins(f, r, n + 1)
    BY <2>1, <2>4 DEF Begins
  <2>6. QED
    BY <2>5 DEF r
<1>4. QED
  BY <1>2, <1>3

-----------------------------------------------------------------------------
(* What the steps of a process do to uploads and to the folder.            *)

LEMMA LinkedElsewhere ==
  ASSUME IInv, NEW s \in Session, ServerStep(s), NEW t \in Session, Dir(t) # Dir(s)
  PROVE  linked'[t] = linked[t]
<1>1. t # s /\ linked \in [Session -> BOOLEAN] /\ Dir(t) # NoName /\ Dir(s) # NoName
  BY DirFacts DEF IInv, TypeOK, ServerTypeOK
<1>2. ASSUME NEW op, op # "create", Received(s, op), NEW f, Unlinked(cdirectory[s], f)
      PROVE  linked'[t] = linked[t]
  <2>1. cdirectory[s] = Dir(s) /\ cdirectory[t] \in {NoName, Dir(t)}
    BY <1>2, ReceivedFacts DEF IInv, DirIsOwners
  <2>2. cdirectory[t] # cdirectory[s]
    BY <1>1, <2>1
  <2>3. QED
    BY <1>1, <1>2, <2>2 DEF Unlinked
<1>3. CASE OpenUpload(s)
  <2>1. Received(s, "upload")
    BY <1>3 DEF OpenUpload
  <2>2. CASE linked' = [linked EXCEPT ![s] = TRUE] \/ UNCHANGED linked
    BY <1>1, <2>2
  <2>3. CASE Unlinked(cdirectory[s], Head(toSrv[s]).name)
    BY <1>2, <2>1, <2>3
  <2>4. QED
    BY <1>3, <2>2, <2>3 DEF OpenUpload
<1>4. CASE Delete(s)
  BY <1>2, <1>4 DEF Delete, Remove
<1>5. CASE UNCHANGED linked
  BY <1>5
<1>6. QED
  BY <1>3, <1>4, <1>5
  DEF ServerStep, CreateFolder, CreateNewFolder, ListDir, OpenFails, Ignore, Exit,
      RecvPacket, RecvClosed, StorePacket, uploadVars

(* What is known of the files of a folder stays as it is.                  *)
SameHistory(d) == spoilt'[d] = spoilt[d] /\ stuck'[d] = stuck[d]

LEMMA OtherHistories ==
  ASSUME IInv, NEW s \in Session, ServerStep(s), NEW d \in Directory, d # Dir(s)
  PROVE  SameHistory(d)
<1>1. cdirectory[s] # d
  BY ChannelAssumption DEF IInv, DirIsOwners
<1>2. /\ spoilt \in [Directory -> SUBSET FileName]
      /\ stuck \in [Directory -> SUBSET FileName]
  BY DEF IInv, TypeOK, ServerTypeOK
<1>3. CASE UNCHANGED <<spoilt, stuck>>
  BY <1>3 DEF SameHistory
<1>4. CASE OpenUpload(s)
  BY <1>1, <1>2, <1>4 DEF OpenUpload, Emptied, Unlinked, SameHistory
<1>5. CASE Delete(s)
  BY <1>1, <1>2, <1>5 DEF Delete, Remove, Unlinked, SameHistory
<1>6. CASE RecvPacket(s) \/ RecvClosed(s)
  BY <1>1, <1>2, <1>6 DEF RecvPacket, RecvClosed, StorePacket, Kept, Lost, SameHistory
<1>7. QED
  BY <1>3, <1>4, <1>5, <1>6
  DEF ServerStep, CreateFolder, CreateNewFolder, ListDir, OpenFails, Ignore, Exit, diskVars

(* The process is in no upload and leaves files alone.                     *)
Calm(s) == spc[s] # "upload" /\ spc'[s] # "upload" /\ UNCHANGED <<held, body, spoilt>>

(* The file f is emptied, and its name may go.                             *)
Empties(s, f) ==
  /\ held' \in {[held EXCEPT ![Dir(s)] = @ \cup {f}], [held EXCEPT ![Dir(s)] = @ \ {f}]}
  /\ body' = [body EXCEPT ![Dir(s)][f] = <<>>]
  /\ spoilt' = [spoilt EXCEPT ![Dir(s)] = @ \ {f}]

LEMMA CalmStep ==
  ASSUME IInv, NEW s \in Session,
         CreateFolder(s) \/ CreateNewFolder(s) \/ ListDir(s) \/ OpenFails(s) \/ Ignore(s) \/ Exit(s)
  PROVE  Calm(s)
<1> USE DEF IInv, TypeOK, ServerTypeOK
<1>1. StringReply \in Seq(Item) /\ "main" \in ServerState
  BY ReplyTypes DEF ServerState
<1>2. ASSUME Send(s, StringReply, "main") PROVE spc'[s] # "upload"
  BY <1>1, <1>2, SendFacts
<1>3. CASE CreateFolder(s)
  <2>1. spc'[s] # "upload"
    BY <1>2, <1>3 DEF CreateFolder, create_Folder
  <2>2. QED
    BY <1>3, <2>1 DEF CreateFolder, Received, Calm, diskVars
<1>4. CASE CreateNewFolder(s)
  <2>1. spc'[s] # "upload"
    BY <1>2, <1>4 DEF CreateNewFolder
  <2>2. QED
    BY <1>4, <2>1 DEF CreateNewFolder, Calm
<1>5. CASE ListDir(s)
  <2>1. Received(s, "list") /\ Send(s, Listing(held[cdirectory[s]]), "main")
    BY <1>5 DEF ListDir
  <2>2. cdirectory[s] \in Directory
    BY <2>1, ReceivedFacts, DirFacts
  <2>3. Listing(held[cdirectory[s]]) \in Seq(Item)
    BY <2>2, ReplyTypes
  <2>4. spc'[s] # "upload"
    BY <1>1, <2>1, <2>3, SendFacts
  <2>5. QED
    BY <1>5, <2>1, <2>4 DEF ListDir, Received, Calm, diskVars
<1>6. CASE OpenFails(s) \/ Ignore(s) \/ Exit(s)
  <2>1. spc[s] = "main" /\ UNCHANGED <<held, body, spoilt>>
    BY <1>6 DEF OpenFails, Ignore, Exit, Received, diskVars
  <2>2. UNCHANGED spc \/ spc' = [spc EXCEPT ![s] = "returned"]
    BY <1>6 DEF OpenFails, Ignore, Exit
  <2>3. QED
    BY <2>1, <2>2 DEF Calm
<1>7. QED
  BY <1>3, <1>4, <1>5, <1>6

(* A request that is about a file is looked at.                            *)
LEMMA RequestRead ==
  ASSUME UInv, NEW s \in Session, NEW op \in {"upload", "delete"}, Received(s, op)
  PROVE  LET m == Head(toSrv[s]) IN
           /\ m.op = op /\ m.name \in FileName /\ m.num \in Nat
           /\ Proper(s, m)
           /\ cdirectory[s] = Dir(s) /\ Dir(s) \in Directory
<1> DEFINE m == Head(toSrv[s])
<1>1. IInv /\ Queued(s) /\ toSrv[s] \in Seq(Message)
  BY DEF UInv, PInv, IInv, Upload, TypeOK
<1>2. m.op = op /\ toSrv[s] # <<>> /\ m \in Message
  BY <1>1, ReceivedFacts DEF Received
<1>3. 1 \in 1..Len(toSrv[s]) /\ m = toSrv[s][1]
  BY <1>1, <1>2
<1>4. Proper(s, m)
  BY <1>1, <1>3 DEF Queued
<1>5. m.name \in FileName /\ m.num \in Nat
  BY <1>2 DEF Message
<1>6. QED
  BY <1>1, <1>2, <1>4, <1>5, ReceivedFacts, DirFacts

(* An upload begins.                                                       *)
Begun(s) ==
  LET m == Head(toSrv[s]) IN
    /\ Received(s, "upload") /\ m.num > 0
    /\ Emptied(Dir(s), m.name)
    /\ filename'[s] = m.name /\ numblock'[s] = m.num /\ packNum'[s] = 0 /\ linked'[s]

(* The file f is not what was confirmed.                                   *)
Unconfirmed(s) == {f \in FileName : \A g \in acked[s] : SentAs[g] # f}

LEMMA Shapes ==
  ASSUME UInv, NEW s \in Session, ServerStep(s)
  PROVE  \/ Calm(s)
         \/ Begun(s)
         \/ /\ spc[s] # "upload" /\ spc'[s] # "upload"
            /\ \E f \in Unconfirmed(s) : Empties(s, f)
         \/ spc[s] = "upload" /\ \E x : StorePacket(s, x)
<1> DEFINE m == Head(toSrv[s])
<1>1. /\ IInv /\ TypeOK
      /\ numblock \in [Session -> Nat] /\ packNum \in [Session -> Nat]
      /\ filename \in [Session -> FileName \cup {NoName}] /\ linked \in [Session -> BOOLEAN]
      /\ spc \in [Session -> ServerState]
  BY DEF UInv, PInv, IInv, TypeOK, ServerTypeOK
<1>2. CASE OpenUpload(s)
  <2>1. Received(s, "upload") /\ spc[s] = "main"
    BY <1>2 DEF OpenUpload, Received
  <2>2. /\ m.name \in Unconfirmed(s) /\ m.num \in Nat
        /\ cdirectory[s] = Dir(s)
    BY <2>1, RequestRead DEF Proper, Unconfirmed
  <2>3. CASE m.num > 0
    BY <1>1, <1>2, <2>1, <2>2, <2>3 DEF OpenUpload, Begun
  <2>4. CASE ~ (m.num > 0)
    <3>1. Send(s, << Ack >>, "main")
      BY <1>2, <2>4 DEF OpenUpload
    <3>2. spc'[s] # "upload"
      BY <1>1, <3>1, ReplyTypes, SendFacts DEF ServerState
    <3>3. Emptied(Dir(s), m.name) \/ Unlinked(Dir(s), m.name)
      BY <1>2, <2>2, <2>4 DEF OpenUpload
    <3>4. Empties(s, m.name)
      BY <3>3 DEF Emptied, Unlinked, Empties
    <3>5. QED
      BY <2>1, <2>2, <3>2, <3>4
  <2>5. QED
    BY <2>3, <2>4
<1>3. CASE Delete(s)
  <2>1. Received(s, "delete") /\ Remove(cdirectory[s], m.name) /\ Send(s, StringReply, "main")
        /\ spc[s] = "main"
    BY <1>3 DEF Delete, Received
  <2>2. m.name \in Unconfirmed(s) /\ cdirectory[s] = Dir(s)
    BY <2>1, RequestRead DEF Proper, Unconfirmed
  <2>3. spc'[s] # "upload"
    BY <1>1, <2>1, ReplyTypes, SendFacts DEF ServerState
  <2>4. Empties(s, m.name) \/ UNCHANGED <<held, body, spoilt>>
    BY <2>1, <2>2 DEF Remove, Unlinked, Empties
  <2>5. QED
    BY <2>1, <2>2, <2>3, <2>4 DEF Calm
<1>4. CASE RecvPacket(s) \/ RecvClosed(s)
  BY <1>4 DEF RecvPacket, RecvClosed
<1>5. QED
  BY <1>1, <1>2, <1>3, <1>4, CalmStep DEF ServerStep

-----------------------------------------------------------------------------
(* The sessions a step leaves alone.                                       *)

LEMMA UploadKept ==
  ASSUME TypeOK, NEW t \in Session, Upload(t),
         toSrv'[t] = toSrv[t], toCli'[t] = toCli[t], open'[t] = open[t], spc'[t] = spc[t],
         cpc'[t] = cpc[t], sel'[t] = sel[t], acked'[t] = acked[t],
         filename'[t] = filename[t], numblock'[t] = numblock[t], packNum'[t] = packNum[t],
         Alone(t) => linked'[t] = linked[t] /\ SameFolder(Dir(t)) /\ SameHistory(Dir(t))
  PROVE  Upload(t)'
<1>1. (Alone(t)' <=> Alone(t)) /\ acked[t] \in SUBSET FileName
  BY DEF Alone, Dir, TypeOK, ClientTypeOK
<1>2. Queued(t)' /\ Pending(t)'
  BY DEF Upload, Queued, Pending, Proper, Sources
<1>3. Alone(t) => /\ Folder(t)' = Folder(t) /\ body'[Dir(t)] = body[Dir(t)]
                  /\ spoilt'[Dir(t)] = spoilt[Dir(t)] /\ stuck'[Dir(t)] = stuck[Dir(t)]
  BY DEF Folder, Dir, SameFolder, SameHistory
<1>4. Loop(t)'
  BY <1>1, <1>3 DEF Upload, Loop
<1>5. InOrder(t)'
  BY <1>1, <1>3 DEF Upload, InOrder, Begins, Dir, Sources
<1>6. Held(t)'
  BY <1>1, <1>3 DEF Upload, Held, Begins, Dir
<1>7. Deleted(t)'
  BY <1>1, <1>3 DEF Upload, Deleted, HasString, Dir
<1>8. QED
  BY <1>2, <1>4, <1>5, <1>6, <1>7 DEF Upload

LEMMA OthersServed ==
  ASSUME UInv, NEW s \in Session, ServerStep(s), UNCHANGED clientVars, NEW t \in Session, t # s
  PROVE  Upload(t)'
<1>1. IInv /\ TypeOK /\ Upload(t)
  BY DEF UInv, PInv, IInv
<1>2. Alone(t) => Dir(s) # Dir(t)
  BY DEF Alone
<1>3. Alone(t) => linked'[t] = linked[t] /\ SameFolder(Dir(t)) /\ SameHistory(Dir(t))
  BY <1>1, <1>2, LinkedElsewhere, OtherFolders, OtherHistories, DirFacts
<1>4. UNCHANGED open /\ toSrv'[t] = toSrv[t] /\ toCli'[t] = toCli[t] /\ spc'[t] = spc[t]
  BY <1>1, ServerLocal
<1>5. filename'[t] = filename[t] /\ numblock'[t] = numblock[t] /\ packNum'[t] = packNum[t]
  BY <1>1, ServerLocalUpload
<1>6. QED
  BY <1>1, <1>3, <1>4, <1>5, UploadKept DEF clientVars

-----------------------------------------------------------------------------
(* A process serves its client.                                            *)

LEMMA ServeQueued ==
  ASSUME UInv, NEW s \in Session, ServerStep(s), UNCHANGED clientVars
  PROVE  Queued(s)' /\ Pending(s)'
<1>1. TypeOK /\ Queued(s) /\ Pending(s) /\ toSrv[s] \in Seq(Message)
  BY DEF UInv, PInv, IInv, Upload, TypeOK
<1>2. Pending(s)'
  BY <1>1 DEF Pending, clientVars
<1>3. ASSUME NEW m, Proper(s, m), m.op # "data" \/ spc'[s] # "upload" PROVE Proper(s, m)'
  BY <1>3 DEF Proper, Sources, clientVars
<1>4. CASE Recv(s)
  <2>1. Suffix(toSrv'[s], toSrv[s])
    BY <1>1, <1>4, RecvSuffix
  <2>2. PICK k \in 0..Len(toSrv[s]) :
          /\ Len(toSrv'[s]) = Len(toSrv[s]) - k
          /\ \A i \in 1..Len(toSrv'[s]) : toSrv'[s][i] = toSrv[s][i + k]
    BY <2>1 DEF Suffix
  <2>3. Len(toSrv'[s]) < Len(toSrv[s]) /\ Len(toSrv[s]) \in Nat
    BY <1>1, <1>4, RecvFacts DEF UInv, PInv, IInv
  <2>4. ASSUME NEW i \in 1..Len(toSrv'[s])
        PROVE  /\ i + k \in 1..Len(toSrv[s])
               /\ toSrv'[s][i] = toSrv[s][i + k]
               /\ Len(toSrv[s]) # 1
    BY <2>2, <2>3
  <2>5. ASSUME NEW i \in 1..Len(toSrv'[s])
        PROVE  Proper(s, toSrv'[s][i]) /\ toSrv'[s][i].op # "data"
    BY <1>1, <2>4 DEF Queued
  <2>6. ASSUME NEW i \in 1..Len(toSrv'[s])
        PROVE  Proper(s, toSrv[s][i])' /\ toSrv'[s][i].op # "data"
    <3>1. PICK m : m = toSrv'[s][i]
      OBVIOUS
    <3>2. Proper(s, m)' /\ m.op # "data"
      BY <1>3, <2>5, <3>1
    <3>3. QED
      BY <3>1, <3>2 DEF Proper
  <2>7. Queued(s)'
    BY <2>6 DEF Queued
  <2>8. QED
    BY <1>2, <2>7
<1>5. CASE CreateNewFolder(s)
  <2>1. UNCHANGED toSrv /\ spc'[s] # "upload"
    BY <1>5, CalmStep DEF CreateNewFolder, Calm, UInv, PInv
  <2>2. ASSUME NEW i \in 1..Len(toSrv[s]) PROVE Proper(s, toSrv[s][i])'
    <3>1. PICK m : m = toSrv[s][i] /\ m = toSrv'[s][i]
      BY <2>1
    <3>2. Proper(s, m)'
      BY <1>1, <1>3, <2>1, <3>1 DEF Queued
    <3>3. QED
      BY <3>1, <3>2 DEF Proper
  <2>3. Queued(s)'
    BY <1>1, <2>1, <2>2 DEF Queued
  <2>4. QED
    BY <1>2, <2>3
<1>6. CASE RecvClosed(s)
  <2>1. toSrv'[s] = <<>>
    BY <1>6 DEF RecvClosed
  <2>2. Len(<<>>) = 0
    OBVIOUS
  <2>3. 1..Len(toSrv'[s]) = {}
    BY <2>1, <2>2
  <2>4. QED
    BY <1>2, <2>3 DEF Queued
<1>7. QED
  BY <1>4, <1>5, <1>6
  DEF ServerStep, CreateFolder, ListDir, OpenUpload, OpenFails, Delete, Ignore, Exit,
      RecvPacket, Received

(* A delete that is answered has been done.                                *)
LEMMA ServeDeleted ==
  ASSUME UInv, NEW s \in Session, ServerStep(s), UNCHANGED clientVars
  PROVE  Deleted(s)'
<1> SUFFICES ASSUME cpc[s] = "del", HasString(s)'
             PROVE  SentAs[sel[s]] \notin held'[Dir(s)] \/ SentAs[sel[s]] \in stuck'[Dir(s)]
  BY DEF Deleted, Folder, Dir, clientVars
<1> DEFINE m == Msg("delete", SentAs[sel[s]], 0)
<1>1. IInv /\ Sync(s) /\ held \in [Directory -> SUBSET FileName] /\ Dir(s) \in Directory
      /\ stuck \in [Directory -> SUBSET FileName]
  BY DirFacts DEF UInv, PInv, IInv, TypeOK, ServerTypeOK
<1>2. open[s] /\ Phase(s)
  BY <1>1 DEF Sync
<1>3. InDelete(s) /\ toCli[s] = <<>>
  BY <1>1, <1>2, NothingToRead
  DEF Phase, InCreate, InStranded, InIdle, InList, InDelete, InDownload, InUpRequest, InUpBlock
<1>4. toCli'[s] \notin {<<>>, << Ack >>}
  BY DEF HasString, Ack
<1>5. CASE spc[s] = "main" /\ toSrv[s] = << m >>
  <2>1. Head(toSrv[s]) = m /\ m.op = "delete" /\ m.name = SentAs[sel[s]]
    BY <1>5 DEF Msg
  <2>2. Delete(s)
    BY <1>5, <2>1
    DEF ServerStep, CreateFolder, CreateNewFolder, ListDir, OpenUpload, OpenFails, Ignore, Exit,
        RecvPacket, RecvClosed, Received
  <2>3. cdirectory[s] = Dir(s) /\ Remove(cdirectory[s], SentAs[sel[s]])
    BY <1>1, <2>1, <2>2, ReceivedFacts DEF Delete
  <2>4. QED
    BY <1>1, <2>3 DEF Remove, Unlinked
<1>6. CASE spc[s] = "main" /\ toSrv[s] = << ErrorMsg, m >>
  <2>1. Answered(s, Head(toSrv[s])) /\ Head(toSrv[s]) = ErrorMsg
    BY <1>1, <1>2, <1>3, <1>6, MainStep
  <2>2. toCli'[s] = <<>>
    BY <2>1 DEF Answered, ErrorMsg, Msg
  <2>3. QED
    BY <1>4, <2>2
<1>7. CASE spc[s] = "upload"
  BY <1>1, <1>2, <1>3, <1>4, <1>7, LoopStep
<1>8. CASE spc[s] = "main" /\ toSrv[s] = <<>>
  BY <1>1, <1>2, <1>3, <1>8, MainStep
<1>9. QED
  BY <1>3, <1>5, <1>6, <1>7, <1>8 DEF InDelete, Unanswered

(* While the client is there, what the loop of an upload receives is the   *)
(* next block of the file, or the packet after the last.                   *)
LEMMA NextPacket ==
  ASSUME UInv, NEW s \in Session, ServerStep(s), spc[s] = "upload", open[s]
  PROVE  \/ spc'[s] # "upload"
         \/ /\ StorePacket(s, Block(sel[s], packNum[s]))
            /\ cpc[s] = "upblk"
<1>1. IInv /\ TypeOK /\ OwnRequests /\ Sync(s) /\ packNum[s] \in Nat /\ numblock[s] \in Nat
  BY DEF UInv, PInv, IInv, TypeOK, ServerTypeOK
<1>2. Phase(s) /\ toCli[s] = <<>>
  BY <1>1, NothingToRead DEF Sync
<1>3. RecvPacket(s) /\ toSrv[s] # <<>> /\ Recv(s)
      /\ spc'[s] = IF packNum[s] + 1 > numblock[s] THEN "main" ELSE "upload"
  BY <1>1, <1>2, LoopStep
<1>4. CASE packNum[s] = numblock[s]
  BY <1>1, <1>3, <1>4
<1>5. CASE packNum[s] # numblock[s]
  <2>1. InUpBlock(s)
    BY <1>2, <1>3, <1>5
    DEF Phase, InCreate, InStranded, InIdle, InList, InDelete, InDownload, InUpRequest, InUpBlock, Unanswered
  <2> DEFINE m == Msg("data", sel[s], blockNo[s])
  <2>2. OwnLoop(s) /\ packNum[s] = blockNo[s] /\ toSrv[s] = << m >>
    BY <1>3, <2>1 DEF InUpBlock
  <2>3. toSrv'[s] = <<>>
    BY <1>1, <1>3, <2>2, RecvOne
  <2>4. Len(toSrv'[s]) = Len(toSrv[s]) - 1 /\ Head(toSrv[s]) = m
    <3>1. Len(<< m >>) = 1 /\ Len(<<>>) = 0 /\ Head(<< m >>) = m
      OBVIOUS
    <3>2. QED
      BY <2>2, <2>3, <3>1
  <2>5. Payload(s) = Block(sel[s], blockNo[s])
    BY <2>4 DEF Payload, Msg
  <2>6. StorePacket(s, Payload(s))
    BY <1>3 DEF RecvPacket
  <2>7. QED
    BY <2>1, <2>2, <2>5, <2>6 DEF InUpBlock
<1>6. QED
  BY <1>4, <1>5

(* A packet is stored.                                                     *)
LEMMA StoreUpload ==
  ASSUME UInv, NEW s \in Session, ServerStep(s), UNCHANGED clientVars,
         spc[s] = "upload", NEW x, StorePacket(s, x)
  PROVE  Loop(s)' /\ InOrder(s)' /\ Held(s)'
<1> DEFINE d == Dir(s)
           f == filename[s]
           n == packNum[s]
           c == body[d][f]
<1>1. /\ IInv /\ Loop(s) /\ InOrder(s) /\ Held(s) /\ d \in Directory
      /\ n \in Nat /\ numblock[s] \in Nat /\ spc \in [Session -> ServerState]
      /\ packNum \in [Session -> Nat] /\ spoilt \in [Directory -> SUBSET FileName]
      /\ body \in [Directory -> [FileName -> Seq(Chunk)]] /\ acked[s] \in SUBSET FileName
  BY DirFacts DEF UInv, PInv, Upload, IInv, TypeOK, ServerTypeOK, ClientTypeOK
<1>2. /\ f \in FileName /\ n <= numblock[s]
      /\ \A g \in acked[s] : SentAs[g] = f => n = numblock[s] /\ numblock[s] = BlocksOf[g]
      /\ Alone(s) => linked[s] /\ f \in Folder(s)
  BY <1>1 DEF Loop
<1>3. /\ UNCHANGED <<open, cdirectory, filename, numblock, linked, dirs, held, acked, cpc, sel>>
      /\ packNum'[s] = n + 1 /\ cdirectory[s] = d
      /\ Send(s, << Ack >>, IF n + 1 > numblock[s] THEN "main" ELSE "upload")
  BY <1>1, FolderKnown DEF StorePacket, LoopDone, clientVars
<1>4. spc'[s] = "upload" => n + 1 <= numblock[s]
  <2>1. SUFFICES ASSUME n + 1 > numblock[s] PROVE spc'[s] # "upload"
    BY <1>1
  <2>2. Send(s, << Ack >>, "main")
    BY <1>3, <2>1
  <2>3. QED
    BY <1>1, <2>2, ReplyTypes, SendFacts DEF ServerState, IInv
<1>5. (Alone(s)' <=> Alone(s)) /\ Folder(s)' = Folder(s)
  BY <1>3 DEF Alone, Folder, Dir
<1>6. ASSUME Alone(s), NEW y, StorePacket(s, y)
      PROVE  \/ UNCHANGED spoilt /\ body' = [body EXCEPT ![d][f] = Put(c, n + 1, y)]
             \/ /\ spoilt' = [spoilt EXCEPT ![d] = @ \cup {f}]
                /\ \E z : body' = [body EXCEPT ![d][f] = z]
  BY <1>2, <1>3, <1>6 DEF StorePacket, Kept, Lost
<1>7. c \in Seq(Chunk)
  BY <1>1, <1>2
<1>8. Loop(s)'
  <2> SUFFICES ASSUME spc'[s] = "upload" PROVE Loop(s)'
    BY DEF Loop
  <2>1. n + 1 <= numblock[s] /\ \A g \in acked[s] : SentAs[g] # f
    BY <1>1, <1>2, <1>4
  <2>2. QED
    BY <1>2, <1>3, <1>5, <2>1 DEF Loop
<1>9. InOrder(s)'
  <2> SUFFICES ASSUME open[s], spc'[s] = "upload", Alone(s), f \notin spoilt'[d]
               PROVE  \E g \in Sources(f) : /\ Begins(g, body'[d][f], n + 1)
                                            /\ cpc[s] = "upblk" => g = sel[s]
    BY <1>3, <1>5 DEF InOrder, Begins, Sources, Dir
  <2>1. StorePacket(s, Block(sel[s], n)) /\ cpc[s] = "upblk"
    BY NextPacket
  <2>2. UNCHANGED spoilt /\ body' = [body EXCEPT ![d][f] = Put(c, n + 1, Block(sel[s], n))]
    BY <1>1, <1>6, <2>1
  <2>3. body'[d][f] = Put(c, n + 1, Block(sel[s], n))
    BY <1>1, <1>2, <2>2
  <2>4. sel[s] \in Sources(f) /\ Begins(sel[s], c, n)
    BY <1>1, <2>1, <2>2 DEF InOrder
  <2>5. Begins(sel[s], Put(c, n + 1, Block(sel[s], n)), n + 1)
    BY <1>1, <1>7, <2>4, PutBegins
  <2>6. QED
    BY <2>3, <2>4, <2>5
<1>10. Held(s)'
  <2> SUFFICES ASSUME Alone(s), NEW g \in acked[s], BlocksOf[g] > 0
               PROVE  /\ SentAs[g] \in Folder(s)
                      /\ SentAs[g] \notin spoilt'[d] => Begins(g, body'[d][SentAs[g]], BlocksOf[g])
    BY <1>3, <1>5 DEF Held, Begins, Dir
  <2>1. /\ SentAs[g] \in Folder(s) /\ SentAs[g] \in FileName
        /\ SentAs[g] \notin spoilt[d] => Begins(g, body[d][SentAs[g]], BlocksOf[g])
    BY <1>1, ChannelAssumption DEF Held
  <2>2. CASE SentAs[g] # f
    <3>1. body'[d][SentAs[g]] = body[d][SentAs[g]]
      BY <1>1, <1>2, <1>6, <2>1, <2>2
    <3>2. spoilt[d] \subseteq spoilt'[d]
      BY <1>1, <1>6
    <3>3. QED
      BY <2>1, <3>1, <3>2
  <2>3. CASE SentAs[g] = f
    <3>1. n = BlocksOf[g]
      BY <1>2, <2>3
    <3>2. SUFFICES ASSUME f \notin spoilt'[d] PROVE Begins(g, body'[d][f], n)
      BY <2>1, <2>3, <3>1
    <3>3. UNCHANGED spoilt /\ body' = [body EXCEPT ![d][f] = Put(c, n + 1, x)]
      BY <1>1, <1>6, <3>2
    <3>4. body'[d][f] = Put(c, n + 1, x) /\ n + 1 > n /\ n + 1 \in Nat
      BY <1>1, <1>2, <3>3
    <3>5. Begins(g, c, n)
      BY <2>1, <2>3, <3>1, <3>2, <3>3
    <3>6. Begins(g, Put(c, n + 1, x), n)
      BY <1>1, <1>7, <3>4, <3>5, PutBegins
    <3>7. QED
      BY <3>4, <3>6
  <2>4. QED
    BY <2>2, <2>3
<1>11. QED
  BY <1>8, <1>9, <1>10

(* A file that is emptied is not one that counts as confirmed.             *)
LEMMA EmptiesHeld ==
  ASSUME UInv, NEW s \in Session, UNCHANGED acked, NEW f \in Unconfirmed(s), Empties(s, f)
  PROVE  Held(s)'
<1> DEFINE d == Dir(s)
<1>1. /\ Held(s) /\ d \in Directory /\ held \in [Directory -> SUBSET FileName]
      /\ body \in [Directory -> [FileName -> Seq(Chunk)]] /\ acked[s] \in SUBSET FileName
      /\ spoilt \in [Directory -> SUBSET FileName]
  BY DirFacts DEF UInv, PInv, Upload, IInv, TypeOK, ServerTypeOK, ClientTypeOK
<1> SUFFICES ASSUME Alone(s), NEW g \in acked[s], BlocksOf[g] > 0
             PROVE  /\ SentAs[g] \in held'[d]
                    /\ SentAs[g] \notin spoilt'[d] => Begins(g, body'[d][SentAs[g]], BlocksOf[g])
  BY DEF Held, Begins, Alone, Folder, Dir
<1>2. /\ SentAs[g] \in held[d] /\ SentAs[g] \in FileName /\ SentAs[g] # f
      /\ SentAs[g] \notin spoilt[d] => Begins(g, body[d][SentAs[g]], BlocksOf[g])
  BY <1>1, ChannelAssumption DEF Held, Folder, Unconfirmed
<1>3. SentAs[g] \in held'[d]
  BY <1>1, <1>2 DEF Empties
<1>4. body'[d][SentAs[g]] = body[d][SentAs[g]]
  BY <1>1, <1>2 DEF Empties, Unconfirmed
<1>5. SentAs[g] \notin spoilt'[d] => SentAs[g] \notin spoilt[d]
  BY <1>1, <1>2 DEF Empties
<1>6. QED
  BY <1>2, <1>3, <1>4, <1>5

LEMMA BegunUpload ==
  ASSUME UInv, NEW s \in Session, ServerStep(s), UNCHANGED clientVars, Begun(s)
  PROVE  Loop(s)' /\ InOrder(s)' /\ Held(s)'
<1> DEFINE m == Head(toSrv[s])
           d == Dir(s)
<1>1. /\ m.name \in FileName /\ m.op = "upload" /\ m.num \in Nat /\ Proper(s, m)
      /\ d \in Directory
  BY RequestRead DEF Begun
<1>2. m.name \in Unconfirmed(s) /\ \E g \in Sources(m.name) : m.num = BlocksOf[g]
  BY <1>1 DEF Proper, Unconfirmed
<1>3. Empties(s, m.name) /\ UNCHANGED acked
  BY DEF Begun, Emptied, Empties, clientVars
<1>4. Held(s)'
  BY <1>2, <1>3, EmptiesHeld
<1>5. m.name \in held'[d] /\ body'[d][m.name] = <<>>
  BY <1>1 DEF Begun, Emptied, UInv, PInv, IInv, TypeOK, ServerTypeOK
<1>6. filename'[s] = m.name /\ numblock'[s] = m.num /\ packNum'[s] = 0 /\ linked'[s]
  BY DEF Begun
<1>7. Loop(s)'
  BY <1>1, <1>2, <1>3, <1>5, <1>6 DEF Loop, Folder, Dir, Unconfirmed
<1>8. open'[s] => cpc'[s] # "upblk"
  <2>1. SUFFICES ASSUME open[s], cpc[s] = "upblk" PROVE FALSE
    BY DEF Begun, Received, clientVars
  <2>2. spc[s] = "main" /\ toSrv[s] # <<>> /\ m.op = "upload"
    BY DEF Begun, Received
  <2>3. InUpBlock(s)
    BY <2>1 DEF UInv, PInv, Sync, Phase, InCreate, InStranded, InIdle, InList, InDelete,
                InDownload, InUpRequest, InUpBlock
  <2>4. toSrv[s] = << Msg("data", sel[s], blockNo[s]) >>
    BY <2>2, <2>3 DEF InUpBlock, OwnLoop
  <2>5. m.op = "data"
    BY <2>4 DEF Msg
  <2>6. QED
    BY <2>2, <2>5
<1>9. \A g : Begins(g, <<>>, 0)
  BY DEF Begins
<1>10. InOrder(s)'
  BY <1>2, <1>5, <1>6, <1>8, <1>9 DEF InOrder, Begins, Dir, Sources
<1>11. QED
  BY <1>4, <1>7, <1>10

LEMMA ServeUpload ==
  ASSUME UInv, NEW s \in Session, ServerStep(s), UNCHANGED clientVars
  PROVE  Upload(s)'
<1>1. Queued(s)' /\ Pending(s)' /\ Deleted(s)'
  BY ServeQueued, ServeDeleted
<1>2. Loop(s)' /\ InOrder(s)' /\ Held(s)'
  <2>1. CASE Calm(s)
    BY <2>1 DEF Calm, Loop, InOrder, Held, Begins, Alone, Folder, Dir, UInv, Upload, clientVars
  <2>2. CASE spc[s] # "upload" /\ spc'[s] # "upload" /\ \E f \in Unconfirmed(s) : Empties(s, f)
    BY <2>2, EmptiesHeld DEF Loop, InOrder, clientVars
  <2>3. CASE spc[s] = "upload" /\ \E x : StorePacket(s, x)
    BY <2>3, StoreUpload
  <2>4. CASE Begun(s)
    BY <2>4, BegunUpload
  <2>5. QED
    BY <2>1, <2>2, <2>3, <2>4, Shapes
<1>3. QED
  BY <1>1, <1>2 DEF Upload

-----------------------------------------------------------------------------
(* A client acts, reads or gives up.                                       *)

(* What a client that is there has sent.                                   *)
LEMMA OpenQueued ==
  ASSUME TypeOK', NEW s \in Session, Phase(s)', Pending(s)'
  PROVE  Queued(s)'
<1> DEFINE Fine(m) ==
      /\ m.op = "upload" => \E g \in Sources(m.name) : m.num = BlocksOf[g]
      /\ m.op \in {"upload", "delete"} => \A g \in acked'[s] : SentAs[g] # m.name
      /\ m.op = "data" => toSrv'[s] = << m >> /\ (spc'[s] = "upload" => filename'[s] = SentAs[m.name])
<1>1. toSrv'[s] = <<>> \/ \E m : Fine(m) /\ toSrv'[s] \in {<< m >>, << ErrorMsg, m >>}
  <2>1. ASSUME NEW m, Unanswered(s, m)', Fine(m)
        PROVE  toSrv'[s] = <<>> \/ \E mm : Fine(mm) /\ toSrv'[s] \in {<< mm >>, << ErrorMsg, mm >>}
    BY <2>1 DEF Unanswered
  <2> DEFINE create == Msg("create", UserOf[s], 0)
             list   == Msg("list", UserOf[s], 0)
             delete == Msg("delete", SentAs[sel'[s]], 0)
             down   == Msg("download", SentAs[sel'[s]], 0)
             up     == Msg("upload", SentAs[sel'[s]], BlocksOf[sel'[s]])
             data   == Msg("data", sel'[s], blockNo'[s])
  <2>2. Fine(create) /\ Fine(list) /\ Fine(down) /\ Fine(ErrorMsg)
    BY DEF Msg, ErrorMsg, Proper
  <2>3. CASE InCreate(s)'
    BY <2>2, <2>3 DEF InCreate
  <2>4. CASE InIdle(s)' \/ InStranded(s)'
    BY <2>2, <2>4 DEF InIdle, InStranded
  <2>5. CASE InList(s)'
    BY <2>1, <2>2, <2>5 DEF InList
  <2>6. CASE InDelete(s)'
    <3>1. Fine(delete)
      BY <2>6 DEF InDelete, Pending, Msg, Proper
    <3>2. QED
      BY <2>1, <2>6, <3>1 DEF InDelete
  <2>7. CASE InDownload(s)'
    BY <2>1, <2>2, <2>7 DEF InDownload
  <2>8. CASE InUpRequest(s)'
    <3>1. Fine(up)
      <4>1. sel'[s] \in Sources(up.name) /\ up.num = BlocksOf[sel'[s]] /\ up.op = "upload"
        BY <2>8 DEF InUpRequest, TypeOK, ClientTypeOK, Msg, Sources
      <4>2. \A g \in acked'[s] : SentAs[g] # up.name
        BY <2>8 DEF InUpRequest, Pending, Msg
      <4> HIDE DEF up
      <4>3. QED
        BY <4>1, <4>2
    <3>2. QED
      BY <2>1, <2>8, <3>1 DEF InUpRequest
  <2>9. CASE InUpBlock(s)'
    <3>1. toSrv'[s] = <<>> \/ (toSrv'[s] = << data >> /\ (spc'[s] = "upload" => OwnLoop(s)'))
      BY <2>9 DEF InUpBlock
    <3>2. toSrv'[s] = << data >> /\ (spc'[s] = "upload" => OwnLoop(s)') => Fine(data)
      BY DEF OwnLoop, Msg, Proper
    <3>3. QED
      BY <3>1, <3>2
  <2>10. QED
    BY <2>3, <2>4, <2>5, <2>6, <2>7, <2>8, <2>9 DEF Phase
<1>2. CASE toSrv'[s] = <<>>
  <2>1. Len(<<>>) = 0
    OBVIOUS
  <2>2. 1..Len(toSrv'[s]) = {}
    BY <1>2, <2>1
  <2>3. QED
    BY <2>2 DEF Queued
<1>3. ASSUME NEW m, Fine(m), toSrv'[s] = << m >> PROVE Queued(s)'
  <2>1. Len(<< m >>) = 1 /\ << m >>[1] = m
    OBVIOUS
  <2>2. Len(toSrv'[s]) = 1 /\ \A i \in 1..Len(toSrv'[s]) : toSrv'[s][i] = m
    BY <1>3, <2>1
  <2>3. \A i \in 1..Len(toSrv'[s]) : Proper(s, toSrv[s][i])'
    BY <1>3, <2>2 DEF Proper
  <2>4. QED
    BY <2>2, <2>3 DEF Queued
<1>4. ASSUME NEW m, Fine(m), toSrv'[s] = << ErrorMsg, m >> PROVE Queued(s)'
  <2>1. Len(<< ErrorMsg, m >>) = 2 /\ << ErrorMsg, m >>[1] = ErrorMsg /\ << ErrorMsg, m >>[2] = m
        /\ Len(<< m >>) = 1
    OBVIOUS
  <2>2. \A i \in 1..Len(toSrv'[s]) : toSrv'[s][i] \in {ErrorMsg, m}
    BY <1>4, <2>1
  <2>3. m.op # "data" /\ ErrorMsg.op = "error"
    <3>1. << ErrorMsg, m >> # << m >>
      BY <2>1
    <3>2. QED
      BY <1>4, <3>1 DEF ErrorMsg, Msg
  <2>4. Proper(s, ErrorMsg)'
    BY <2>3 DEF Proper
  <2>5. \A i \in 1..Len(toSrv'[s]) : Proper(s, toSrv[s][i])' /\ toSrv'[s][i].op # "data"
    BY <1>4, <2>2, <2>3, <2>4 DEF Proper
  <2>6. QED
    BY <2>5 DEF Queued
<1>5. QED
  BY <1>1, <1>2, <1>3, <1>4

(* A client that is gone leaves the beginning of what it has sent.         *)
LEMMA CloseQueued ==
  ASSUME UInv, NEW s \in Session, UNCHANGED <<serverVars, acked, sel>>,
         \/ Close(s, toSrv[s])
         \/ cpc[s] = "idle" /\ open[s] /\ Close(s, Append(toSrv[s], Msg("exit", NoName, 0)))
  PROVE  Queued(s)' /\ Pending(s)' /\ Deleted(s)'
<1> DEFINE exit == Msg("exit", NoName, 0)
<1>1. /\ TypeOK /\ Queued(s) /\ Sync(s) /\ cpc \in [Session -> Waiting \cup {"new", "idle", "stranded", "closed"}]
      /\ toSrv[s] \in Seq(Message) /\ toSrv \in [Session -> Seq(Message)]
  BY DEF UInv, PInv, IInv, Upload, TypeOK, ClientTypeOK
<1>2. cpc'[s] = "closed"
  BY <1>1 DEF Close, Goto
<1>3. Pending(s)' /\ Deleted(s)'
  BY <1>2 DEF Pending, Deleted
<1>4. ASSUME NEW sent \in Seq(Message), Close(s, sent)
      PROVE  /\ Len(toSrv'[s]) <= Len(sent) /\ Len(toSrv'[s]) \in Nat
             /\ \A i \in 1..Len(toSrv'[s]) : i \in 1..Len(sent) /\ toSrv'[s][i] = sent[i]
  <2>1. PICK k \in 0..Len(sent) : toSrv' = [toSrv EXCEPT ![s] = SubSeq(sent, 1, k)]
    BY <1>4 DEF Close
  <2>2. toSrv'[s] = SubSeq(sent, 1, k)
    BY <1>1, <2>1
  <2>3. Len(SubSeq(sent, 1, k)) = k /\ \A i \in 1..k : SubSeq(sent, 1, k)[i] = sent[i]
    <3>1. \A i \in 1..k : sent[i] \in Message
      OBVIOUS
    <3>2. QED
      BY <1>4, <3>1, SubSeqProperties
  <2>4. QED
    BY <2>2, <2>3
<1>5. CASE Close(s, toSrv[s])
  <2>1. /\ Len(toSrv'[s]) <= Len(toSrv[s])
        /\ \A i \in 1..Len(toSrv'[s]) : i \in 1..Len(toSrv[s]) /\ toSrv'[s][i] = toSrv[s][i]
    BY <1>1, <1>4, <1>5
  <2>2. Len(toSrv'[s]) \in Nat /\ Len(toSrv[s]) \in Nat
    BY <1>1, <1>4, <1>5
  <2>3. ASSUME NEW i \in 1..Len(toSrv'[s]), Len(toSrv[s]) = 1 PROVE Len(toSrv'[s]) = 1
    <3>1. \A k, n \in Nat : (n <= k /\ k = 1) => \A j \in 1..n : n = 1
      OBVIOUS
    <3>2. QED
      BY <2>1, <2>2, <2>3, <3>1
  <2>4. \A i \in 1..Len(toSrv'[s]) : Proper(s, toSrv[s][i])'
    BY <1>1, <2>1 DEF Queued, Proper, Sources, serverVars
  <2>6. Queued(s)'
    BY <1>1, <2>1, <2>3, <2>4 DEF Queued
  <2>7. QED
    BY <1>3, <2>6
<1>6. CASE cpc[s] = "idle" /\ open[s] /\ Close(s, Append(toSrv[s], exit))
  <2> DEFINE sent == Append(toSrv[s], exit)
  <2>1. toSrv[s] = <<>> \/ toSrv[s] = << ErrorMsg >>
    BY <1>1, <1>6
    DEF Sync, Phase, InCreate, InStranded, InIdle, InList, InDelete, InDownload, InUpRequest, InUpBlock
  <2>2. exit \in Message
    BY DEF Message, Msg
  <2>3. /\ sent \in Seq(Message) /\ Len(sent) = Len(toSrv[s]) + 1
        /\ sent[Len(toSrv[s]) + 1] = exit
        /\ \A i \in 1..Len(toSrv[s]) : sent[i] = toSrv[s][i]
    BY <1>1, <2>2, AppendProperties
  <2>4. \A i \in 1..Len(toSrv[s]) : toSrv[s][i] = ErrorMsg
    <3>1. Len(<<>>) = 0 /\ Len(<< ErrorMsg >>) = 1 /\ << ErrorMsg >>[1] = ErrorMsg
      OBVIOUS
    <3>2. QED
      BY <2>1, <3>1
  <2>5. \A i \in 1..Len(sent) : sent[i] \in {ErrorMsg, exit}
    BY <1>1, <2>3, <2>4
  <2>6. Close(s, sent)
    BY <1>6
  <2> HIDE DEF sent
  <2>7. \A i \in 1..Len(toSrv'[s]) : toSrv'[s][i] \in {ErrorMsg, exit}
    BY <1>4, <2>3, <2>5, <2>6
  <2>8. ErrorMsg.op = "error" /\ exit.op = "exit"
    BY DEF ErrorMsg, Msg
  <2>9. \A i \in 1..Len(toSrv'[s]) : Proper(s, toSrv[s][i])' /\ toSrv'[s][i].op # "data"
    BY <2>7, <2>8 DEF Proper
  <2>10. QED
    BY <1>3, <2>9 DEF Queued
<1>7. QED
  BY <1>3, <1>5, <1>6

(* No file is confirmed by the step.                                       *)
LEMMA NoMoreAcked ==
  ASSUME UInv, NEW s \in Session, UNCHANGED serverVars, acked'[s] \subseteq acked[s]
  PROVE  Loop(s)' /\ Held(s)'
<1>1. Loop(s) /\ Held(s) /\ (Alone(s)' <=> Alone(s))
  BY DEF UInv, Upload, Alone, Dir
<1>2. Loop(s)'
  BY <1>1 DEF Loop, Folder, Dir, serverVars
<1>3. Held(s)'
  BY <1>1 DEF Held, Begins, Folder, Dir, serverVars
<1>4. QED
  BY <1>2, <1>3

(* No block is sent by the step.                                           *)
LEMMA NoMoreBlocks ==
  ASSUME UInv, NEW s \in Session, UNCHANGED serverVars,
         open'[s] => open[s] \/ spc[s] # "upload",
         cpc'[s] # "upblk" \/ (cpc'[s] = cpc[s] /\ sel'[s] = sel[s])
  PROVE  InOrder(s)'
<1>1. InOrder(s) /\ (Alone(s)' <=> Alone(s))
  BY DEF UInv, Upload, Alone, Dir
<1>2. QED
  BY <1>1 DEF InOrder, Begins, Dir, Sources, serverVars

(* The last block of an upload is confirmed, or a request for no blocks.   *)
LEMMA Confirmed ==
  ASSUME UInv, NEW s \in Session, UNCHANGED serverVars, UpConfirm(s) \/ UpAck(s)
  PROVE  Loop(s)' /\ InOrder(s)' /\ Held(s)' /\ Pending(s)' /\ Deleted(s)'
<1> DEFINE f == sel[s]
<1>1. /\ TypeOK /\ Sync(s) /\ Loop(s) /\ InOrder(s) /\ Held(s) /\ Pending(s)
      /\ acked \in [Session -> SUBSET FileName]
      /\ body \in [Directory -> [FileName -> Seq(Chunk)]]
      /\ cpc \in [Session -> Waiting \cup {"new", "idle", "stranded", "closed"}]
  BY DEF UInv, PInv, IInv, Upload, TypeOK, ServerTypeOK, ClientTypeOK
<1>2. /\ UNCHANGED <<open, sel>> /\ toCli[s] # <<>> /\ cpc[s] \in {"upreq", "upblk"}
      /\ f \in FileName /\ BlocksOf[f] \in Nat /\ blockNo[s] \in Nat
  BY <1>1, ChannelAssumption DEF UpConfirm, UpAck, TypeOK, ClientTypeOK
<1>3. PICK b \in Nat :
        /\ NextBlock(s, b)
        /\ \/ UpConfirm(s) /\ b = 0 /\ cpc[s] = "upreq"
           \/ UpAck(s) /\ b = blockNo[s] + 1 /\ cpc[s] = "upblk"
  BY <1>2 DEF UpConfirm, UpAck
<1>4. CASE MoreBlocks(s, b)
  <2>1. UNCHANGED acked /\ cpc'[s] = "upblk"
    BY <1>1, <1>3, <1>4 DEF NextBlock, Goto
  <2>2. Pending(s)' /\ Deleted(s)'
    BY <1>1, <1>2, <2>1 DEF Pending, Deleted
  <2>3. CASE cpc[s] = "upblk"
    BY <1>2, <2>1, <2>2, <2>3, NoMoreAcked, NoMoreBlocks
  <2>4. CASE cpc[s] = "upreq"
    <3>1. InUpRequest(s)
      BY <1>1, <2>4
      DEF Sync, Phase, InCreate, InStranded, InIdle, InList, InDelete, InDownload, InUpRequest,
          InUpBlock
    <3>2. spc[s] = "upload" => OwnLoop(s) /\ packNum[s] = 0
      BY <1>2, <3>1 DEF InUpRequest, Unanswered
    <3>3. spc[s] = "upload" => f \in Sources(filename[s]) /\ filename[s] \in FileName
      BY <1>1, <1>2, <3>2 DEF OwnLoop, Sources, Loop
    <3>4. \A c \in Seq(Chunk) : \A g : Begins(g, c, 0)
      BY DEF Begins
    <3>5. spc[s] = "upload" => Begins(f, body[Dir(s)][filename[s]], packNum[s])
      BY <1>1, <3>2, <3>3, <3>4, DirFacts
    <3>6. InOrder(s)'
      BY <1>2, <3>3, <3>5 DEF InOrder, Begins, Sources, Dir, serverVars
    <3>7. QED
      BY <2>1, <2>2, <3>6, NoMoreAcked
  <2>5. QED
    BY <1>2, <2>3, <2>4
<1>5. CASE ~ MoreBlocks(s, b)
  <2>1. cpc'[s] = "idle" /\ acked'[s] = acked[s] \cup {f}
    BY <1>1, <1>3, <1>5 DEF NextBlock, Goto
  <2>2. Pending(s)' /\ Deleted(s)' /\ InOrder(s)'
    BY <1>2, <2>1, NoMoreBlocks DEF Pending, Deleted
  <2>3. \/ BlocksOf[f] = 0 /\ cpc[s] = "upreq"
        \/ blockNo[s] + 1 >= BlocksOf[f] /\ cpc[s] = "upblk"
    BY <1>2, <1>3, <1>5 DEF MoreBlocks
  <2>4. CASE BlocksOf[f] = 0 /\ cpc[s] = "upreq"
    <3>1. spc[s] # "upload"
      BY <1>1, <1>2, <2>4
      DEF Sync, Phase, InCreate, InStranded, InIdle, InList, InDelete, InDownload, InUpRequest,
          InUpBlock, Unanswered
    <3>2. Loop(s)'
      BY <3>1 DEF Loop, serverVars
    <3>3. Held(s)'
      <4>1. \A g \in acked'[s] : BlocksOf[g] > 0 => g \in acked[s]
        BY <1>2, <2>1, <2>4
      <4>2. QED
        BY <1>1, <4>1 DEF Held, Begins, Folder, Alone, Dir, serverVars
    <3>4. QED
      BY <2>2, <3>2, <3>3
  <2>5. CASE blockNo[s] + 1 >= BlocksOf[f] /\ cpc[s] = "upblk"
    <3>1. open[s] /\ InUpBlock(s)
      BY <1>1, <2>5
      DEF Sync, Phase, InCreate, InStranded, InIdle, InList, InDelete, InDownload, InUpRequest,
          InUpBlock
    <3>2. OwnLoop(s) /\ packNum[s] = blockNo[s] + 1 /\ blockNo[s] < BlocksOf[f]
      BY <1>2, <3>1 DEF InUpBlock
    <3>3. spc[s] = "upload" /\ filename[s] = SentAs[f] /\ packNum[s] = BlocksOf[f]
          /\ numblock[s] = BlocksOf[f]
      BY <1>2, <2>5, <3>2 DEF OwnLoop
    <3>4. Alone(s) => /\ SentAs[f] \in Folder(s)
                      /\ SentAs[f] \notin spoilt[Dir(s)]
                           => Begins(f, body[Dir(s)][SentAs[f]], BlocksOf[f])
      BY <1>1, <2>5, <3>1, <3>3 DEF Loop, InOrder
    <3>5. Loop(s)'
      BY <1>1, <2>1, <3>3 DEF Loop, Folder, Alone, Dir, serverVars
    <3>6. Held(s)'
      BY <1>1, <2>1, <3>4 DEF Held, Begins, Folder, Alone, Dir, serverVars
    <3>7. QED
      BY <2>2, <3>5, <3>6
  <2>6. QED
    BY <2>3, <2>4, <2>5
<1>6. QED
  BY <1>4, <1>5

(* A client that stays, and for which no file is confirmed.                *)
LEMMA TalkUpload ==
  ASSUME UInv, TypeOK', NEW s \in Session, Sync(s)', UNCHANGED serverVars,
         acked'[s] \subseteq acked[s], open'[s], open[s] \/ spc[s] # "upload", cpc'[s] # "upblk",
         Pending(s)', Deleted(s)'
  PROVE  Upload(s)'
<1>1. Phase(s)'
  BY DEF Sync
<1>2. Queued(s)'
  BY <1>1, OpenQueued
<1>3. Loop(s)' /\ Held(s)'
  BY NoMoreAcked
<1>4. InOrder(s)'
  BY NoMoreBlocks
<1>5. QED
  BY <1>2, <1>3, <1>4 DEF Upload

LEMMA ClosedUpload ==
  ASSUME UInv, NEW s \in Session, UNCHANGED <<serverVars, acked, sel>>,
         \/ Close(s, toSrv[s])
         \/ cpc[s] = "idle" /\ open[s] /\ Close(s, Append(toSrv[s], Msg("exit", NoName, 0)))
  PROVE  Upload(s)'
<1>1. open \in [Session -> BOOLEAN] /\ cpc \in [Session -> Waiting \cup {"new", "idle", "stranded", "closed"}]
  BY DEF UInv, PInv, IInv, TypeOK, ClientTypeOK
<1>2. Queued(s)' /\ Pending(s)' /\ Deleted(s)'
  BY CloseQueued
<1>3. ~ open'[s] /\ cpc'[s] = "closed"
  BY <1>1 DEF Close, Goto
<1>4. Loop(s)' /\ InOrder(s)' /\ Held(s)'
  BY <1>3, NoMoreAcked, NoMoreBlocks
<1>5. QED
  BY <1>2, <1>4 DEF Upload

LEMMA CatchUpload ==
  ASSUME UInv, NEW s \in Session, TypeOK', Sync(s)', UNCHANGED <<serverVars, acked, sel>>, Catch(s),
         cpc[s] \in {"create", "list"}
  PROVE  Upload(s)'
<1>1. Sync(s) /\ cpc \in [Session -> Waiting \cup {"new", "idle", "stranded", "closed"}]
  BY DEF UInv, PInv, IInv, TypeOK, ClientTypeOK
<1>2. CASE Close(s, toSrv[s])
  BY <1>2, ClosedUpload
<1>3. CASE Goto(s, IF ops[s] = 0 THEN "stranded" ELSE "idle") /\ UNCHANGED open
  <2>1. cpc'[s] \in {"stranded", "idle"}
    BY <1>1, <1>3 DEF Goto
  <2>2. Pending(s)' /\ Deleted(s)'
    BY <2>1 DEF Pending, Deleted
  <2>3. open[s] /\ open'[s]
    BY <1>1, <1>3 DEF Sync
  <2>4. QED
    BY <2>1, <2>2, <2>3, TalkUpload
<1>4. QED
  BY <1>2, <1>3 DEF Catch

LEMMA ClosingUpload ==
  ASSUME UInv, NEW s \in Session, TypeOK', Sync(s)', UNCHANGED serverVars,
         UserLogout(s) \/ Crash(s) \/ ExitTimeout(s) \/ ListMisread(s)
  PROVE  Upload(s)'
<1>1. Sync(s)
  BY DEF UInv, PInv
<1>2. UNCHANGED <<acked, sel>>
  BY DEF UserLogout, Crash, ExitTimeout, ListMisread
<1>3. CASE UserLogout(s) \/ Crash(s)
  BY <1>1, <1>2, <1>3, ClosedUpload DEF Sync, UserLogout, Crash
<1>4. CASE ExitTimeout(s)
  BY <1>2, <1>4, CatchUpload DEF ExitTimeout
<1>5. CASE ListMisread(s)
  BY <1>2, <1>5, MisreadFacts, CatchUpload DEF UInv
<1>6. QED
  BY <1>3, <1>4, <1>5

LEMMA PressUpload ==
  ASSUME UInv, TypeOK', NEW s \in Session, Sync(s)', UNCHANGED serverVars,
         \/ RefreshListFiles(s)
         \/ \E f \in FileName : UploadFile(s, f) \/ DeleteFile(s, f) \/ DownloadFile(s, f)
  PROVE  Upload(s)'
<1>1. /\ Sync(s) /\ Pending(s) /\ acked \in [Session -> SUBSET FileName]
      /\ sel \in [Session -> FileName \cup {NoName}]
      /\ cpc \in [Session -> Waiting \cup {"new", "idle", "stranded", "closed"}]
  BY DEF UInv, PInv, Upload, IInv, TypeOK, ClientTypeOK
<1>2. cpc[s] = "idle" /\ UNCHANGED <<toCli, open>>
  BY DEF RefreshListFiles, UploadFile, DeleteFile, DownloadFile, Press
<1>3. open[s] /\ toCli[s] = <<>>
  BY <1>1, <1>2 DEF Sync, Phase, InCreate, InStranded, InIdle, InList, InDelete, InDownload, InUpRequest,
                    InUpBlock
<1>4. ~ HasString(s)'
  BY <1>2, <1>3 DEF HasString
<1>5. Deleted(s)'
  BY <1>4 DEF Deleted
<1>6. acked'[s] \subseteq acked[s] /\ Pending(s)' /\ cpc'[s] # "upblk"
  <2>1. CASE RefreshListFiles(s)
    BY <1>1, <2>1 DEF RefreshListFiles, RefreshFiles, Goto, Pending
  <2>2. ASSUME NEW f \in FileName, UploadFile(s, f)
        PROVE  acked'[s] \subseteq acked[s] /\ Pending(s)' /\ cpc'[s] # "upblk"
    BY <1>1, <2>2 DEF UploadFile, Disown, Goto, Pending
  <2>3. ASSUME NEW f \in FileName, DeleteFile(s, f)
        PROVE  acked'[s] \subseteq acked[s] /\ Pending(s)' /\ cpc'[s] # "upblk"
    BY <1>1, <2>3 DEF DeleteFile, Disown, Goto, Pending
  <2>4. ASSUME NEW f \in FileName, DownloadFile(s, f)
        PROVE  acked'[s] \subseteq acked[s] /\ Pending(s)' /\ cpc'[s] # "upblk"
    BY <1>1, <2>4 DEF DownloadFile, Goto, Pending
  <2>5. QED
    BY <2>1, <2>2, <2>3, <2>4
<1>7. QED
  BY <1>2, <1>3, <1>5, <1>6, TalkUpload

LEMMA ReadUpload ==
  ASSUME UInv, TypeOK', NEW s \in Session, Sync(s)', UNCHANGED serverVars,
         \/ CreateFolderDone(s) \/ DelReply(s) \/ ListDone(s)
         \/ UpTimeout(s) \/ ReplyTimeout(s)
  PROVE  Upload(s)'
<1>1. /\ Sync(s)
      /\ cpc \in [Session -> Waiting \cup {"new", "idle", "stranded", "closed"}]
  BY DEF UInv, PInv, IInv, TypeOK, ClientTypeOK
<1>2. UNCHANGED <<open, acked>> /\ cpc[s] \in Waiting /\ cpc'[s] \in {"list", "idle"}
  BY <1>1 DEF CreateFolderDone, DelReply, RefreshFiles, ListDone, UpTimeout, ReplyTimeout, Goto,
              Waiting
<1>3. open[s]
  BY <1>1, <1>2 DEF Sync, Waiting
<1>4. Pending(s)' /\ Deleted(s)'
  BY <1>2 DEF Pending, Deleted
<1>5. QED
  BY <1>2, <1>3, <1>4, TalkUpload

LEMMA InitializeUpload ==
  ASSUME UInv, TypeOK', NEW s \in Session, Sync(s)', UNCHANGED serverVars, Initialize(s)
  PROVE  Upload(s)'
<1>1. IInv /\ open \in [Session -> BOOLEAN]
      /\ cpc \in [Session -> Waiting \cup {"new", "idle", "stranded", "closed"}]
  BY DEF UInv, PInv, IInv, TypeOK, ClientTypeOK
<1>2. cpc[s] = "new" /\ open'[s] /\ cpc'[s] = "create" /\ UNCHANGED acked
  BY <1>1 DEF Initialize, Goto
<1>3. spc[s] = "main"
  BY <1>1, <1>2, FolderKnown
<1>4. Pending(s)' /\ Deleted(s)'
  BY <1>2 DEF Pending, Deleted
<1>5. QED
  BY <1>2, <1>3, <1>4, TalkUpload

LEMMA AckUpload ==
  ASSUME UInv, TypeOK', NEW s \in Session, Sync(s)', UNCHANGED serverVars, UpConfirm(s) \/ UpAck(s)
  PROVE  Upload(s)'
<1>1. Sync(s)
  BY DEF UInv, PInv
<1>2. open[s] /\ UNCHANGED open
  BY <1>1 DEF Sync, UpConfirm, UpAck
<1>3. Phase(s)'
  BY <1>2 DEF Sync
<1>4. QED
  BY <1>3, OpenQueued, Confirmed DEF Upload

LEMMA ClientUpload ==
  ASSUME UInv, PInv', NEW s \in Session, NEW t \in Session, UNCHANGED serverVars,
         UserAct(s) \/ ClientRead(s) \/ ClientTimeout(s)
  PROVE  Upload(t)'
<1>1. TypeOK /\ TypeOK' /\ Upload(t) /\ PInv /\ Sync(s)'
  BY DEF UInv, PInv, IInv
<1>2. CASE t # s
  <2>1. Apart(t) /\ sel'[t] = sel[t] /\ acked'[t] = acked[t]
    BY <1>1, <1>2, ClientLocal, ClientLocalUpload
  <2>2. QED
    BY <1>1, <2>1, UploadKept DEF Apart, serverVars, SameFolder, SameHistory
<1>3. Upload(s)'
  <2>1. CASE UserAct(s)
    BY <1>1, <2>1, InitializeUpload, PressUpload, ClosingUpload DEF UserAct
  <2>2. CASE ClientRead(s)
    BY <1>1, <2>2, ReadUpload, AckUpload, NoDownload, ClosingUpload DEF ClientRead
  <2>3. CASE ClientTimeout(s)
    BY <1>1, <2>3, ReadUpload, ClosingUpload DEF ClientTimeout
  <2>4. QED
    BY <2>1, <2>2, <2>3
<1>4. QED
  BY <1>2, <1>3

-----------------------------------------------------------------------------
LEMMA UploadInitial == Init => UInv
<1> SUFFICES ASSUME Init PROVE UInv
  OBVIOUS
<1>1. ASSUME NEW s \in Session PROVE Upload(s)
  <2>1. /\ toSrv[s] = <<>> /\ cpc[s] = "new" /\ spc[s] = "main" /\ acked[s] = {}
    BY DEF Init, ClientInit, ServerInit
  <2>2. 1..Len(toSrv[s]) = {}
    <3>1. Len(<<>>) = 0
      OBVIOUS
    <3>2. QED
      BY <2>1, <3>1
  <2>3. QED
    BY <2>1, <2>2 DEF Upload, Queued, Pending, Loop, InOrder, Held, Deleted
<1>2. QED
  BY <1>1, PromptInitial DEF UInv

LEMMA UploadStep ==
  ASSUME LateReplies = FALSE
  PROVE  UInv /\ [Next]_vars => UInv'
<1> SUFFICES ASSUME UInv, [Next]_vars PROVE UInv'
  OBVIOUS
<1>1. PInv'
  BY PromptStep DEF UInv
<1>2. ASSUME NEW t \in Session PROVE Upload(t)'
  <2>1. Upload(t) /\ TypeOK
    BY DEF UInv, PInv, IInv
  <2>2. CASE UNCHANGED vars
    BY <2>1, <2>2, UploadKept DEF vars, channelVars, serverVars, clientVars, SameFolder, SameHistory
  <2>3. ASSUME NEW s \in Session, Serve(s) PROVE Upload(t)'
    BY <2>3, ServeUpload, OthersServed DEF Serve
  <2>4. ASSUME NEW s \in Session, Act(s) \/ Read(s) \/ Timeout(s) PROVE Upload(t)'
    BY <1>1, <2>4, ClientUpload DEF Act, Read, Timeout
  <2>5. QED
    BY <2>2, <2>3, <2>4 DEF Next
<1>3. QED
  BY <1>1, <1>2 DEF UInv

LEMMA UploadInvariance ==
  ASSUME LateReplies = FALSE
  PROVE  Spec => []UInv
<1>1. Init => UInv
  BY UploadInitial
<1>2. UInv /\ [Next]_vars => UInv'
  BY UploadStep
<1>3. QED
  BY <1>1, <1>2, PTL DEF Spec

(* When no answer is late, the loop of an upload stores the blocks of the  *)
(* announced file, from the first, in order, as long as the client is      *)
(* there and no write fails (upload_mess, which looks at neither the code  *)
(* nor the number of a packet).                                            *)
THEOREM StoredInOrder ==
  ASSUME LateReplies = FALSE
  PROVE  Spec => []UploadStoredInOrder
<1>1. UInv => UploadStoredInOrder
  <2> SUFFICES ASSUME UInv, NEW s \in Session, open[s], spc[s] = "upload", Alone(s),
                      filename[s] \notin spoilt[Dir(s)]
               PROVE  LET n == IF packNum[s] < numblock[s] THEN packNum[s] ELSE numblock[s]
                          c == body[Dir(s)][filename[s]] IN
                        /\ Len(c) >= n
                        /\ \E g \in Sources(filename[s]) : \A i \in 1..n : c[i] = Block(g, i - 1)
    BY DEF UploadStoredInOrder
  <2>1. packNum[s] \in Nat /\ numblock[s] \in Nat /\ packNum[s] <= numblock[s]
    BY DEF UInv, PInv, IInv, TypeOK, ServerTypeOK, Upload, Loop
  <2>2. \E g \in Sources(filename[s]) : Begins(g, body[Dir(s)][filename[s]], packNum[s])
    BY DEF UInv, Upload, InOrder
  <2>3. (IF packNum[s] < numblock[s] THEN packNum[s] ELSE numblock[s]) = packNum[s]
    BY <2>1
  <2>4. QED
    BY <2>2, <2>3 DEF Begins
<1>2. QED
  BY <1>1, UploadInvariance, PTL

LEMMA FullFacts ==
  ASSUME NEW f \in FileName
  PROVE  /\ Full(f) \in Seq(Chunk) /\ Len(Full(f)) = BlocksOf[f] /\ BlocksOf[f] \in Nat
         /\ \A i \in 1..BlocksOf[f] : Full(f)[i] = Block(f, i - 1)
<1> DEFINE n == BlocksOf[f]
<1>1. n \in Nat
  BY ChannelAssumption
<1>2. \A i \in 1..n : Block(f, i - 1) \in Chunk
  BY <1>1 DEF Block, Chunk
<1>3. Full(f) \in [1..n -> Chunk]
  BY <1>2 DEF Full
<1>4. Full(f) \in Seq(Chunk)
  BY <1>1, <1>3, SeqDef
<1>5. DOMAIN Full(f) = 1..n
  BY <1>3
<1>6. QED
  BY <1>1, <1>4, <1>5, LenProperties DEF Full

(* When no answer is late, a file whose every block was confirmed is held, *)
(* and unless a write failed or the process was killed before fclose it    *)
(* begins with all its blocks in order, whatever its session has done      *)
(* since (uploadFile reports success on the last confirmation).            *)
THEOREM ConfirmedIsKept ==
  ASSUME LateReplies = FALSE
  PROVE  Spec => []AckedBlocksKept
<1>1. UInv => AckedBlocksKept
  <2> SUFFICES ASSUME UInv, NEW s \in Session, Alone(s), NEW f \in acked[s], BlocksOf[f] > 0
               PROVE  LET c == body[Dir(s)][SentAs[f]] IN
                        /\ SentAs[f] \in Folder(s)
                        /\ SentAs[f] \notin spoilt[Dir(s)] =>
                             /\ Len(c) >= BlocksOf[f]
                             /\ SubSeq(c, 1, BlocksOf[f]) = Full(f)
    BY DEF AckedBlocksKept
  <2> DEFINE c == body[Dir(s)][SentAs[f]]
             n == BlocksOf[f]
             a == SubSeq(c, 1, n)
  <2>1. SentAs[f] \in Folder(s) /\ (SentAs[f] \notin spoilt[Dir(s)] => Begins(f, c, n))
    BY DEF UInv, Upload, Held
  <2> SUFFICES ASSUME SentAs[f] \notin spoilt[Dir(s)] PROVE Len(c) >= n /\ a = Full(f)
    BY <2>1
  <2>2. f \in FileName /\ SentAs[f] \in FileName
    BY ChannelAssumption DEF UInv, PInv, IInv, TypeOK, ClientTypeOK
  <2>3. c \in Seq(Chunk) /\ n \in Nat
    BY <2>2, DirFacts, FullFacts DEF UInv, PInv, IInv, TypeOK, ServerTypeOK
  <2>4. Len(c) \in Nat /\ Len(c) >= n /\ \A i \in 1..n : c[i] = Block(f, i - 1)
    BY <2>1, <2>3 DEF Begins
  <2>5. \A i \in 1..n : c[i] \in Chunk
    BY <2>3, <2>4
  <2>6. a \in Seq(Chunk) /\ Len(a) = n /\ \A i \in 1..n : a[i] = c[i]
    BY <2>3, <2>5, SubSeqProperties
  <2>7. Full(f) \in Seq(Chunk) /\ Len(Full(f)) = n /\ \A i \in 1..n : Full(f)[i] = Block(f, i - 1)
    BY <2>2, FullFacts
  <2> HIDE DEF a
  <2>8. a = Full(f)
    BY <2>4, <2>6, <2>7, SeqEqual
  <2>9. QED
    BY <2>4, <2>8
<1>2. QED
  BY <1>1, UploadInvariance, PTL

(* When no answer is late, deleteFile returns and the list is fetched      *)
(* again only after the file is gone, or remove has failed on that very    *)
(* file (case DELETE, whose answer never depends on remove).               *)
THEOREM DeleteIsConfirmed ==
  ASSUME LateReplies = FALSE
  PROVE  Spec => DeleteConfirmed
<1> DEFINE Answer(s) ==
      Alone(s) /\ cpc[s] = "del" /\ cpc'[s] = "list"
        => SentAs[sel[s]] \notin Folder(s) \/ SentAs[sel[s]] \in stuck[Dir(s)]
<1>1. ASSUME UInv, Next, NEW s \in Session PROVE Answer(s)
  <2> SUFFICES ASSUME Alone(s), cpc[s] = "del", cpc'[s] = "list"
               PROVE  SentAs[sel[s]] \notin Folder(s) \/ SentAs[sel[s]] \in stuck[Dir(s)]
    OBVIOUS
  <2>1. PInv /\ TypeOK /\ Upload(s) /\ cpc \in [Session -> Waiting \cup {"new", "idle", "stranded", "closed"}]
    BY <1>1 DEF UInv, PInv, IInv, TypeOK, ClientTypeOK
  <2>2. PICK t \in Session : Serve(t) \/ Act(t) \/ Read(t) \/ Timeout(t)
    BY <1>1 DEF Next
  <2>3. CASE Serve(t)
    BY <2>3 DEF Serve, clientVars
  <2>4. CASE t # s /\ (Act(t) \/ Read(t) \/ Timeout(t))
    BY <2>1, <2>4, ClientLocal DEF Act, Read, Timeout, Apart
  <2>5. CASE t = s /\ Act(s)
    BY <2>1, <2>5
    DEF Act, UserAct, Initialize, RefreshListFiles, UserLogout, Crash, UploadFile, DeleteFile,
        DownloadFile, Press, Close, Goto
  <2>6. CASE t = s /\ Timeout(s)
    BY <2>1, <2>6
    DEF Timeout, ClientTimeout, ExitTimeout, UpTimeout, ReplyTimeout, Catch, Close, Goto
  <2>7. CASE t = s /\ Read(s)
    <3>1. DelReply(s)
      BY <2>1, <2>7
      DEF Read, ClientRead, CreateFolderDone, ListDone, ListMisread, UpConfirm, UpAck, DlHeader,
          DlBlock
    <3>2. HasString(s)
      BY <3>1 DEF DelReply, TakeString, HasString
    <3>3. QED
      BY <2>1, <3>2 DEF Upload, Deleted
  <2>8. QED
    BY <2>2, <2>3, <2>4, <2>5, <2>6, <2>7
<1>2. UInv /\ [Next]_vars => [\A s \in Session : Answer(s)]_vars
  BY <1>1
<1>3. QED
  BY <1>2, UploadInvariance, PTL DEF Spec, DeleteConfirmed

-----------------------------------------------------------------------------
(* Whose blocks a file holds.                                              *)

Pure(f, c) == \A i \in 1..Len(c) : c[i].file \in Sources(f) \cup {NoName}

LEMMA PureEmpty == \A f : Pure(f, <<>>)
<1>1. Len(<<>>) = 0
  OBVIOUS
<1>2. 1..Len(<<>>) = {}
  BY <1>1
<1>3. QED
  BY <1>2 DEF Pure

LEMMA PurePut ==
  ASSUME NEW c \in Seq(Chunk), NEW f, Pure(f, c), NEW p \in Nat \ {0}, NEW x,
         x.file \in Sources(f) \cup {NoName}
  PROVE  Pure(f, Put(c, p, x))
<1>1. Junk.file = NoName
  BY DEF Junk, Block
<1>2. QED
  BY <1>1, PutFacts DEF Pure

(* So is what a lost write leaves of it.                                   *)
LEMMA PurePart ==
  ASSUME NEW c \in Seq(Chunk), NEW f, Pure(f, c), NEW k \in 0..Len(c)
  PROVE  Pure(f, SubSeq(c, 1, k))
<1>1. \A i \in 1..k : c[i] \in Chunk
  OBVIOUS
<1>2. Len(SubSeq(c, 1, k)) = k /\ \A i \in 1..k : SubSeq(c, 1, k)[i] = c[i]
  BY <1>1, SubSeqProperties
<1>3. \A i \in 1..k : i \in 1..Len(c)
  OBVIOUS
<1>4. QED
  BY <1>2, <1>3 DEF Pure

(* The loop stores a block of its own file, or what is no block at all.    *)
LEMMA PureStore ==
  ASSUME UInv, NoForeignBlock, NEW s \in Session, RecvPacket(s) \/ RecvClosed(s)
  PROVE  NoForeignBlock'
<1> DEFINE d == cdirectory[s]
           f == filename[s]
           n == packNum[s] + 1
<1>1. /\ Queued(s) /\ Loop(s) /\ IInv /\ spc[s] = "upload" /\ packNum[s] \in Nat
      /\ body \in [Directory -> [FileName -> Seq(Chunk)]] /\ toSrv[s] \in Seq(Message)
  BY DEF UInv, PInv, Upload, IInv, TypeOK, ServerTypeOK, RecvPacket, RecvClosed
<1>2. f \in FileName /\ d = Dir(s) /\ d \in Directory
  BY <1>1, FolderKnown, DirFacts DEF Loop
<1>3. PICK x : StorePacket(s, x) /\ x \in Chunk /\ x.file \in Sources(f) \cup {NoName}
  <2>1. Junk.file = NoName /\ Junk \in Chunk
    BY DEF Junk, Block, Chunk
  <2>2. CASE RecvPacket(s)
    <3> DEFINE m == Head(toSrv[s])
    <3>1. StorePacket(s, Payload(s)) /\ toSrv[s] # <<>>
      BY <2>2 DEF RecvPacket
    <3>2. 1 \in 1..Len(toSrv[s]) /\ m = toSrv[s][1] /\ m \in Message
      BY <1>1, <3>1
    <3>3. m.op = "data" => f = SentAs[m.name] /\ m.name \in FileName /\ m.num \in Nat
      BY <1>1, <3>2, MessageParts DEF Queued, Proper
    <3>4. Payload(s).file \in Sources(f) \cup {NoName} /\ Payload(s) \in Chunk
      BY <2>1, <3>3 DEF Payload, Block, Sources, Chunk
    <3>5. QED
      BY <3>1, <3>4
  <2>3. CASE RecvClosed(s)
    BY <2>1, <2>3 DEF RecvClosed
  <2>4. QED
    BY <2>2, <2>3
<1> DEFINE w == Put(body[d][f], n, x)
<1>4. /\ body[d][f] \in Seq(Chunk) /\ n \in Nat \ {0} /\ w \in Seq(Chunk)
      /\ Pure(f, body[d][f])
  <2>1. body[d][f] \in Seq(Chunk) /\ n \in Nat \ {0}
    BY <1>1, <1>2
  <2>2. QED
    BY <1>2, <1>3, <2>1, PutType DEF NoForeignBlock, Pure
<1>5. Pure(f, w)
  BY <1>3, <1>4, PurePut
<1>6. body' = body \/ \E z : Pure(f, z) /\ body' = [body EXCEPT ![d][f] = z]
  <2>1. body' = body \/ Kept(s, w) \/ Lost(s, w)
    BY <1>3 DEF StorePacket
  <2>2. CASE Kept(s, w)
    BY <1>5, <2>2 DEF Kept
  <2>3. CASE Lost(s, w)
    <3>1. PICK k \in 0..Len(w) : body' = [body EXCEPT ![d][f] = SubSeq(w, 1, k)]
      BY <2>3 DEF Lost
    <3> HIDE DEF w
    <3>2. QED
      BY <1>4, <1>5, <3>1, PurePart
  <2>4. QED
    BY <2>1, <2>2, <2>3
<1>7. ASSUME NEW v \in Directory, NEW g \in FileName PROVE Pure(g, body'[v][g])
  <2>1. Pure(g, body[v][g])
    BY DEF NoForeignBlock, Pure
  <2>2. CASE body' = body
    BY <2>1, <2>2
  <2>3. ASSUME NEW z, Pure(f, z), body' = [body EXCEPT ![d][f] = z] PROVE Pure(g, body'[v][g])
    <3> HIDE DEF d, f
    <3>1. CASE v = d /\ g = f
      BY <1>1, <1>2, <2>3, <3>1
    <3>2. CASE v # d \/ g # f
      BY <1>1, <1>2, <2>1, <2>3, <3>2
    <3>3. QED
      BY <3>1, <3>2
  <2>4. QED
    BY <1>6, <2>2, <2>3
<1>8. QED
  BY <1>7 DEF NoForeignBlock, Pure

(* What else a process does to a file is to empty it.                      *)
LEMMA PureElse ==
  ASSUME UInv, NoForeignBlock, NEW s \in Session, ServerStep(s),
         ~ RecvPacket(s), ~ RecvClosed(s)
  PROVE  NoForeignBlock'
<1>1. IInv /\ body \in [Directory -> [FileName -> Seq(Chunk)]]
  BY DEF UInv, PInv, IInv, TypeOK, ServerTypeOK
<1>2. body' = body \/ \E u, f : body' = [body EXCEPT ![u][f] = <<>>]
  BY DEF ServerStep, CreateFolder, CreateNewFolder, ListDir, OpenUpload, OpenFails, Delete,
         Ignore, Exit, Remove, Emptied, Unlinked, diskVars
<1>3. ASSUME NEW v \in Directory, NEW g \in FileName PROVE Pure(g, body'[v][g])
  <2>1. Pure(g, body[v][g])
    BY DEF NoForeignBlock, Pure
  <2>2. body'[v][g] = body[v][g] \/ body'[v][g] = <<>>
    BY <1>1, <1>2
  <2>3. QED
    BY <2>1, <2>2, PureEmpty
<1>4. QED
  BY <1>3 DEF NoForeignBlock, Pure

(* When no answer is late, no block of a file ends up in another file,     *)
(* though the server takes whatever arrives during an upload for the next  *)
(* packet of that upload (upload_mess).                                    *)
THEOREM OwnBlocksOnly ==
  ASSUME LateReplies = FALSE
  PROVE  Spec => []NoForeignBlock
<1>1. Init => NoForeignBlock
  <2> SUFFICES ASSUME Init, NEW d \in Directory, NEW f \in FileName PROVE Pure(f, body[d][f])
    BY DEF NoForeignBlock, Pure
  <2>1. body[d][f] = IF f \in held[d] THEN Full(Origin(f)) ELSE <<>>
    BY DEF Init, ServerInit
  <2>2. CASE f \in held[d]
    <3>1. Sources(f) # {}
      BY <2>2 DEF Init, ServerInit, Sources
    <3>2. Origin(f) \in Sources(f) /\ Origin(f) \in FileName
      BY <3>1 DEF Origin, Sources
    <3>3. \A i : Block(Origin(f), i).file = Origin(f)
      BY DEF Block
    <3>4. QED
      BY <2>1, <2>2, <3>2, <3>3, FullFacts DEF Pure
  <2>3. CASE f \notin held[d]
    BY <2>1, <2>3, PureEmpty
  <2>4. QED
    BY <2>2, <2>3
<1>2. UInv /\ NoForeignBlock /\ [Next]_vars => NoForeignBlock'
  <2>1. ASSUME UInv, NoForeignBlock, NEW s \in Session, Serve(s) PROVE NoForeignBlock'
    BY <2>1, PureStore, PureElse DEF Serve
  <2>2. ASSUME NoForeignBlock, UNCHANGED body PROVE NoForeignBlock'
    BY <2>2 DEF NoForeignBlock
  <2>3. QED
    BY <2>1, <2>2 DEF Next, Act, Read, Timeout, serverVars, vars
<1>3. QED
  BY <1>1, <1>2, UploadInvariance, PTL DEF Spec

=============================================================================
