--------------------------- MODULE TfpStoreProofs ---------------------------
(***************************************************************************)
(* TfpSystem implements FolderStore, for every set of sessions, users and  *)
(* files: the initial states map to initial states, and a step of a server *)
(* process to a step of the store or to none; clients never touch it.      *)
(*                                                                         *)
(* The invariant of TfpSystemProofs gives the types and the folder a       *)
(* process works in.                                                       *)
(***************************************************************************)
EXTENDS TfpStore, TfpSystemProofs

(* What happened to the uploads under way.                                 *)
SameUpload(t) ==
  \A d \in Directory, f \in FileName : Uploads(t, d, f)' <=> Uploads(t, d, f)

-----------------------------------------------------------------------------
(* How the mapping follows the disk.                                       *)

LEMMA SameBusy ==
  ASSUME \A t \in Session : SameUpload(t)
  PROVE  BusyFiles' = BusyFiles
<1>1. \A d \in Directory : BusyFiles'[d] = BusyFiles[d]
  BY DEF BusyFiles, SameUpload
<1>2. QED
  BY <1>1 DEF BusyFiles

LEMMA BusyUnion ==
  ASSUME NEW d \in Directory, NEW f \in FileName, BusyFiles' = BusyFiles
  PROVE  \E b \in SUBSET {f} : BusyFiles' = [BusyFiles EXCEPT ![d] = @ \cup b]
<1>1. BusyFiles = [BusyFiles EXCEPT ![d] = @ \cup {}]
  BY DEF BusyFiles
<1>2. {} \in SUBSET {f}
  OBVIOUS
<1>3. QED
  BY <1>1, <1>2

(* Where neither the file f of d nor its upload is meant nothing changes.  *)
LEMMA BusyElsewhere ==
  ASSUME NEW d \in Directory, NEW f \in FileName,
         \A t \in Session, e \in Directory, g \in FileName :
           e # d \/ g # f => (Uploads(t, e, g)' <=> Uploads(t, e, g))
  PROVE  /\ \A e \in Directory : e # d => BusyFiles'[e] = BusyFiles[e]
         /\ BusyFiles'[d] \ {f} = BusyFiles[d] \ {f}
BY DEF BusyFiles

LEMMA BusyBegins ==
  ASSUME NEW s \in Session, NEW d \in Directory, NEW f \in FileName,
         \A t \in Session \ {s} : SameUpload(t),
         \A e \in Directory, g \in FileName : ~ Uploads(s, e, g),
         \A e \in Directory, g \in FileName : Uploads(s, e, g)' <=> e = d /\ g = f
  PROVE  BusyFiles' = [BusyFiles EXCEPT ![d] = @ \cup {f}]
<1>1. \A t \in Session, e \in Directory, g \in FileName :
        e # d \/ g # f => (Uploads(t, e, g)' <=> Uploads(t, e, g))
  <2>1. SUFFICES ASSUME NEW t \in Session, NEW e \in Directory, NEW g \in FileName,
                        e # d \/ g # f
                 PROVE  Uploads(t, e, g)' <=> Uploads(t, e, g)
    OBVIOUS
  <2>2. CASE t = s
    BY <2>1, <2>2
  <2>3. CASE t # s
    BY <2>1, <2>3 DEF SameUpload
  <2>4. QED
    BY <2>2, <2>3
<1>2. /\ \A e \in Directory : e # d => BusyFiles'[e] = BusyFiles[e]
      /\ BusyFiles'[d] \ {f} = BusyFiles[d] \ {f}
  BY <1>1, BusyElsewhere
<1>3. Uploads(s, d, f)'
  OBVIOUS
<1>4. f \in BusyFiles'[d]
  BY <1>3 DEF BusyFiles
<1>5. BusyFiles'[d] = BusyFiles[d] \cup {f}
  BY <1>2, <1>4
<1>6. QED
  BY <1>2, <1>5 DEF BusyFiles

LEMMA WholeElsewhere ==
  ASSUME NEW d \in Directory, NEW f \in FileName,
         held' = [held EXCEPT ![d] = held'[d]],
         held \in [Directory -> SUBSET FileName], held' \in [Directory -> SUBSET FileName],
         held'[d] \ {f} = held[d] \ {f},
         \A e \in Directory, g \in FileName : e # d \/ g # f => body'[e][g] = body[e][g]
  PROVE  /\ \A e \in Directory : e # d => WholeFiles'[e] = WholeFiles[e]
         /\ WholeFiles'[d] \ {f} = WholeFiles[d] \ {f}
<1>1. \A e \in Directory, g \in FileName :
        IsWhole(g, body[e][g])' <=> IsWhole(g, body'[e][g])
  BY DEF IsWhole, BeginsWith
<1>2. \A e \in Directory : e # d => held'[e] = held[e]
  OBVIOUS
<1>3. \A e \in Directory, g \in FileName : e # d \/ g # f =>
        (g \in WholeFiles'[e] <=> g \in WholeFiles[e])
  <2>1. SUFFICES ASSUME NEW e \in Directory, NEW g \in FileName, e # d \/ g # f
                 PROVE  g \in WholeFiles'[e] <=> g \in WholeFiles[e]
    OBVIOUS
  <2>2. g \in held'[e] <=> g \in held[e]
    BY <1>2, <2>1
  <2>3. IsWhole(g, body[e][g])' <=> IsWhole(g, body[e][g])
    BY <1>1, <2>1
  <2>4. QED
    BY <2>2, <2>3 DEF WholeFiles
<1>4. \A e \in Directory : WholeFiles'[e] \subseteq FileName /\ WholeFiles[e] \subseteq FileName
  BY DEF WholeFiles
<1>5. QED
  BY <1>3, <1>4

(* Requests come and go with every step.                                   *)
LEMMA AskedType == Asked' \in [Directory -> SUBSET Folders!Request]
  BY DEF Asked, Folders!Request

(* Nothing on the disk changes, and no upload begins or ends.              *)
LEMMA NoStoreStep ==
  ASSUME UNCHANGED <<held, body>>, \A t \in Session : SameUpload(t)
  PROVE  Folders!StoreNext
<1>1. WholeFiles' = WholeFiles
  BY DEF WholeFiles, IsWhole, BeginsWith
<1>2. QED
  BY <1>1, SameBusy, AskedType DEF Folders!StoreNext

(* The process of s, in its main loop, has a request of this kind first.   *)
LEMMA IsAsked ==
  ASSUME NEW s \in Session, NEW f \in FileName,
         NEW op \in {"upload", "empty", "delete"},
         cdirectory[s] \in Directory, Asks(s, cdirectory[s], op, f)
  PROVE  <<op, f>> \in Asked[cdirectory[s]]
  BY DEF Asked

(* The file f of d is emptied.                                             *)
LEMMA EmptiedFacts ==
  ASSUME IInv, NEW d \in Directory, NEW f \in FileName,
         Emptied(d, f)
  PROVE  WholeFiles' = [WholeFiles EXCEPT ![d] =
                          IF f \in Blockless
                          THEN @ \cup {f} ELSE @ \ {f}]
<1> USE DEF IInv, TypeOK, ServerTypeOK
<1>1. \A g \in FileName : BlocksOf[g] \in Nat
  BY ChannelAssumption
<1>2. IsWhole(f, <<>>) <=> f \in Blockless
  <2>1. ASSUME NEW g \in Sources(f) PROVE BeginsWith(g, <<>>) <=> BlocksOf[g] = 0
    <3>1. BlocksOf[g] \in Nat /\ Len(<<>>) = 0
      BY <1>1 DEF Sources
    <3>2. QED
      BY <3>1 DEF BeginsWith
  <2>2. QED
    BY <2>1 DEF IsWhole, Blockless
<1>3. \A e \in Directory, g \in FileName :
        body'[e][g] = IF e = d /\ g = f THEN <<>> ELSE body[e][g]
  BY DEF Emptied
<1>4. \A e \in Directory : held'[e] = IF e = d THEN held[e] \cup {f} ELSE held[e]
  BY DEF Emptied
<1>5. \A e \in Directory, g \in FileName :
        IsWhole(g, body[e][g])' <=> IsWhole(g, body'[e][g])
  BY DEF IsWhole, BeginsWith
<1>6. \A e \in Directory : e # d => WholeFiles'[e] = WholeFiles[e]
  BY <1>3, <1>4, <1>5 DEF WholeFiles
<1>7. WholeFiles'[d] = IF f \in Blockless THEN WholeFiles[d] \cup {f} ELSE WholeFiles[d] \ {f}
  <2>1. /\ WholeFiles[d] = {g \in held[d] : IsWhole(g, body[d][g])}
        /\ WholeFiles'[d] = {g \in held'[d] : IsWhole(g, body'[d][g])}
    BY <1>5 DEF WholeFiles
  <2>2. \A g \in held[d] : g # f => body'[d][g] = body[d][g]
    BY <1>3
  <2>3. held'[d] = held[d] \cup {f} /\ body'[d][f] = <<>>
    BY <1>3, <1>4
  <2>4. QED
    BY <1>2, <2>1, <2>2, <2>3
<1>8. QED
  BY <1>6, <1>7 DEF WholeFiles

(* The file f of d is removed, also from those who have it open.           *)
LEMMA DropFacts ==
  ASSUME IInv, NEW s \in Session, NEW f \in FileName,
         Unlinked(cdirectory[s], f), cdirectory[s] \in Directory,
         \/ Asks(s, cdirectory[s], "delete", f)
         \/ Asks(s, cdirectory[s], "empty", f),
         UNCHANGED <<cdirectory, filename>>,
         spc[s] # "upload", spc'[s] # "upload",
         \A t \in Session \ {s} : spc'[t] = spc[t]
  PROVE  Folders!StoreNext
<1> USE DEF IInv, TypeOK, ServerTypeOK
<1> DEFINE d == cdirectory[s]
<1>1. held' = [held EXCEPT ![d] = @ \ {f}] /\ body' = [body EXCEPT ![d][f] = <<>>]
  BY DEF Unlinked
<1>2. \A e \in Directory, g \in FileName :
        e # d \/ g # f => body'[e][g] = body[e][g]
  BY <1>1
<1>3. /\ \A e \in Directory : e # d => WholeFiles'[e] = WholeFiles[e]
      /\ WholeFiles'[d] \ {f} = WholeFiles[d] \ {f}
  <2>1. /\ held' = [held EXCEPT ![d] = held'[d]]
        /\ held' \in [Directory -> SUBSET FileName]
        /\ held'[d] \ {f} = held[d] \ {f}
    BY <1>1
  <2>2. QED
    BY <1>2, <2>1, WholeElsewhere
<1>4. f \notin WholeFiles'[d]
  BY <1>1 DEF WholeFiles
<1>5. WholeFiles'[d] = WholeFiles[d] \ {f}
  BY <1>3, <1>4
<1>6. WholeFiles' = [WholeFiles EXCEPT ![d] = @ \ {f}]
  BY <1>3, <1>5 DEF WholeFiles
<1>7. \A t \in Session, e \in Directory, g \in FileName :
        Uploads(t, e, g)' <=> Uploads(t, e, g) /\ ~ (e = d /\ g = f)
  BY DEF Uploads, Unlinked
<1>8. \A e \in Directory : BusyFiles'[e] = IF e = d THEN BusyFiles[e] \ {f} ELSE BusyFiles[e]
  BY <1>7 DEF BusyFiles
<1>9. BusyFiles' = [BusyFiles EXCEPT ![d] = @ \ {f}]
  BY <1>8 DEF BusyFiles
<1>10. <<"delete", f>> \in Asked[d] \/ <<"empty", f>> \in Asked[d]
  BY IsAsked
<1>11. Folders!Drop(d, f)
  BY <1>1, <1>6, <1>9, <1>10 DEF Folders!Drop
<1>12. QED
  BY <1>11, AskedType DEF Folders!StoreNext

-----------------------------------------------------------------------------
(* The steps of a server process.                                          *)

LEMMA BeginStep ==
  ASSUME IInv, NEW s \in Session, OpenUpload(s)
  PROVE  Folders!StoreNext
<1> USE DEF IInv, TypeOK, ServerTypeOK
<1> DEFINE m == Head(toSrv[s])
           d == cdirectory[s]
           f == m.name
<1>1. Received(s, "upload") /\ UNCHANGED <<cdirectory, dirs>>
  BY DEF OpenUpload
<1>2. /\ d \in Directory /\ f \in FileName /\ m.num \in Nat
      /\ spc[s] = "main" /\ toSrv[s] # <<>> /\ m.op = "upload"
  BY <1>1, ReceivedFacts, MessageParts, DirFacts DEF Received
<1>3. \A t \in Session \ {s} : spc'[t] = spc[t]
  <2>1. \E next \in ServerState : Send(s, << Ack >>, next)
    BY DEF OpenUpload, ServerState
  <2>2. QED
    BY <2>1, ReplyTypes, SendFacts
<1>4. ASSUME Emptied(d, f),
             <<"upload", f>> \in Asked[d] \/ <<"empty", f>> \in Asked[d],
             \E b \in SUBSET {f} :
               /\ <<"upload", f>> \notin Asked[d] => b = {}
               /\ BusyFiles' = [BusyFiles EXCEPT ![d] = @ \cup b]
      PROVE  Folders!StoreNext
  <2>1. WholeFiles' = [WholeFiles EXCEPT ![d] =
                         IF f \in Blockless THEN @ \cup {f} ELSE @ \ {f}]
    BY <1>2, <1>4, EmptiedFacts
  <2>2. held' = [held EXCEPT ![d] = @ \cup {f}]
    BY <1>4 DEF Emptied
  <2>3. Folders!Begin(d, f)
    BY <1>4, <2>1, <2>2 DEF Folders!Begin
  <2>4. QED
    BY <1>2, <2>3, AskedType DEF Folders!StoreNext
<1>5. CASE m.num > 0
  <2>1. /\ Emptied(d, f)
        /\ filename' = [filename EXCEPT ![s] = f]
        /\ linked' = [linked EXCEPT ![s] = TRUE]
        /\ Send(s, << Ack >>, "upload")
    BY <1>5 DEF OpenUpload
  <2>2. \A t \in Session \ {s} : SameUpload(t)
    BY <1>1, <1>3, <2>1 DEF SameUpload, Uploads
  <2>3. \A e \in Directory, g \in FileName : ~ Uploads(s, e, g)
    BY <1>2 DEF Uploads
  <2>4. <<"upload", f>> \in Asked[d]
    <3>1. Asks(s, d, "upload", f)
      BY <1>2, <1>5 DEF Asks
    <3>2. QED
      BY <1>2, <3>1, IsAsked
  <2>5. CASE spc'[s] = "upload"
    <3>1. \A e \in Directory, g \in FileName : Uploads(s, e, g)' <=> e = d /\ g = f
      BY <1>1, <2>1, <2>5 DEF Uploads
    <3>2. d \in Directory /\ f \in FileName
      BY <1>2
    <3>3. BusyFiles' = [BusyFiles EXCEPT ![d] = @ \cup {f}]
      BY <2>2, <2>3, <3>1, <3>2, BusyBegins
    <3>4. {f} \in SUBSET {f}
      OBVIOUS
    <3>5. QED
      BY <1>4, <2>1, <2>4, <3>3, <3>4
  <2>6. CASE spc'[s] # "upload"
    <3>1. SameUpload(s)
      BY <2>3, <2>6 DEF SameUpload, Uploads
    <3>2. BusyFiles' = BusyFiles
      BY <2>2, <3>1, SameBusy
    <3>3. \E b \in SUBSET {f} : BusyFiles' = [BusyFiles EXCEPT ![d] = @ \cup b]
      <4> HIDE DEF d, f
      <4>1. QED
        BY <1>2, <3>2, BusyUnion
    <3>4. QED
      BY <1>4, <2>1, <2>4, <3>3
  <2>7. QED
    BY <2>5, <2>6
<1>6. CASE ~ (m.num > 0)
  <2>1. /\ UNCHANGED filename
        /\ Send(s, << Ack >>, "main")
        /\ \/ Unlinked(d, f)
           \/ Emptied(d, f) /\ UNCHANGED linked
    BY <1>6 DEF OpenUpload
  <2>2. spc'[s] # "upload"
    BY <2>1, ReplyTypes, SendFacts DEF ServerState
  <2>3. Asks(s, d, "empty", f)
    BY <1>2, <1>6 DEF Asks
  <2>4. CASE Emptied(d, f) /\ UNCHANGED linked
    <3>1. \A t \in Session : SameUpload(t)
      BY <1>1, <1>2, <1>3, <2>1, <2>2, <2>4 DEF SameUpload, Uploads
    <3>2. BusyFiles' = BusyFiles
      BY <3>1, SameBusy
    <3>3. BusyFiles' = [BusyFiles EXCEPT ![d] = @ \cup {}]
      BY <3>2 DEF BusyFiles
    <3>4. <<"empty", f>> \in Asked[d]
      BY <1>2, <2>3, IsAsked
    <3>5. {} \in SUBSET {f}
      OBVIOUS
    <3>6. QED
      BY <1>4, <2>4, <3>3, <3>4, <3>5
  <2>5. CASE Unlinked(d, f)
    <3> HIDE DEF d, f
    <3>1. QED
      BY <1>1, <1>2, <1>3, <2>1, <2>2, <2>3, <2>5, DropFacts DEF d
  <2>6. QED
    BY <2>1, <2>4, <2>5
<1>7. QED
  BY <1>5, <1>6

LEMMA DropStep ==
  ASSUME IInv, NEW s \in Session, Delete(s)
  PROVE  Folders!StoreNext
<1> DEFINE d == cdirectory[s]
           f == Head(toSrv[s]).name
<1>1. Received(s, "delete") /\ Remove(d, f) /\ UNCHANGED <<cdirectory, filename>>
      /\ Send(s, StringReply, "main")
  BY DEF Delete
<1>2. /\ d \in Directory /\ f \in FileName /\ spc[s] = "main"
      /\ toSrv[s] # <<>> /\ Head(toSrv[s]).op = "delete"
  BY <1>1, ReceivedFacts, MessageParts, DirFacts DEF Received
<1>3. spc'[s] # "upload" /\ \A t \in Session \ {s} : spc'[t] = spc[t]
  BY <1>1, ReplyTypes, SendFacts DEF IInv, ServerState
<1>4. CASE Unlinked(d, f)
  <2>1. Asks(s, d, "delete", f)
    BY <1>2 DEF Asks
  <2>2. QED
    BY <1>1, <1>2, <1>3, <1>4, <2>1, DropFacts
<1>5. CASE UNCHANGED <<held, body, spoilt, linked>>
  <2>1. \A t \in Session : SameUpload(t)
    BY <1>1, <1>2, <1>3, <1>5 DEF SameUpload, Uploads
  <2>2. QED
    BY <1>5, <2>1, NoStoreStep
<1>6. QED
  BY <1>1, <1>4, <1>5 DEF Remove

LEMMA PacketStep ==
  ASSUME IInv, NEW s \in Session, NEW x, spc[s] = "upload", StorePacket(s, x)
  PROVE  Folders!StoreNext
<1> USE DEF IInv, TypeOK, ServerTypeOK
<1> DEFINE d == cdirectory[s]
           f == filename[s]
           n == packNum[s] + 1
<1>1. /\ ~ linked[s] => UNCHANGED body
      /\ linked[s] => \E c : body' = [body EXCEPT ![d][f] = c]
      /\ UNCHANGED <<cdirectory, filename, linked, held>>
  <2>1. \A c : Kept(s, c) \/ Lost(s, c) => \E e : body' = [body EXCEPT ![d][f] = e]
    BY DEF Kept, Lost
  <2>2. QED
    BY <2>1 DEF StorePacket
<1>2. \A t \in Session \ {s} : spc'[t] = spc[t]
  <2>1. \E next \in ServerState : Send(s, << Ack >>, next)
    BY DEF StorePacket, ServerState
  <2>2. QED
    BY <2>1, ReplyTypes, SendFacts
<1>3. \A t \in Session \ {s} : SameUpload(t)
  BY <1>1, <1>2 DEF SameUpload, Uploads
<1>4. CASE ~ linked[s]
  <2>1. SameUpload(s)
    BY <1>1, <1>4 DEF SameUpload, Uploads
  <2>2. UNCHANGED <<held, body>> /\ \A t \in Session : SameUpload(t)
    BY <1>1, <1>3, <1>4, <2>1
  <2>3. QED
    BY <2>2, NoStoreStep
<1>5. CASE linked[s]
  <2>1. d \in Directory /\ f \in FileName
    BY <1>5, FolderKnown, DirFacts
  <2>2. Uploads(s, d, f) /\ f \in BusyFiles[d]
    BY <1>5, <2>1 DEF Uploads, BusyFiles
  <2>3. \A e \in Directory, g \in FileName : e # d \/ g # f => body'[e][g] = body[e][g]
    BY <1>1, <1>5
  <2>4. held' = [held EXCEPT ![d] = held'[d]]
    BY <1>1
  <2>5. /\ \A e \in Directory : e # d => WholeFiles'[e] = WholeFiles[e]
        /\ WholeFiles'[d] \ {f} = WholeFiles[d] \ {f}
    <3>1. /\ held \in [Directory -> SUBSET FileName]
          /\ held' \in [Directory -> SUBSET FileName]
          /\ held'[d] \ {f} = held[d] \ {f}
      BY <1>1
    <3>2. \A e \in Directory, g \in FileName : e # d \/ g # f => body'[e][g] = body[e][g]
      BY <2>3
    <3> HIDE DEF IInv, TypeOK, ServerTypeOK
    <3> HIDE DEF d, f, n
    <3>3. QED
      BY <2>1, <2>4, <3>1, <3>2, WholeElsewhere
  <2>7. \E w \in SUBSET {f} : WholeFiles' = [WholeFiles EXCEPT ![d] = (@ \ {f}) \cup w]
    <3>1. WholeFiles'[d] = (WholeFiles[d] \ {f}) \cup (WholeFiles'[d] \cap {f})
      BY <2>5
    <3>2. WholeFiles' = [WholeFiles EXCEPT ![d] = (@ \ {f}) \cup (WholeFiles'[d] \cap {f})]
      BY <2>1, <2>5, <3>1 DEF WholeFiles
    <3>3. WholeFiles'[d] \cap {f} \in SUBSET {f}
      OBVIOUS
    <3>4. QED
      BY <3>2, <3>3
  <2>8. \A e \in Directory, g \in FileName :
          e # d \/ g # f => (Uploads(s, e, g)' <=> Uploads(s, e, g))
    BY <1>1 DEF Uploads
  <2>9. \A t \in Session, e \in Directory, g \in FileName :
          e # d \/ g # f => (Uploads(t, e, g)' <=> Uploads(t, e, g))
    BY <1>3, <2>8 DEF SameUpload
  <2>10. /\ \A e \in Directory : e # d => BusyFiles'[e] = BusyFiles[e]
         /\ BusyFiles'[d] \ {f} = BusyFiles[d] \ {f}
    BY <2>1, <2>9, BusyElsewhere
  <2>11. \E b \in SUBSET {f} : BusyFiles' = [BusyFiles EXCEPT ![d] = (@ \ {f}) \cup b]
    <3>1. BusyFiles'[d] = (BusyFiles[d] \ {f}) \cup (BusyFiles'[d] \cap {f})
      BY <2>10
    <3>2. BusyFiles' = [BusyFiles EXCEPT ![d] = (@ \ {f}) \cup (BusyFiles'[d] \cap {f})]
      BY <2>1, <2>10, <3>1 DEF BusyFiles
    <3>3. BusyFiles'[d] \cap {f} \in SUBSET {f}
      OBVIOUS
    <3>4. QED
      BY <3>2, <3>3
  <2>12. Folders!Store(d, f)
    BY <1>1, <2>2, <2>7, <2>11 DEF Folders!Store
  <2>13. QED
    BY <2>1, <2>12, AskedType DEF Folders!StoreNext
<1>6. QED
  BY <1>4, <1>5

(* A step of a process that is in no upload and leaves the disk alone.     *)
LEMMA IdleStep ==
  ASSUME IInv, NEW s \in Session,
         UNCHANGED <<uploadVars, held, body>>,
         spc[s] # "upload", spc'[s] # "upload",
         \A t \in Session \ {s} : spc'[t] = spc[t] /\ cdirectory'[t] = cdirectory[t]
  PROVE  Folders!StoreNext
<1>1. \A t \in Session : SameUpload(t)
  BY DEF SameUpload, Uploads, uploadVars
<1>2. QED
  BY <1>1, NoStoreStep

LEMMA StoreStep ==
  ASSUME IInv, NEW s \in Session, ServerStep(s)
  PROVE  Folders!StoreNext
<1> USE DEF IInv, TypeOK, ServerTypeOK
<1>1. CASE OpenUpload(s)
  BY <1>1, BeginStep
<1>2. CASE Delete(s)
  BY <1>2, DropStep
<1>3. CASE RecvPacket(s) \/ RecvClosed(s)
  BY <1>3, PacketStep DEF RecvPacket, RecvClosed
<1>4. CASE CreateFolder(s)
  <2>1. spc[s] = "main" /\ UNCHANGED <<uploadVars, held, body>>
        /\ EnterFolder(s, Head(toSrv[s]).name)
    BY <1>4 DEF CreateFolder, Received, diskVars
  <2>2. \A t \in Session \ {s} : cdirectory'[t] = cdirectory[t]
    BY <2>1 DEF EnterFolder
  <2>3. spc'[s] # "upload" /\ \A t \in Session \ {s} : spc'[t] = spc[t]
    <3>1. CASE Send(s, StringReply, "main")
      BY <3>1, ReplyTypes, SendFacts DEF ServerState
    <3>2. CASE spc' = [spc EXCEPT ![s] = "mkdir"]
      BY <3>2
    <3>3. QED
      BY <1>4, <3>1, <3>2 DEF CreateFolder, create_Folder
  <2>4. QED
    BY <2>1, <2>2, <2>3, IdleStep
<1>5. CASE CreateNewFolder(s)
  <2>1. spc[s] = "mkdir" /\ UNCHANGED <<uploadVars, held, body, cdirectory>>
    BY <1>5 DEF CreateNewFolder
  <2>2. spc'[s] # "upload" /\ \A t \in Session \ {s} : spc'[t] = spc[t]
    <3>1. CASE Send(s, StringReply, "main")
      BY <3>1, ReplyTypes, SendFacts DEF ServerState
    <3>2. CASE spc' = [spc EXCEPT ![s] = "dead"]
      BY <3>2
    <3>3. QED
      BY <1>5, <3>1, <3>2 DEF CreateNewFolder
  <2>3. QED
    BY <2>1, <2>2, IdleStep
<1>6. CASE ListDir(s)
  <2>1. spc[s] = "main" /\ UNCHANGED <<uploadVars, held, body, cdirectory>>
    BY <1>6 DEF ListDir, Received, diskVars
  <2>2. Listing(held[cdirectory[s]]) \in Seq(Item)
    <3>1. cdirectory[s] \in Directory
      <4>1. Received(s, "list")
        BY <1>6 DEF ListDir
      <4>2. cdirectory[s] = Dir(s)
        BY <4>1, ReceivedFacts
      <4>3. QED
        BY <4>2, DirFacts
    <3>2. held[cdirectory[s]] \in SUBSET FileName
      BY <3>1
    <3>3. QED
      BY <3>2, ReplyTypes
  <2>3. spc'[s] # "upload" /\ \A t \in Session \ {s} : spc'[t] = spc[t]
    BY <1>6, <2>2, SendFacts DEF ListDir, ServerState
  <2>4. QED
    BY <2>1, <2>3, IdleStep
<1>7. CASE OpenFails(s) \/ Ignore(s) \/ Exit(s)
  <2>1. spc[s] = "main" /\ UNCHANGED <<uploadVars, held, body, cdirectory>>
    BY <1>7 DEF OpenFails, Ignore, Exit, Received, diskVars
  <2>2. spc'[s] # "upload" /\ \A t \in Session \ {s} : spc'[t] = spc[t]
    BY <1>7, <2>1 DEF OpenFails, Ignore, Exit
  <2>3. QED
    BY <2>1, <2>2, IdleStep
<1>8. QED
  BY <1>1, <1>2, <1>3, <1>4, <1>5, <1>6, <1>7 DEF ServerStep

-----------------------------------------------------------------------------
LEMMA StoreInitial == Init => Folders!StoreInit
<1> SUFFICES ASSUME Init PROVE Folders!StoreInit
  OBVIOUS
<1>1. BusyFiles = [d \in Directory |-> {}]
  BY DEF Init, ServerInit, BusyFiles, Uploads
<1>2. Asked = [d \in Directory |-> {}]
  BY DEF Init, Asked, Asks
<1>3. \A f \in FileName : SentAs[f] \in FileName /\ BlocksOf[f] \in Nat
  BY ChannelAssumption
<1>4. \A d \in Directory : \A f \in held[d] : IsWhole(f, body[d][f])
  <2>1. SUFFICES ASSUME NEW d \in Directory, NEW f \in held[d]
                 PROVE  IsWhole(f, body[d][f])
    OBVIOUS
  <2>2. PICK g \in FileName : f = SentAs[g]
    BY DEF Init, ServerInit
  <2>3. f \in FileName /\ g \in Sources(f)
    BY <1>3, <2>2 DEF Sources
  <2>4. Origin(f) \in Sources(f)
    BY <2>3 DEF Origin
  <2>5. body[d][f] = Full(Origin(f))
    BY <2>3 DEF Init, ServerInit
  <2>6. BlocksOf[Origin(f)] \in Nat
    BY <1>3, <2>4 DEF Sources
  <2>7. /\ Len(Full(Origin(f))) = BlocksOf[Origin(f)]
        /\ \A i \in 1..BlocksOf[Origin(f)] : Full(Origin(f))[i] = Block(Origin(f), i - 1)
    BY <2>6 DEF Full
  <2>8. BeginsWith(Origin(f), body[d][f])
    BY <2>5, <2>6, <2>7 DEF BeginsWith
  <2>9. QED
    BY <2>4, <2>8 DEF IsWhole
<1>5. held \in [Directory -> SUBSET FileName]
  BY <1>3 DEF Init, ServerInit
<1>6. WholeFiles = held
  BY <1>4, <1>5 DEF WholeFiles
<1>7. QED
  BY <1>1, <1>2, <1>5, <1>6 DEF Folders!StoreInit

(* The processes of the server, with their positions in open files and     *)
(* their connections, implement one store of folders: a name appears in a  *)
(* folder only by a request to upload it that a process of that folder     *)
(* takes, goes only by a request to delete it or to upload it without a    *)
(* block, and is whole or not only through an upload (upload_mess,         *)
(* removeFile).                                                            *)
THEOREM StoreImplemented == Spec => KeepsFolders
<1>1. IInv /\ [Next]_vars => [Folders!StoreNext]_(Folders!storeVars)
  <2>1. ASSUME IInv, NEW s \in Session, Serve(s)
        PROVE  Folders!StoreNext
    BY <2>1, StoreStep DEF Serve
  <2>2. ASSUME UNCHANGED serverVars
        PROVE  Folders!StoreNext
    <3>1. UNCHANGED <<held, body>> /\ \A t \in Session : SameUpload(t)
      BY <2>2 DEF serverVars, SameUpload, Uploads
    <3>2. QED
      BY <3>1, NoStoreStep
  <2>3. QED
    BY <2>1, <2>2 DEF Next, Act, Read, Timeout, vars
<1>2. QED
  BY <1>1, StoreInitial, Invariance, PTL DEF Spec, KeepsFolders, Folders!StoreSpec

=============================================================================
