-------------------------- MODULE TfpListingProofs --------------------------
(***************************************************************************)
(* Listings: that one is read by the handler that asked for it or by none, *)
(* and that the rows it leaves in the table are files the server holds,    *)
(* for every set of sessions, users and files, answers late or in time.    *)
(*                                                                         *)
(* Neither property is inductive.  Added are: where a request for a list   *)
(* stands (last, and its client waits); that a listing on its way is the   *)
(* last reply to the last request; that no file of a row has a delete or   *)
(* an upload on its way; and that the names in a listing are still held.   *)
(* All of it is given up for a session that went astray.                   *)
(***************************************************************************)
EXTENDS TfpSystemProofs

(* The rows whose name no other file is sent by.                           *)
Shown(s) == {f \in files[s] : OnlyItself(f)}

Requests(s) ==
  /\ ~ open[s] => toCli[s] = <<>>
  /\ ~ astray[s] => \A i \in 1..Len(toSrv[s]) :
       /\ open[s] /\ toSrv[s][i].op = "list" => cpc[s] = "list" /\ i = Len(toSrv[s])
       /\ toSrv[s][i].op \in {"delete", "upload"} => toSrv[s][i].name \notin Shown(s)

Replies(s) ==
  ~ astray[s] => \A i \in 1..Len(toCli[s]) : toCli[s][i].kind = "listing" =>
    /\ cpc[s] = "list" /\ i + ListingLen - 1 = Len(toCli[s])
    /\ toSrv[s] = <<>> /\ spc[s] # "mkdir"
    /\ Alone(s) => toCli[s][i].names \subseteq Folder(s)

Rows(s) == Alone(s) /\ ~ astray[s] => Shown(s) \subseteq Folder(s)

LInv == IInv /\ \A s \in Session : Requests(s) /\ Replies(s) /\ Rows(s)

NoListing(q) == \A i \in 1..Len(q) : q[i].kind # "listing"

(* r is what is left of q without its first elements.                      *)
Suffix(r, q) ==
  \E k \in 0..Len(q) : /\ Len(r) = Len(q) - k
                       /\ \A i \in 1..Len(r) : r[i] = q[i + k]

-----------------------------------------------------------------------------
(* Queues.                                                                 *)

LEMMA SuffixIntro ==
  ASSUME NEW q, NEW r, NEW k \in 0..Len(q),
         Len(r) = Len(q) - k, \A i \in 1..Len(r) : r[i] = q[i + k]
  PROVE  Suffix(r, q)
BY DEF Suffix

LEMMA SuffixFacts ==
  ASSUME NEW S, NEW q \in Seq(S), NEW n \in Nat
  PROVE  Suffix(SubSeq(q, n + 1, Len(q)), q)
<1> DEFINE r == SubSeq(q, n + 1, Len(q))
<1>1. \A i \in (n + 1)..Len(q) : q[i] \in S
  OBVIOUS
<1>2. /\ Len(r) = IF n + 1 <= Len(q) THEN Len(q) - (n + 1) + 1 ELSE 0
      /\ \A i \in 1 .. Len(q) - (n + 1) + 1 : r[i] = q[(n + 1) + i - 1]
  BY <1>1, SubSeqProperties
<1>3. CASE n + 1 <= Len(q)
  <2>1. Len(r) = Len(q) - n
    BY <1>2, <1>3
  <2>2. \A i \in 1..Len(r) : r[i] = q[i + n]
    BY <1>2, <2>1
  <2>3. n \in 0..Len(q)
    BY <1>3
  <2>4. QED
    BY <2>1, <2>2, <2>3, SuffixIntro
<1>4. CASE ~ (n + 1 <= Len(q))
  <2>1. Len(r) = Len(q) - Len(q) /\ Len(q) \in 0..Len(q)
    BY <1>2, <1>4
  <2>2. \A i \in 1..Len(r) : r[i] = q[i + Len(q)]
    BY <2>1
  <2>3. QED
    BY <2>1, <2>2, SuffixIntro
<1>5. QED
  BY <1>3, <1>4

LEMMA SameSuffix ==
  ASSUME NEW S, NEW q \in Seq(S)
  PROVE  Suffix(q, q)
<1>1. 0 \in 0..Len(q) /\ Len(q) = Len(q) - 0 /\ \A i \in 1..Len(q) : q[i] = q[i + 0]
  OBVIOUS
<1>2. QED
  BY <1>1, SuffixIntro

LEMMA RecvSuffix ==
  ASSUME TypeOK, NEW s \in Session, Recv(s)
  PROVE  Suffix(toSrv'[s], toSrv[s])
<1>1. PICK k \in 1..Len(toSrv[s]) :
        toSrv' = [toSrv EXCEPT ![s] = SubSeq(@, k + 1, Len(@))]
  BY DEF Recv
<1>2. toSrv[s] \in Seq(Message) /\ k \in Nat
  BY DEF TypeOK
<1>3. toSrv'[s] = SubSeq(toSrv[s], k + 1, Len(toSrv[s]))
  BY <1>1 DEF TypeOK
<1>4. QED
  BY <1>2, <1>3, SuffixFacts

LEMMA TakeSuffix ==
  ASSUME TypeOK, NEW s \in Session, NEW n \in Nat, Take(s, n)
  PROVE  Suffix(toCli'[s], toCli[s])
<1>1. toCli[s] \in Seq(Item)
  BY DEF TypeOK
<1>2. toCli'[s] = SubSeq(toCli[s], n + 1, Len(toCli[s]))
  BY DEF Take, TypeOK
<1>3. QED
  BY <1>1, <1>2, SuffixFacts

(* The replies after a send, item by item.                                 *)
LEMMA SendItems ==
  ASSUME TypeOK, NEW s \in Session, NEW items \in Seq(Item), NEW next \in ServerState,
         Send(s, items, next)
  PROVE  /\ ~ open[s] => toCli'[s] = toCli[s]
         /\ NoListing(toCli[s]) /\ NoListing(items) => NoListing(toCli'[s])
<1> DEFINE q == toCli[s]
<1>1. q \in Seq(Item)
  BY DEF TypeOK
<1>2. CASE open[s] /\ toCli' = [toCli EXCEPT ![s] = @ \o items]
  <2>1. toCli'[s] = q \o items
    BY <1>2 DEF TypeOK
  <2>2. /\ Len(q \o items) = Len(q) + Len(items)
        /\ \A i \in 1..Len(q) : (q \o items)[i] = q[i]
        /\ \A i \in (Len(q) + 1)..(Len(q) + Len(items)) : (q \o items)[i] = items[i - Len(q)]
    BY <1>1
  <2>3. NoListing(q) /\ NoListing(items) => NoListing(q \o items)
    BY <1>1, <2>2 DEF NoListing
  <2>4. QED
    BY <1>2, <2>1, <2>3
<1>3. CASE ~ open[s] /\ UNCHANGED toCli
  BY <1>3
<1>4. QED
  BY <1>2, <1>3 DEF Send

LEMMA PlainReplies ==
  NoListing(<< Ack >>) /\ NoListing(StringReply)
<1>1. NoListing(<< Ack >>)
  BY DEF NoListing, Ack
<1>2. \A i \in 1..StringLen : StringReply[i].kind # "listing"
  BY DEF StringReply
<1>3. Len(StringReply) = StringLen
  BY ReplyTypes, ChannelAssumption DEF StringReply
<1>4. QED
  BY <1>1, <1>2, <1>3 DEF NoListing

LEMMA ListingParts ==
  ASSUME NEW names \in SUBSET FileName
  PROVE  /\ Listing(names) \in Seq(Item)
         /\ Len(Listing(names)) = ListingLen
         /\ ListingLen \in Nat /\ ListingLen >= 3
         /\ Listing(names)[1].kind = "listing" /\ Listing(names)[1].names = names
         /\ \A i \in 1..ListingLen : Listing(names)[i].kind = "listing" => i = 1
<1>1. Listing(names) \in Seq(Item)
  BY ReplyTypes
<1>2. ListingLen \in Nat /\ ListingLen >= 3
  BY ChannelAssumption
<1>3. /\ DOMAIN Listing(names) = 1..ListingLen
      /\ Listing(names)[1] = [kind |-> "listing", names |-> names]
      /\ \A i \in 1..ListingLen : i # 1 => Listing(names)[i].kind \in {"nul", "char"}
  BY <1>2 DEF Listing
<1>4. Len(Listing(names)) = ListingLen
  BY <1>1, <1>2, <1>3, LenProperties
<1>5. \A i \in 1..ListingLen : Listing(names)[i].kind = "listing" => i = 1
  BY <1>3
<1>6. QED
  BY <1>1, <1>2, <1>3, <1>4, <1>5

-----------------------------------------------------------------------------
(* The steps of a server process.                                          *)

(* What a process leaves alone.                                            *)
LEMMA ServerLocal ==
  ASSUME IInv, NEW s \in Session, ServerStep(s)
  PROVE  /\ UNCHANGED open
         /\ \A t \in Session \ {s} : /\ toSrv'[t] = toSrv[t]
                                     /\ toCli'[t] = toCli[t]
                                     /\ spc'[t] = spc[t]
<1>1. UNCHANGED open /\ (Recv(s) \/ UNCHANGED toSrv)
  BY DEF ServerStep, CreateFolder, CreateNewFolder, ListDir, OpenUpload, OpenFails, Delete,
         Ignore, Exit, RecvPacket, RecvClosed, StorePacket, Received
<1>2. \A t \in Session \ {s} : toSrv'[t] = toSrv[t]
  BY <1>1, RecvFacts DEF IInv
<1>3. \/ \E items \in Seq(Item), next \in ServerState : Send(s, items, next)
      \/ UNCHANGED toCli /\ (UNCHANGED spc \/ \E p \in ServerState : spc' = [spc EXCEPT ![s] = p])
  <2>1. StringReply \in Seq(Item) /\ << Ack >> \in Seq(Item)
        /\ {"main", "upload", "mkdir", "dead", "returned"} \subseteq ServerState
    BY ReplyTypes DEF ServerState
  <2>2. CASE ListDir(s)
    <3>1. Send(s, Listing(held[cdirectory[s]]), "main") /\ Received(s, "list")
      BY <2>2 DEF ListDir
    <3>2. cdirectory[s] \in Directory
      BY <3>1, ReceivedFacts, DirFacts
    <3>3. Listing(held[cdirectory[s]]) \in Seq(Item)
      BY <3>2, ReplyTypes DEF IInv, TypeOK, ServerTypeOK
    <3>4. QED
      BY <2>1, <3>1, <3>3
  <2>3. CASE CreateFolder(s)
    BY <2>1, <2>3 DEF CreateFolder, create_Folder
  <2>4. CASE CreateNewFolder(s)
    BY <2>1, <2>4 DEF CreateNewFolder
  <2>5. CASE OpenUpload(s)
    BY <2>1, <2>5 DEF OpenUpload
  <2>6. CASE Delete(s)
    BY <2>1, <2>6 DEF Delete
  <2>7. CASE RecvPacket(s) \/ RecvClosed(s)
    BY <2>1, <2>7 DEF RecvPacket, RecvClosed, StorePacket
  <2>8. CASE OpenFails(s) \/ Ignore(s) \/ Exit(s)
    BY <2>1, <2>8 DEF OpenFails, Ignore, Exit
  <2>9. QED
    BY <2>2, <2>3, <2>4, <2>5, <2>6, <2>7, <2>8 DEF ServerStep
<1>4. \A t \in Session \ {s} : toCli'[t] = toCli[t] /\ spc'[t] = spc[t]
  BY <1>3, SendFacts DEF IInv, TypeOK, ServerTypeOK
<1>5. QED
  BY <1>1, <1>2, <1>4

(* The sessions that take no step.                                         *)
LEMMA OthersKept ==
  ASSUME NEW t \in Session, Requests(t), Replies(t), Rows(t),
         toSrv'[t] = toSrv[t], toCli'[t] = toCli[t], open'[t] = open[t],
         spc'[t] = spc[t], cpc'[t] = cpc[t], files'[t] = files[t], astray'[t] = astray[t],
         Alone(t) => Folder(t)' = Folder(t)
  PROVE  Requests(t)' /\ Replies(t)' /\ Rows(t)'
<1>1. Alone(t)' <=> Alone(t)
  BY DEF Alone, Dir
<1>2. Requests(t)'
  BY DEF Requests, Shown, OnlyItself
<1>3. Replies(t)'
  BY <1>1 DEF Replies
<1>4. Rows(t)'
  BY <1>1 DEF Rows, Shown, OnlyItself
<1>5. QED
  BY <1>2, <1>3, <1>4

(* A listing on its way leaves its process nothing to do.                  *)
LEMMA NothingAsked ==
  ASSUME LInv, NEW s \in Session, ServerStep(s), ~ astray[s]
  PROVE  NoListing(toCli[s])
<1>1. SUFFICES ASSUME NEW i \in 1..Len(toCli[s]), toCli[s][i].kind = "listing" PROVE FALSE
  BY DEF NoListing
<1>2. Requests(s) /\ Replies(s) /\ TypeOK
  BY DEF LInv, IInv
<1>3. toSrv[s] = <<>> /\ spc[s] # "mkdir"
  BY <1>1, <1>2 DEF Replies
<1>4. ~ open[s]
  <2>1. ~ Recv(s)
    BY <1>3 DEF Recv
  <2>2. RecvClosed(s)
    BY <1>3, <2>1 DEF ServerStep, CreateFolder, CreateNewFolder, ListDir, OpenUpload,
                      OpenFails, Delete, Ignore, Exit, RecvPacket, Received
  <2>3. QED
    BY <2>2 DEF RecvClosed
<1>5. toCli[s] = <<>>
  BY <1>2, <1>4 DEF Requests
<1>6. QED
  BY <1>1, <1>5

(* Requests that are left after some have been received.                   *)
LEMMA RequestsLeft ==
  ASSUME NEW s \in Session, Requests(s), TypeOK,
         Suffix(toSrv'[s], toSrv[s]),
         ~ open[s] => toCli'[s] = toCli[s],
         open'[s] = open[s], cpc'[s] = cpc[s], files'[s] = files[s], astray'[s] = astray[s]
  PROVE  Requests(s)'
<1>1. PICK k \in 0..Len(toSrv[s]) :
        /\ Len(toSrv'[s]) = Len(toSrv[s]) - k
        /\ \A i \in 1..Len(toSrv'[s]) : toSrv'[s][i] = toSrv[s][i + k]
  BY DEF Suffix
<1>2. Len(toSrv[s]) \in Nat
  BY DEF TypeOK
<1>3. ASSUME NEW i \in 1..Len(toSrv'[s])
      PROVE  /\ i + k \in 1..Len(toSrv[s])
             /\ toSrv'[s][i] = toSrv[s][i + k]
             /\ i + k = Len(toSrv[s]) => i = Len(toSrv'[s])
  BY <1>1, <1>2
<1>4. ~ open'[s] => toCli'[s] = <<>>
  BY DEF Requests
<1>5. ASSUME NEW i \in 1..Len(toSrv'[s]), ~ astray[s]
      PROVE  /\ open'[s] /\ toSrv'[s][i].op = "list" => cpc'[s] = "list" /\ i = Len(toSrv'[s])
             /\ toSrv'[s][i].op \in {"delete", "upload"} => toSrv'[s][i].name \notin Shown(s)
  BY <1>3, <1>5 DEF Requests
<1>6. QED
  BY <1>4, <1>5 DEF Requests, Shown, OnlyItself

(* No step but LIST_DIR adds a listing, and a closed client gets nothing.  *)
LEMMA RepliesAdded ==
  ASSUME IInv, NEW s \in Session, ServerStep(s)
  PROVE  /\ ~ open[s] => toCli'[s] = toCli[s]
         /\ NoListing(toCli[s]) /\ ~ ListDir(s) => NoListing(toCli'[s])
<1>1. StringReply \in Seq(Item) /\ << Ack >> \in Seq(Item)
      /\ {"main", "upload"} \subseteq ServerState
  BY ReplyTypes DEF ServerState
<1>2. CASE \/ Send(s, StringReply, "main") \/ Send(s, << Ack >>, "main")
           \/ Send(s, << Ack >>, "upload")
  BY <1>1, <1>2, SendItems, PlainReplies DEF IInv
<1>3. CASE UNCHANGED toCli
  BY <1>3
<1>4. CASE ListDir(s)
  BY <1>4 DEF ListDir, Send
<1>5. QED
  BY <1>2, <1>3, <1>4
  DEF ServerStep, CreateFolder, create_Folder, CreateNewFolder, OpenUpload, OpenFails, Delete,
      Ignore, Exit, RecvPacket, RecvClosed, StorePacket

LEMMA ServeRequests ==
  ASSUME LInv, NEW s \in Session, ServerStep(s), UNCHANGED clientVars
  PROVE  Requests(s)'
<1>1. IInv /\ TypeOK /\ Requests(s)
  BY DEF LInv, IInv
<1>2. toSrv[s] \in Seq(Message)
  BY <1>1 DEF TypeOK
<1>3. Suffix(toSrv'[s], toSrv[s])
  <2>1. Recv(s) \/ UNCHANGED toSrv
    BY DEF ServerStep, CreateFolder, CreateNewFolder, ListDir, OpenUpload, OpenFails, Delete,
           Ignore, Exit, RecvPacket, RecvClosed, StorePacket, Received
  <2>2. CASE Recv(s)
    BY <1>1, <2>2, RecvSuffix
  <2>3. CASE UNCHANGED toSrv
    BY <1>2, <2>3, SameSuffix
  <2>4. QED
    BY <2>1, <2>2, <2>3
<1>4. UNCHANGED <<open, cpc, files, astray>>
  BY <1>1, ServerLocal DEF clientVars
<1>5. QED
  BY <1>1, <1>3, <1>4, RepliesAdded, RequestsLeft

(* A folder loses only a file that was asked for, which no row shows.      *)
LEMMA ServeRows ==
  ASSUME LInv, NEW s \in Session, ServerStep(s), UNCHANGED clientVars
  PROVE  Rows(s)'
<1> DEFINE m == Head(toSrv[s])
           d == Dir(s)
<1>1. IInv /\ Requests(s) /\ Rows(s) /\ d \in Directory
  BY DirFacts DEF LInv
<1>2. held \in [Directory -> SUBSET FileName] /\ toSrv[s] \in Seq(Message)
  BY <1>1 DEF IInv, TypeOK, ServerTypeOK
<1>3. ASSUME NEW op \in {"upload", "delete"}, Received(s, op), ~ astray[s]
      PROVE  m.name \notin Shown(s) /\ cdirectory[s] = d
  <2>1. m.op = op /\ toSrv[s] # <<>>
    BY <1>3 DEF Received
  <2>2. 1 \in 1..Len(toSrv[s]) /\ m = toSrv[s][1]
    BY <1>2, <2>1
  <2>3. cdirectory[s] = d
    BY <1>1, <1>3, ReceivedFacts
  <2>4. QED
    BY <1>1, <1>3, <2>1, <2>2, <2>3 DEF Requests
<1>4. ASSUME ~ astray[s] PROVE Shown(s) \cap held[d] \subseteq held'[d]
  <2>1. CASE UNCHANGED held
    BY <2>1
  <2>2. CASE OpenUpload(s)
    <3>1. m.name \notin Shown(s) /\ cdirectory[s] = d
      BY <1>3, <1>4, <2>2 DEF OpenUpload
    <3>2. \/ held' = [held EXCEPT ![d] = @ \cup {m.name}]
          \/ held' = [held EXCEPT ![d] = @ \ {m.name}]
      <4>1. Emptied(d, m.name) \/ Unlinked(d, m.name)
        BY <2>2, <3>1 DEF OpenUpload
      <4>2. QED
        BY <4>1 DEF Emptied, Unlinked
    <3>3. QED
      BY <1>1, <1>2, <3>1, <3>2
  <2>3. CASE Delete(s)
    <3>1. m.name \notin Shown(s) /\ cdirectory[s] = d
      BY <1>3, <1>4, <2>3 DEF Delete
    <3>2. held' = [held EXCEPT ![d] = @ \ {m.name}] \/ UNCHANGED held
      BY <2>3, <3>1 DEF Delete, Remove, Unlinked
    <3>3. QED
      BY <1>1, <1>2, <3>1, <3>2
  <2>4. QED
    BY <2>1, <2>2, <2>3
    DEF ServerStep, CreateFolder, CreateNewFolder, ListDir, OpenFails, Ignore, Exit,
        RecvPacket, RecvClosed, StorePacket, diskVars
<1>5. Alone(s)' = Alone(s) /\ Shown(s)' = Shown(s) /\ astray' = astray
  BY DEF Alone, Dir, Shown, OnlyItself, clientVars
<1>6. Folder(s)' = held'[d] /\ Folder(s) = held[d]
  BY DEF Folder, Dir
<1>7. QED
  BY <1>1, <1>4, <1>5, <1>6 DEF Rows

(* LIST_DIR answers the last request, and with it nothing is left to do.   *)
LEMMA ListDirReplies ==
  ASSUME LInv, NEW s \in Session, ListDir(s), UNCHANGED clientVars
  PROVE  Replies(s)'
<1> DEFINE x == Listing(held[cdirectory[s]])
           q == toCli[s]
<1> SUFFICES ASSUME ~ astray[s] PROVE Replies(s)'
  BY DEF Replies, clientVars
<1>1. IInv /\ TypeOK /\ Requests(s) /\ toSrv[s] \in Seq(Message) /\ q \in Seq(Item)
  BY DEF LInv, IInv, TypeOK
<1>2. Received(s, "list") /\ Send(s, x, "main") /\ held' = held
  BY DEF ListDir, diskVars
<1>3. toSrv[s] # <<>> /\ Head(toSrv[s]).op = "list" /\ Recv(s) /\ open' = open
  BY <1>2 DEF Received
<1>4. CASE ~ open[s]
  <2>1. toCli'[s] = <<>>
    BY <1>1, <1>2, <1>4 DEF Send, Requests
  <2>2. QED
    BY <2>1 DEF Replies
<1>5. CASE open[s]
  <2>1. toCli'[s] = q \o x /\ spc'[s] = "main"
    BY <1>1, <1>2, <1>5 DEF Send, TypeOK, ServerTypeOK
  <2>2. 1 \in 1..Len(toSrv[s]) /\ Head(toSrv[s]) = toSrv[s][1]
    BY <1>1, <1>3
  <2>3. cpc[s] = "list" /\ 1 = Len(toSrv[s])
    BY <1>1, <1>3, <1>5, <2>2 DEF Requests
  <2>4. toSrv'[s] = <<>>
    BY <1>1, <1>3, <2>3, RecvFacts DEF IInv
  <2>5. cdirectory[s] = Dir(s) /\ held[cdirectory[s]] \in SUBSET FileName
    BY <1>1, <1>2, ReceivedFacts, DirFacts DEF TypeOK, ServerTypeOK
  <2>6. NoListing(q)
    BY NothingAsked DEF ServerStep
  <2>7. /\ x \in Seq(Item) /\ Len(x) = ListingLen /\ ListingLen \in Nat /\ ListingLen >= 3
        /\ \A i \in 1..ListingLen : x[i].kind = "listing" => i = 1
        /\ x[1].names = held[cdirectory[s]]
    BY <2>5, ListingParts
  <2>8. \A i \in 1..Len(toCli'[s]) : toCli'[s][i].kind = "listing" =>
          i + ListingLen - 1 = Len(toCli'[s]) /\ toCli'[s][i] = x[1]
    <3> HIDE DEF x, q
    <3>1. /\ Len(q \o x) = Len(q) + Len(x)
          /\ \A i \in 1..Len(q) : (q \o x)[i] = q[i]
          /\ \A i \in (Len(q) + 1)..(Len(q) + Len(x)) : (q \o x)[i] = x[i - Len(q)]
      BY <1>1, <2>7
    <3>2. ASSUME NEW i \in 1..Len(q \o x), (q \o x)[i].kind = "listing"
          PROVE  i = Len(q) + 1
      <4>1. i \notin 1..Len(q)
        BY <2>6, <3>1, <3>2 DEF NoListing
      <4>2. i \in (Len(q) + 1)..(Len(q) + Len(x)) /\ Len(q) \in Nat
        BY <1>1, <2>7, <3>1, <4>1
      <4>3. i - Len(q) \in 1..ListingLen
        BY <2>7, <4>2
      <4>4. QED
        BY <2>7, <3>1, <3>2, <4>2, <4>3
    <3>3. QED
      BY <1>1, <2>1, <2>7, <3>1, <3>2
  <2>9. x[1].names \subseteq Folder(s)'
    BY <1>2, <2>5, <2>7 DEF Folder, Dir
  <2>10. cpc'[s] = "list"
    BY <2>3 DEF clientVars
  <2>11. QED
    BY <2>1, <2>4, <2>8, <2>9, <2>10 DEF Replies
<1>6. QED
  BY <1>4, <1>5

LEMMA ServeListing ==
  ASSUME LInv, NEW s \in Session, Serve(s)
  PROVE  LInv'
<1>1. IInv /\ ServerStep(s) /\ UNCHANGED clientVars
  BY DEF LInv, Serve
<1>2. IInv'
  BY <1>1, ServeStep
<1>3. ASSUME NEW t \in Session, t # s PROVE Requests(t)' /\ Replies(t)' /\ Rows(t)'
  <2>1. Requests(t) /\ Replies(t) /\ Rows(t)
    BY DEF LInv
  <2>2. /\ toSrv'[t] = toSrv[t] /\ toCli'[t] = toCli[t] /\ spc'[t] = spc[t]
        /\ open'[t] = open[t] /\ cpc'[t] = cpc[t] /\ files'[t] = files[t]
        /\ astray'[t] = astray[t]
    BY <1>1, <1>3, ServerLocal DEF clientVars
  <2>3. Alone(t) => Folder(t)' = Folder(t)
    <3>1. SUFFICES ASSUME Alone(t) PROVE Folder(t)' = Folder(t)
      OBVIOUS
    <3>2. Dir(t) # Dir(s) /\ Dir(t) \in Directory
      BY <1>3, <3>1, DirFacts DEF Alone
    <3>3. SameFolder(Dir(t))
      BY <1>1, <3>2, OtherFolders
    <3>4. Folder(t)' = held'[Dir(t)]
      BY DEF Folder, Dir
    <3>5. QED
      BY <3>3, <3>4 DEF SameFolder, Folder
  <2>4. QED
    BY <2>1, <2>2, <2>3, OthersKept
<1>4. Requests(s)'
  BY <1>1, ServeRequests
<1>5. Replies(s)'
  <2>1. CASE ListDir(s)
    BY <1>1, <2>1, ListDirReplies
  <2>2. CASE ~ ListDir(s)
    <3>1. ~ astray[s] => NoListing(toCli'[s])
      BY <1>1, <2>2, NothingAsked, RepliesAdded
    <3>2. astray' = astray
      BY <1>1 DEF clientVars
    <3>3. QED
      BY <3>1, <3>2 DEF NoListing, Replies
  <2>3. QED
    BY <2>1, <2>2
<1>6. Rows(s)'
  BY <1>1, ServeRows
<1>7. QED
  BY <1>2, <1>3, <1>4, <1>5, <1>6 DEF LInv

-----------------------------------------------------------------------------
(* The steps of a client.                                                  *)

(* A client touches nothing of the other sessions.                         *)
Apart(t) ==
  /\ toSrv'[t] = toSrv[t] /\ toCli'[t] = toCli[t] /\ open'[t] = open[t]
  /\ cpc'[t] = cpc[t] /\ files'[t] = files[t] /\ astray'[t] = astray[t]

LEMMA ClientLocal ==
  ASSUME TypeOK, NEW s \in Session, UserAct(s) \/ ClientRead(s) \/ ClientTimeout(s),
         NEW t \in Session, t # s
  PROVE  Apart(t)
<1> USE DEF TypeOK, ClientTypeOK, Apart
<1>1. CASE Initialize(s)
  BY <1>1 DEF Initialize, Write, Goto
<1>2. CASE RefreshListFiles(s)
  BY <1>2 DEF RefreshListFiles, RefreshFiles, Write, Goto
<1>3. CASE \E f \in FileName : UploadFile(s, f) \/ DeleteFile(s, f) \/ DownloadFile(s, f)
  BY <1>3 DEF UploadFile, DeleteFile, DropRow, DownloadFile, Write, Goto
<1>4. CASE UserLogout(s) \/ Crash(s) \/ ExitTimeout(s) \/ ListMisread(s)
  BY <1>4 DEF UserLogout, Crash, ExitTimeout, ListMisread, Catch, Close, Take, Goto
<1>5. CASE CreateFolderDone(s) \/ DelReply(s)
  BY <1>5 DEF CreateFolderDone, DelReply, RefreshFiles, TakeString, Take, Write, Goto
<1>6. CASE ListDone(s) \/ DlHeader(s) \/ DlBlock(s)
  BY <1>6 DEF ListDone, DlHeader, DlBlock, Take, Write, Goto
<1>7. CASE UpConfirm(s) \/ UpAck(s)
  BY <1>7 DEF UpConfirm, UpAck, NextBlock, Take, Write, Goto
<1>8. CASE UpTimeout(s) \/ ReplyTimeout(s)
  BY <1>8 DEF UpTimeout, ReplyTimeout, Take, Write, Goto
<1>9. QED
  BY <1>1, <1>2, <1>3, <1>4, <1>5, <1>6, <1>7, <1>8
  DEF UserAct, ClientRead, ClientTimeout

(* A request is written that does not ask for a file of a row, nor for the *)
(* list unless it is waited for.                                           *)
Asks(s, m) ==
  /\ Write(s, m)
  /\ m.op = "list" => cpc'[s] = "list"
  /\ m.op \in {"delete", "upload"} => m.name \notin Shown(s)'

(* A client that waits for no list writes, or not, and reads, or not.      *)
LEMMA Talks ==
  ASSUME LInv, IInv', NEW s \in Session,
         UNCHANGED <<open, astray, serverVars>>,
         cpc[s] # "list",
         files'[s] \subseteq files[s],
         Suffix(toCli'[s], toCli[s]),
         UNCHANGED toSrv \/ (\E m \in OwnMessage(s) : Asks(s, m))
  PROVE  Requests(s)' /\ Replies(s)' /\ Rows(s)'
<1>1. IInv /\ TypeOK /\ Requests(s) /\ Replies(s) /\ Rows(s)
  BY DEF LInv, IInv
<1>2. toSrv[s] \in Seq(Message) /\ toCli[s] \in Seq(Item)
  BY <1>1 DEF TypeOK
<1>3. PICK k \in 0..Len(toCli[s]) :
        /\ Len(toCli'[s]) = Len(toCli[s]) - k
        /\ \A i \in 1..Len(toCli'[s]) : toCli'[s][i] = toCli[s][i + k]
  BY DEF Suffix
<1>4. ASSUME ~ astray[s] PROVE NoListing(toCli'[s])
  <2>1. NoListing(toCli[s])
    BY <1>1, <1>4 DEF Replies, NoListing
  <2>2. \A i \in 1..Len(toCli'[s]) : i + k \in 1..Len(toCli[s])
    BY <1>2, <1>3
  <2>3. QED
    BY <1>3, <2>1, <2>2 DEF NoListing
<1>5. Replies(s)'
  BY <1>4 DEF NoListing, Replies
<1>6. Rows(s)'
  <2>1. Alone(s)' = Alone(s) /\ Folder(s)' = Folder(s) /\ Shown(s)' \subseteq Shown(s)
    BY DEF Alone, Dir, Folder, Shown, OnlyItself, serverVars
  <2>2. QED
    BY <1>1, <2>1 DEF Rows
<1>7. ~ open'[s] => toCli'[s] = <<>>
  <2>1. SUFFICES ASSUME ~ open[s] PROVE toCli'[s] = <<>>
    OBVIOUS
  <2>2. toCli[s] = <<>> /\ toCli'[s] \in Seq(Item)
    BY <1>1, <2>1 DEF Requests, IInv, TypeOK
  <2>3. Len(toCli'[s]) = 0
    BY <1>3, <2>2
  <2>4. QED
    BY <2>2, <2>3, EmptySeq
<1>8. ASSUME NEW i \in 1..Len(toSrv'[s]), ~ astray[s]
      PROVE  /\ open'[s] /\ toSrv'[s][i].op = "list" => cpc'[s] = "list" /\ i = Len(toSrv'[s])
             /\ toSrv'[s][i].op \in {"delete", "upload"} => toSrv'[s][i].name \notin Shown(s)'
  <2> Shown(s)' \subseteq Shown(s)
    BY DEF Shown, OnlyItself
  <2>1. CASE UNCHANGED toSrv
    BY <1>1, <1>8, <2>1 DEF Requests
  <2>2. CASE \E m \in OwnMessage(s) : Asks(s, m)
    <3>1. PICK m \in OwnMessage(s) : Asks(s, m)
      BY <2>2
    <3>2. toSrv'[s] = Append(toSrv[s], m)
      BY <1>1, <3>1, WriteFacts DEF Asks, IInv
    <3>3. /\ Len(toSrv'[s]) = Len(toSrv[s]) + 1
          /\ toSrv'[s][Len(toSrv[s]) + 1] = m
          /\ \A j \in 1..Len(toSrv[s]) : toSrv'[s][j] = toSrv[s][j]
      BY <1>2, <3>2, AppendProperties DEF OwnMessage
    <3>4. CASE i = Len(toSrv[s]) + 1
      BY <3>1, <3>3, <3>4 DEF Asks
    <3>5. CASE i \in 1..Len(toSrv[s])
      BY <1>1, <1>8, <3>3, <3>5 DEF Requests
    <3>6. QED
      BY <1>2, <3>3, <3>4, <3>5
  <2>3. QED
    BY <2>1, <2>2
<1>9. Requests(s)'
  BY <1>7, <1>8 DEF Requests
<1>10. QED
  BY <1>5, <1>6, <1>9

(* What a row that is not shown is sent by is the name of no shown row.    *)
LEMMA SentApart ==
  ASSUME NEW s \in Session, NEW f \in FileName, f \notin files'[s]
  PROVE  SentAs[f] \notin Shown(s)'
<1>1. SUFFICES ASSUME SentAs[f] \in files'[s], OnlyItself(SentAs[f]) PROVE FALSE
  BY DEF Shown, OnlyItself
<1>2. f \in Sources(SentAs[f])
  BY DEF Sources
<1>3. f = SentAs[f]
  BY <1>1, <1>2 DEF OnlyItself
<1>4. QED
  BY <1>1, <1>3

LEMMA TalkListing ==
  ASSUME LInv, IInv', NEW s \in Session, UNCHANGED serverVars,
         \/ RefreshListFiles(s) \/ CreateFolderDone(s) \/ DelReply(s)
         \/ UpConfirm(s) \/ UpAck(s) \/ DlHeader(s) \/ DlBlock(s)
         \/ UpTimeout(s) \/ ReplyTimeout(s)
         \/ \E f \in FileName : UploadFile(s, f) \/ DeleteFile(s, f) \/ DownloadFile(s, f)
  PROVE  Requests(s)' /\ Replies(s)' /\ Rows(s)'
<1>1. IInv /\ TypeOK /\ toCli[s] \in Seq(Item) /\ UserOf[s] \in User
  BY ChannelAssumption DEF LInv, IInv, TypeOK
<1>2. cpc[s] # "list" /\ UNCHANGED <<open, astray>>
  BY DEF RefreshListFiles, CreateFolderDone, DelReply, UpConfirm, UpAck, DlHeader, DlBlock,
         UpTimeout, ReplyTimeout, UploadFile, DeleteFile, DownloadFile, Press
<1>3. files'[s] \subseteq files[s]
  BY <1>1
  DEF RefreshListFiles, CreateFolderDone, DelReply, UpConfirm, UpAck, DlHeader, DlBlock,
      UpTimeout, ReplyTimeout, UploadFile, DeleteFile, DropRow, DownloadFile, RefreshFiles,
      TypeOK, ClientTypeOK
<1>4. Suffix(toCli'[s], toCli[s])
  <2>1. CASE UNCHANGED toCli
    BY <1>1, <2>1, SameSuffix
  <2>2. CASE \E n \in Nat : Take(s, n)
    BY <1>1, <2>2, TakeSuffix
  <2>3. TakeString(s) => \E n \in Nat : Take(s, n)
    BY <1>1, TakeStringFacts
  <2>4. 1 \in Nat /\ 3 \in Nat /\ Len(toCli[s]) \in Nat
    BY <1>1
  <2>5. UNCHANGED toCli \/ \E n \in Nat : Take(s, n)
    BY <2>3, <2>4
    DEF RefreshListFiles, CreateFolderDone, DelReply, UpConfirm, UpAck, DlHeader, DlBlock,
        UpTimeout, ReplyTimeout, UploadFile, DeleteFile, DownloadFile
  <2>6. QED
    BY <2>1, <2>2, <2>5
<1>5. UNCHANGED toSrv \/ (\E m \in OwnMessage(s) : Asks(s, m))
  <2>1. cpc \in [Session -> Waiting \cup {"new", "idle", "stranded", "closed"}]
        /\ files \in [Session -> SUBSET FileName]
    BY <1>1 DEF TypeOK, ClientTypeOK
  <2>2. CASE RefreshListFiles(s) \/ CreateFolderDone(s) \/ DelReply(s)
    <3>1. Write(s, Msg("list", UserOf[s], 0)) /\ Goto(s, "list")
      BY <2>2 DEF RefreshListFiles, CreateFolderDone, DelReply, RefreshFiles
    <3>2. Asks(s, Msg("list", UserOf[s], 0))
      BY <2>1, <3>1 DEF Asks, Goto, Msg
    <3>3. Msg("list", UserOf[s], 0) \in OwnMessage(s)
      BY <1>1 DEF OwnMessage, Message, Msg
    <3>4. QED
      BY <3>2, <3>3
  <2>3. ASSUME NEW op \in {"data", "confirm", "error", "download"}, NEW f, NEW n,
               Msg(op, f, n) \in OwnMessage(s), Write(s, Msg(op, f, n))
        PROVE  \E m \in OwnMessage(s) : Asks(s, m)
    <3>1. Asks(s, Msg(op, f, n))
      BY <2>3 DEF Asks, Msg
    <3>2. QED
      BY <2>3, <3>1
  <2>4. CASE UpConfirm(s) \/ UpAck(s)
    <3>1. sel[s] \in FileName /\ blockNo[s] + 1 \in Nat
      BY <1>1, <2>4 DEF UpConfirm, UpAck, TypeOK, ClientTypeOK
    <3>2. UNCHANGED toSrv \/ \E b \in Nat : Write(s, Msg("data", sel[s], b))
      BY <2>4, <3>1 DEF UpConfirm, UpAck, NextBlock
    <3>3. QED
      BY <2>3, <3>1, <3>2, MessageTypes
  <2>5. CASE DlHeader(s) \/ DlBlock(s)
    <3>1. Msg("confirm", NoName, 0) \in OwnMessage(s)
      BY DEF OwnMessage, Message, Msg
    <3>2. QED
      BY <2>3, <2>5, <3>1 DEF DlHeader, DlBlock
  <2>6. CASE UpTimeout(s) \/ ReplyTimeout(s)
    <3>1. Msg("error", NoName, 0) \in OwnMessage(s)
      BY DEF OwnMessage, Message, Msg
    <3>2. QED
      BY <2>3, <2>6, <3>1 DEF UpTimeout, ReplyTimeout
  <2>7. ASSUME NEW f \in FileName, UploadFile(s, f)
        PROVE  \E m \in OwnMessage(s) : Asks(s, m)
    <3> DEFINE m == Msg("upload", SentAs[f], BlocksOf[f])
    <3>1. Asks(s, m)
      <4>1. SentAs[f] \notin Shown(s)'
        BY <2>7, SentApart DEF UploadFile
      <4>2. m.op = "upload" /\ m.name = SentAs[f] /\ Write(s, m)
        BY <2>7 DEF UploadFile, Msg
      <4>3. QED
        BY <4>1, <4>2 DEF Asks
    <3>2. m \in OwnMessage(s)
      BY MessageTypes, ChannelAssumption
    <3>3. QED
      BY <3>1, <3>2
  <2>8. ASSUME NEW f \in FileName, DeleteFile(s, f)
        PROVE  \E m \in OwnMessage(s) : Asks(s, m)
    <3> DEFINE m == Msg("delete", SentAs[f], 0)
    <3>1. Asks(s, m)
      <4>1. f \notin files'[s]
        BY <2>1, <2>8 DEF DeleteFile, DropRow
      <4>2. SentAs[f] \notin Shown(s)'
        BY <4>1, SentApart
      <4>3. m.op = "delete" /\ m.name = SentAs[f] /\ Write(s, m)
        BY <2>8 DEF DeleteFile, Msg
      <4>4. QED
        BY <4>2, <4>3 DEF Asks
    <3>2. m \in OwnMessage(s)
      BY MessageTypes, ChannelAssumption
    <3>3. QED
      BY <3>1, <3>2
  <2>9. ASSUME NEW f \in FileName, DownloadFile(s, f)
        PROVE  \E m \in OwnMessage(s) : Asks(s, m)
    <3>1. SentAs[f] \in FileName
      BY ChannelAssumption
    <3>2. QED
      BY <2>3, <2>9, <3>1, MessageTypes DEF DownloadFile
  <2>10. QED
    BY <2>2, <2>4, <2>5, <2>6, <2>7, <2>8, <2>9
<1>6. QED
  BY <1>2, <1>3, <1>4, <1>5, Talks

(* getFiles gets its listing: nothing is asked and nothing else has come.  *)
LEMMA ListDoneListing ==
  ASSUME LInv, IInv', NEW s \in Session, ListDone(s), UNCHANGED serverVars
  PROVE  Requests(s)' /\ Replies(s)' /\ Rows(s)'
<1> DEFINE x == Head(toCli[s])
<1>1. TypeOK /\ Requests(s) /\ Replies(s) /\ Rows(s) /\ toCli[s] \in Seq(Item)
  BY DEF LInv, IInv, TypeOK
<1>2. /\ toCli[s] # <<>> /\ x.kind = "listing" /\ Take(s, ListingLen)
      /\ UNCHANGED <<toSrv, open, astray>>
      /\ files'[s] = files[s] \cup x.names
  BY <1>1 DEF ListDone, TypeOK, ClientTypeOK
<1>3. 1 \in 1..Len(toCli[s]) /\ x = toCli[s][1] /\ ListingLen \in Nat
  BY <1>1, <1>2, ChannelAssumption
<1>4. /\ open[s] \/ toCli'[s] = <<>>
      /\ toCli'[s] = SubSeq(toCli[s], ListingLen + 1, Len(toCli[s]))
  BY <1>1, <1>2 DEF Take, TypeOK, Requests
<1>5. CASE astray[s]
  BY <1>2, <1>4, <1>5 DEF Requests, Replies, Rows
<1>6. CASE ~ astray[s]
  <2>1. 1 + ListingLen - 1 = Len(toCli[s]) /\ toSrv[s] = <<>>
        /\ (Alone(s) => x.names \subseteq Folder(s))
    BY <1>1, <1>2, <1>3, <1>6 DEF Replies
  <2>2. toCli'[s] = <<>>
    BY <1>3, <1>4, <2>1, SubSeqEmpty
  <2>3. Requests(s)' /\ Replies(s)'
    BY <1>2, <2>1, <2>2 DEF Requests, Replies
  <2>4. /\ Alone(s)' = Alone(s) /\ Folder(s)' = Folder(s)
        /\ Shown(s)' \subseteq Shown(s) \cup x.names
    BY <1>2 DEF Alone, Dir, Folder, Shown, OnlyItself, serverVars
  <2>5. Rows(s)'
    BY <1>1, <1>2, <1>6, <2>1, <2>4 DEF Rows
  <2>6. QED
    BY <2>3, <2>5
<1>7. QED
  BY <1>5, <1>6

(* A connection the client lets go of carries only what was written.       *)
LEMMA CloseListing ==
  ASSUME LInv, NEW s \in Session, NEW sent \in Seq(Message), Close(s, sent),
         UNCHANGED <<files, astray, serverVars>>,
         ~ astray[s] => \A i \in 1..Len(sent) :
           sent[i].op \in {"delete", "upload"} => sent[i].name \notin Shown(s)
  PROVE  Requests(s)' /\ Replies(s)' /\ Rows(s)'
<1>1. TypeOK /\ Rows(s)
  BY DEF LInv, IInv
<1>2. PICK k \in 0..Len(sent) : toSrv' = [toSrv EXCEPT ![s] = SubSeq(sent, 1, k)]
  BY DEF Close
<1>3. toSrv'[s] = SubSeq(sent, 1, k) /\ ~ open'[s] /\ toCli'[s] = <<>>
  BY <1>1, <1>2 DEF Close, TypeOK
<1>4. \A i \in 1..Len(toSrv'[s]) : i \in 1..Len(sent) /\ toSrv'[s][i] = sent[i]
  <2>1. \A i \in 1..k : sent[i] \in Message
    OBVIOUS
  <2>2. /\ Len(SubSeq(sent, 1, k)) = IF 1 <= k THEN k - 1 + 1 ELSE 0
        /\ \A i \in 1 .. k - 1 + 1 : SubSeq(sent, 1, k)[i] = sent[1 + i - 1]
    BY <2>1, SubSeqProperties
  <2>3. QED
    BY <1>3, <2>2
<1>5. Requests(s)'
  BY <1>3, <1>4 DEF Requests, Shown, OnlyItself
<1>6. Replies(s)'
  BY <1>3 DEF Replies
<1>7. Rows(s)'
  BY <1>1 DEF Rows, Alone, Dir, Folder, Shown, OnlyItself, serverVars
<1>8. QED
  BY <1>5, <1>6, <1>7

(* A session that goes on without its listing: nothing is claimed of it.   *)
LEMMA AstrayListing ==
  ASSUME LInv, IInv', NEW s \in Session, astray'[s], UNCHANGED open,
         Suffix(toCli'[s], toCli[s])
  PROVE  Requests(s)' /\ Replies(s)' /\ Rows(s)'
<1>1. ASSUME ~ open[s] PROVE toCli'[s] = <<>>
  <2>1. toCli[s] = <<>> /\ toCli'[s] \in Seq(Item)
    BY <1>1 DEF LInv, Requests, IInv, TypeOK
  <2>2. Len(toCli'[s]) = 0
    BY <2>1 DEF Suffix
  <2>3. QED
    BY <2>1, <2>2, EmptySeq
<1>2. QED
  BY <1>1 DEF Requests, Replies, Rows

LEMMA ClosingListing ==
  ASSUME LInv, IInv', NEW s \in Session, UNCHANGED serverVars,
         UserLogout(s) \/ Crash(s) \/ ExitTimeout(s) \/ ListMisread(s)
  PROVE  Requests(s)' /\ Replies(s)' /\ Rows(s)'
<1> DEFINE q == toSrv[s]
           m == Msg("exit", NoName, 0)
<1>1. Requests(s) /\ q \in Seq(Message)
  BY DEF LInv, IInv, TypeOK
<1>2. ~ astray[s] =>
        \A i \in 1..Len(q) : q[i].op \in {"delete", "upload"} => q[i].name \notin Shown(s)
  BY <1>1 DEF Requests
<1>3. CASE UserLogout(s)
  <2>1. m \in Message /\ m.op = "exit"
    BY DEF Message, Msg
  <2>2. Append(q, m) \in Seq(Message)
    BY <1>1, <2>1
  <2>3. ~ astray[s] => \A i \in 1..Len(Append(q, m)) :
          Append(q, m)[i].op \in {"delete", "upload"} => Append(q, m)[i].name \notin Shown(s)
    <3>1. /\ Len(Append(q, m)) = Len(q) + 1
          /\ Append(q, m)[Len(q) + 1] = m
          /\ \A j \in 1..Len(q) : Append(q, m)[j] = q[j]
      BY <1>1, <2>1, AppendProperties
    <3>2. ASSUME NEW i \in 1..Len(Append(q, m)) PROVE i = Len(q) + 1 \/ i \in 1..Len(q)
      BY <1>1, <3>1
    <3> HIDE DEF q, m
    <3>3. QED
      BY <1>2, <2>1, <3>1, <3>2
  <2>4. Close(s, Append(q, m)) /\ UNCHANGED <<files, astray>>
    BY <1>3 DEF UserLogout
  <2>5. QED
    BY <2>2, <2>3, <2>4, CloseListing
<1>4. CASE Close(s, q) /\ UNCHANGED <<files, astray>>
  BY <1>1, <1>2, <1>4, CloseListing
<1>5. CASE \E n \in Nat : Take(s, n) /\ astray' = [astray EXCEPT ![s] = TRUE] /\ UNCHANGED open
  <2>1. TypeOK
    BY DEF LInv, IInv
  <2>2. astray'[s]
    BY <1>5, <2>1 DEF TypeOK, ClientTypeOK
  <2>3. QED
    BY <1>5, <2>1, <2>2, TakeSuffix, AstrayListing
<1>6. CASE Catch(s) /\ (cpc'[s] = "closed" => UNCHANGED files)
  <2>1. TypeOK /\ Len(toCli[s]) \in Nat
    BY DEF LInv, IInv, TypeOK
  <2>2. CASE Close(s, q) /\ UNCHANGED astray
    <3>1. cpc'[s] = "closed"
      BY <2>1, <2>2 DEF Close, Goto, TypeOK, ClientTypeOK
    <3>2. QED
      BY <1>4, <1>6, <2>2, <3>1
  <2>3. CASE Take(s, Len(toCli[s])) /\ astray' = [astray EXCEPT ![s] = TRUE] /\ UNCHANGED open
    BY <1>5, <2>1, <2>3
  <2>4. QED
    BY <1>6, <2>2, <2>3 DEF Catch
<1>7. CASE Crash(s)
  BY <1>4, <1>7 DEF Crash
<1>8. CASE ExitTimeout(s)
  BY <1>6, <1>8 DEF ExitTimeout
<1>9. CASE ListMisread(s)
  <2>1. files \in [Session -> SUBSET FileName] /\ Len(toCli[s]) \in Nat
    BY DEF LInv, IInv, TypeOK, ClientTypeOK
  <2>2. cpc'[s] = "closed" => UNCHANGED files
    BY <1>9, <2>1 DEF ListMisread
  <2>3. \A n \in 3..Len(toCli[s]) : n \in Nat
    BY <2>1
  <2>4. Catch(s) \/ \E n \in Nat : Take(s, n) /\ astray' = [astray EXCEPT ![s] = TRUE]
                                   /\ UNCHANGED open
    BY <1>9, <2>3 DEF ListMisread
  <2>5. QED
    BY <1>5, <1>6, <2>2, <2>4
<1>10. QED
  BY <1>3, <1>7, <1>8, <1>9

LEMMA InitializeListing ==
  ASSUME LInv, NEW s \in Session, Initialize(s), UNCHANGED serverVars
  PROVE  Requests(s)' /\ Replies(s)' /\ Rows(s)'
<1> DEFINE m == Msg("create", UserOf[s], 0)
<1>1. /\ TypeOK /\ Rows(s) /\ cpc[s] = "new" /\ Write(s, m)
      /\ UNCHANGED <<toCli, files, astray>>
  BY DEF LInv, IInv, Initialize
<1>2. toSrv[s] = <<>> /\ toCli[s] = <<>>
  BY <1>1 DEF LInv, IInv, NoFolderYet, DirIsOwners
<1>3. toSrv'[s] = << m >> /\ toCli'[s] = <<>>
  BY <1>1, <1>2 DEF Write, TypeOK
<1>4. m.op = "create"
  BY DEF Msg
<1>5. Requests(s)'
  <2>1. \A i \in 1..Len(toSrv'[s]) : toSrv'[s][i] = m
    BY <1>3
  <2> HIDE DEF m
  <2>2. QED
    BY <1>3, <1>4, <2>1 DEF Requests
<1>6. Replies(s)' /\ Rows(s)'
  BY <1>1, <1>3 DEF Replies, Rows, Alone, Dir, Folder, Shown, OnlyItself, serverVars
<1>7. QED
  BY <1>5, <1>6

LEMMA ClientListing ==
  ASSUME LInv, NEW s \in Session, Act(s) \/ Read(s) \/ Timeout(s)
  PROVE  LInv'
<1>1. IInv /\ TypeOK /\ UNCHANGED serverVars
      /\ (UserAct(s) \/ ClientRead(s) \/ ClientTimeout(s))
  BY DEF LInv, IInv, Act, Read, Timeout
<1>2. IInv'
  BY <1>1, ClientStep
<1>3. ASSUME NEW t \in Session, t # s PROVE Requests(t)' /\ Replies(t)' /\ Rows(t)'
  <2>1. Requests(t) /\ Replies(t) /\ Rows(t)
    BY DEF LInv
  <2>2. Apart(t)
    BY <1>1, <1>3, ClientLocal
  <2>3. spc'[t] = spc[t] /\ Folder(t)' = Folder(t)
    BY <1>1 DEF serverVars, Folder, Dir
  <2>4. QED
    BY <2>1, <2>2, <2>3, OthersKept DEF Apart
<1>4. Requests(s)' /\ Replies(s)' /\ Rows(s)'
  BY <1>1, <1>2, TalkListing, ListDoneListing, ClosingListing, InitializeListing
  DEF UserAct, ClientRead, ClientTimeout
<1>5. QED
  BY <1>2, <1>3, <1>4 DEF LInv

-----------------------------------------------------------------------------
LEMMA ListingInvariance == Spec => []LInv
<1>1. Init => LInv
  <2>1. Init => IInv
    BY InitInvariant
  <2>2. ASSUME Init, NEW s \in Session PROVE Requests(s) /\ Replies(s) /\ Rows(s)
    BY <2>2 DEF Init, ClientInit, Requests, Replies, Rows, Shown
  <2>3. QED
    BY <2>1, <2>2 DEF LInv
<1>2. LInv /\ [Next]_vars => LInv'
  <2>1. ASSUME LInv, UNCHANGED vars PROVE LInv'
    <3>1. IInv'
      BY <2>1, StutterInvariant DEF LInv
    <3>2. ASSUME NEW t \in Session PROVE Requests(t)' /\ Replies(t)' /\ Rows(t)'
      BY <2>1, OthersKept DEF LInv, vars, channelVars, serverVars, clientVars, Folder, Dir
    <3>3. QED
      BY <3>1, <3>2 DEF LInv
  <2>2. QED
    BY <2>1, ServeListing, ClientListing DEF Next
<1>3. QED
  BY <1>1, <1>2, PTL DEF Spec

(* A listing on its way is the last reply, and the handler that asked for  *)
(* it waits for it: no other ever reads it as its own, unless the session  *)
(* has gone on without its listing before, because logout threw or stale   *)
(* bytes made up a listing (getFiles, initialize, refreshFiles).           *)
THEOREM ListingIsForGetFiles == Spec => []ListingIsAwaited
<1>1. LInv => ListingIsAwaited
  BY DEF LInv, Replies, ListingIsAwaited
<1>2. QED
  BY <1>1, ListingInvariance, PTL

(* As long as no other session works in the folder, and the session has    *)
(* not gone on without a listing, every row of the table whose name is     *)
(* sent for no other file is a file the server holds, answers late or in   *)
(* time (getFiles, refreshFiles, deleteFile, removeFile).                  *)
THEOREM TableSound == Spec => []CacheSound
<1>1. LInv => CacheSound
  BY DEF LInv, Rows, Shown, CacheSound
<1>2. QED
  BY <1>1, ListingInvariance, PTL

=============================================================================
