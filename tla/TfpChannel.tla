----------------------------- MODULE TfpChannel -----------------------------
(***************************************************************************)
(* The TCP connection between one run of the desktop client and the server *)
(* process forked for it, and the messages of the file protocol (request   *)
(* codes of tfp.h and ClientConstant.java) that travel on it.              *)
(*                                                                         *)
(* A session is one connection.  toSrv[s] is what the client has written   *)
(* and the server has not read, one element per message; toCli[s] is what  *)
(* the server has written and the client has not read.  The client reads   *)
(* byte by byte, so toCli holds the replies byte by byte; the names of a   *)
(* RES_LIST_DIR reply go with its first byte.                              *)
(***************************************************************************)
EXTENDS Naturals, Sequences

CONSTANTS
  Session,    \* the connections
  User,       \* names users log in with
  Directory,  \* folders under SERVER_ROOT
  FileName,   \* names of files, as the client shows them
  NoName,     \* neither a user, nor a folder, nor a file
  UserOf,     \* UserOf[s]: the user logged in to the client of session s
  FolderOf,   \* FolderOf[u]: the folder that the name of u leads to
  SentAs,     \* SentAs[f]: the name that is sent when f is meant
  BlocksOf,   \* BlocksOf[f]: number of blocks of the local file f
  StringLen,  \* bytes of a string reply, with its final NUL
  ListingLen  \* bytes of a listing, whatever names are in it

(* addString sends as many bytes of a name as the name has characters, and *)
(* the server joins what it gets to SERVER_ROOT as it is: two users may    *)
(* have one folder (two names cut to one, or "ann" and "ann/."), and two   *)
(* files one name.                                                         *)
ASSUME ChannelAssumption ==
  /\ UserOf \in [Session -> User]
  /\ FolderOf \in [User -> Directory]
  /\ SentAs \in [FileName -> FileName]
  /\ BlocksOf \in [FileName -> Nat]
  /\ NoName \notin User \cup Directory \cup FileName
  /\ StringLen \in Nat \ {0}
  /\ ListingLen \in Nat /\ ListingLen >= 3

(* The folder of the user of a session.                                    *)
Dir(s) == FolderOf[UserOf[s]]

(* The names that are sent as f, and the one among them that stands for    *)
(* the file that is held as f before anybody connects.                     *)
Sources(f) == {g \in FileName : SentAs[g] = f}

Origin(f) == CHOOSE g \in Sources(f) : TRUE

VARIABLES
  toSrv,      \* client to server, messages
  toCli,      \* server to client, items
  open        \* the client holds its end of the connection open

channelVars == <<toSrv, toCli, open>>

-----------------------------------------------------------------------------
(* Requests.  name is a user or a file; num is the number of blocks of an  *)
(* upload, or the number of a data block.                                  *)

Message ==
       [op : {"create", "list"},             name : User,     num : {0}]
  \cup [op : {"upload", "data"},             name : FileName, num : Nat]
  \cup [op : {"delete", "download"},         name : FileName, num : {0}]
  \cup [op : {"confirm", "error", "exit"},   name : {NoName}, num : {0}]

Msg(op, name, num) == [op |-> op, name |-> name, num |-> num]

(* Replies: the byte '6', the bytes of a NUL-terminated string, a listing: *)
(* its code, with the names, and then the count of less than 256 files,    *)
(* high byte first, names and sizes.                                       *)

Item == [kind : {"ack", "char", "nul", "listing"}, names : SUBSET FileName]

Ack            == [kind |-> "ack",  names |-> {}]
StringReply    == [i \in 1..StringLen |->
                     [kind |-> IF i = StringLen THEN "nul" ELSE "char", names |-> {}]]
Listing(names) == [i \in 1..ListingLen |->
                     IF i = 1 THEN [kind |-> "listing", names |-> names]
                     ELSE [kind |-> IF i \in {2, ListingLen} THEN "nul" ELSE "char", names |-> {}]]

-----------------------------------------------------------------------------
(* Contents of files on the server.  A chunk is what one fwrite stores: a  *)
(* data block of a local file, or bytes that are no block of any file.  In *)
(* a data message name is the local file the block is of.                  *)

Chunk == [file : FileName \cup {NoName}, blk : Nat]

Block(f, i) == [file |-> f, blk |-> i]
Junk        == Block(NoName, 0)

(* What the server must hold once the local file f has been uploaded.      *)
Full(f) == [i \in 1..BlocksOf[f] |-> Block(f, i - 1)]

=============================================================================
