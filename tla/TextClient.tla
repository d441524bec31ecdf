----------------------------- MODULE TextClient -----------------------------
(***************************************************************************)
(* The text client of the server's authors (client.c): a line is typed and *)
(* sent as it is, one recv takes at most TextRoom bytes of whatever the    *)
(* server has sent, and the start of the buffer is shown as if it were a   *)
(* listing.  recv has no timeout, and never returns 0: the process that    *)
(* accepted the connection keeps its end of it open, so the end of the     *)
(* child that served it, by EXIT or otherwise, is not told to the client.  *)
(***************************************************************************)
EXTENDS FileList

CONSTANTS
  TextRoom,    \* BUFF_SIZE of client.c
  Line,        \* the lines that are typed, as bytes
  MaxUnread    \* bound of the model: bytes left unread when a line is typed

ASSUME TextAssumption ==
  /\ TextRoom \in Nat \ {0} /\ MaxUnread \in Nat
  /\ Line \subseteq Seq(Byte \ {0}) \ {<<>>}

VARIABLES
  tpc,         \* where the client is; "none": there is no text client
  line,        \* the line typed last
  shown,       \* what was shown last
  instep,      \* history: every answer was taken whole
  merged       \* history: line went out while the one before lay in the socket

textVars == <<tpc, line, shown, instep, merged>>

NothingShown == [count |-> 0, name |-> <<>>, number |-> 0]

-----------------------------------------------------------------------------
NameAtBug == 3                                \* the second byte of the count

NameAt == 4

(* The buffer after recv stored got: a NUL after it, then what is left of  *)
(* the line, then the zeros of memset.                                     *)
Buffer(got) ==
  got \o << 0 >> \o SubSeq(line, Len(got) + 2, Len(line)) \o << 0, 0, 0, 0, 0 >>

(* Bytes 1 and 2 as numFile, the string behind them as a name, and the two *)
(* bytes behind that as a number.                                          *)
Show(b) ==
  LET e == EatString(SubSeq(b, NameAt, Len(b))) IN
    shown' = [count  |-> ReadShort(Tail(b)),
              name   |-> e.str,
              number |-> ReadShort(e.rest \o << 0, 0 >>)]

(* scanf and send: the line goes behind what the server has not taken yet. *)
Type(l) ==
  /\ tpc = "type"
  /\ Len(reply) <= MaxUnread
  /\ line' = l
  /\ req' = req \o l
  /\ merged' = (req # <<>>)
  /\ tpc' = "recv"
  /\ UNCHANGED <<reply, shown, instep>>

(* recv returns bytes.                                                     *)
ShowReply ==
  /\ tpc = "recv" /\ reply # <<>>
  /\ LET k == IF Len(reply) < TextRoom THEN Len(reply) ELSE TextRoom IN
       /\ Show(Buffer(SubSeq(reply, 1, k)))
       /\ reply' = SubSeq(reply, k + 1, Len(reply))
       /\ instep' = (instep /\ k = Len(reply))
  /\ tpc' = "type"
  /\ UNCHANGED <<line, merged, req>>

TextStep == ShowReply \/ \E l \in Line : Type(l)

TextTypeOK ==
  /\ tpc \in {"none", "type", "recv"}
  /\ line \in Line \cup {<<>>}
  /\ shown.count \in Short /\ shown.number \in Short
  /\ instep \in BOOLEAN /\ merged \in BOOLEAN

=============================================================================
