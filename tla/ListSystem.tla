----------------------------- MODULE ListSystem -----------------------------
(***************************************************************************)
(* A server process that lists a folder others change, with a client: the  *)
(* table of the desktop client, or the text client.                        *)
(***************************************************************************)
EXTENDS FileTable, TextClient

CONSTANT LocalName   \* names of files uploaded to the folder, as characters

(* Characters that are one char of Java; those of two are left out.        *)
Character == {c \in 1..USHRT_MAX : c < 55296 \/ c > 57343}

ASSUME LocalNameAssumption == LocalName \subseteq Seq(Character) \ {<<>>}

vars == <<listVars, tableVars, textVars>>

(* The table asks for its first listing after createFolder; the text       *)
(* client may do as it likes, and starts with whatever cdirectory holds.   *)
Init ==
  /\ charset \in Charset
  /\ names = {StoredAs(charset, s) : s \in LocalName}
  /\ ListInit
  /\ rows = <<>> /\ sel = NoEntry
  /\ line = <<>> /\ shown = NothingShown
  /\ instep = TRUE /\ merged = FALSE
  /\ \/ dpc = "list" /\ req = << 49 >> /\ tpc = "none" /\ cdir = TRUE
     \/ dpc = "none" /\ req = <<>> /\ tpc = "type" /\ cdir \in BOOLEAN

Unseen == UNCHANGED <<names, folder, cdir, lpc, scanVars, overlong, histVars>>

Process == ProcessStep /\ UNCHANGED <<tableVars, textVars>>
Table   == TableStep /\ Unseen /\ UNCHANGED textVars
Text    == TextStep /\ Unseen /\ UNCHANGED tableVars
Other   == tpc = "none" /\ Others /\ UNCHANGED <<tableVars, textVars>>

Next == Process \/ Table \/ Text \/ Other

Spec == Init /\ [][Next]_vars

TypeOK == ListTypeOK /\ TableTypeOK /\ TextTypeOK

-----------------------------------------------------------------------------
Visible(n) == n[1] # 46

(* The strings that come back from the server as they went out: those of   *)
(* characters that every charset writes as one and the same byte.          *)
Plain(s) == \A i \in 1..Len(s) : s[i] < 128

Shown == {<<rows[i].name, rows[i].size>> : i \in 1..Len(rows)}

(* When a listing has been read, a file that nobody has touched since the  *)
(* process began to list is in the table once, with the low 16 bits of its *)
(* size, and a name nobody holds is not, whatever happened to other files  *)
(* in between; names that begin with a dot never are (listFiles).  A       *)
(* listing longer than the buffer promises nothing.                        *)
UntouchedListed ==
  dpc = "idle" /\ ~ overlong =>
    \A n \in names \ touched :
      /\ {e \in Shown : e[1] = n} =
           IF n \in DOMAIN folder /\ Visible(n) THEN Shows(n) ELSE {}
      /\ Cardinality({i \in 1..Len(rows) : rows[i].name = n}) <= 1

(* A row shows a size its file had while it was listed, or one of the two  *)
(* numbers that stand for a file removed in between: never the size of     *)
(* another file, or bytes of its name (the loop of LIST_DIR, Parse).       *)
RowsHadTheirSize ==
  dpc = "idle" /\ ~ overlong => Shown \subseteq had

(* The characters that the charset writes as the bytes they were read from.*)
SentBack(s) ==
  \A i \in 1..Len(s) : \/ s[i] < 128 \/ charset = "latin1"
                       \/ charset = "cp1252" /\ s[i] > 159

(* deleteFile of a row removes no file but that of the row when the        *)
(* charset writes each character of its name as the byte it came from: a   *)
(* plain name, any name in ISO-8859-1.  Otherwise the name that addString  *)
(* sends may be another one.  In UTF-8 what goes then is no file with a    *)
(* plain name; windows-1252 may send question marks, and one may go.       *)
DeleteHitsItsRow ==
  [][dpc = "del" /\ req # <<>> /\ req' = <<>> =>
       LET gone == DOMAIN folder \ DOMAIN folder' IN
         /\ SentBack(sel) => gone \subseteq {sel}
         /\ ~ Plain(sel) /\ charset = "utf8" => \A n \in gone : ~ Plain(n)]_vars

(* As long as no answer was longer than one recv of the text client, what  *)
(* it shows after the line "1" is the number of files, and the name and    *)
(* the number of the first, that the desktop client would make a row of.   *)
TextShowsAnswer ==
  [][tpc = "recv" /\ tpc' = "type" /\ line = << 49 >> /\ lpc = "recv" /\ instep /\ instep' =>
       LET listed == Parse(reply) IN
         /\ shown'.count = Len(listed)
         /\ listed # <<>> => /\ shown'.name = listed[1].name
                             /\ shown'.number = listed[1].size]_vars

(* The text client waits for ever only for the answer to a line the server *)
(* does not answer: a code without effect, an upload (fopen may fail),     *)
(* EXIT, a folder that cannot be made, a listing past the buffer; or to a  *)
(* line that was sent after the process had ended, or that reached it in   *)
(* the same recv as the line before (merged).  It never does for           *)
(* RES_LIST_DIR or DELETE.                                                 *)
TextWaitsInVain ==
  tpc = "recv" /\ ~ merged /\ req = <<>> /\ reply = <<>> /\ lpc \notin {"scan", "stat"} =>
    \/ lpc = "recv" /\ line[1] \in Ignored \cup {51}
    \/ lpc = "closed" /\ line[1] = 57
    \/ lpc = "dead" /\ (line[1] = 48 \/ (line[1] = 49 /\ overlong))

=============================================================================
