---------------------------- MODULE FolderStore -----------------------------
(***************************************************************************)
(* What the server promises of the files in its folders, without           *)
(* processes, connections, packets or open files: every folder has names;  *)
(* a name may stand for a whole file or for something less; a name comes   *)
(* only by a request to upload it and goes only by a request to delete it  *)
(* or to upload it without a block; and while a file is being uploaded,    *)
(* and only then, it may turn from whole into less or back.                *)
(***************************************************************************)
CONSTANTS
  Directory,
  FileName,
  Blockless   \* files without a block: whole as soon as they have a name

VARIABLES
  names,      \* names[d]: the names in the folder d
  whole,      \* whole[d]: those that begin with every block of their file
  busy,       \* busy[d]: those an upload is under way for
  asked       \* asked[d]: requests that wait to be carried out in d

storeVars == <<names, whole, busy, asked>>

(* An upload with blocks, one without, a delete.                           *)
Request == {"upload", "empty", "delete"} \X FileName

StoreInit ==
  /\ names \in [Directory -> SUBSET FileName]
  /\ whole = names
  /\ busy  = [d \in Directory |-> {}]
  /\ asked = [d \in Directory |-> {}]

(* An upload creates the file, or empties the one that is there.           *)
Begin(d, f) ==
  /\ <<"upload", f>> \in asked[d] \/ <<"empty", f>> \in asked[d]
  /\ names' = [names EXCEPT ![d] = @ \cup {f}]
  /\ whole' = [whole EXCEPT ![d] = IF f \in Blockless THEN @ \cup {f} ELSE @ \ {f}]
  /\ \E b \in SUBSET {f} :
       /\ <<"upload", f>> \notin asked[d] => b = {}
       /\ busy' = [busy EXCEPT ![d] = @ \cup b]

(* It stores something, and may be over.                                   *)
Store(d, f) ==
  /\ f \in busy[d]
  /\ \E w, b \in SUBSET {f} :
       /\ whole' = [whole EXCEPT ![d] = (@ \ {f}) \cup w]
       /\ busy'  = [busy EXCEPT ![d] = (@ \ {f}) \cup b]
  /\ UNCHANGED names

(* The file goes, for the uploads under way as well.                       *)
Drop(d, f) ==
  /\ <<"delete", f>> \in asked[d] \/ <<"empty", f>> \in asked[d]
  /\ names' = [names EXCEPT ![d] = @ \ {f}]
  /\ whole' = [whole EXCEPT ![d] = @ \ {f}]
  /\ busy'  = [busy EXCEPT ![d] = @ \ {f}]

(* Whatever else happens, requests come and go.                            *)
StoreNext ==
  /\ asked' \in [Directory -> SUBSET Request]
  /\ \/ \E d \in Directory, f \in FileName : Begin(d, f) \/ Store(d, f) \/ Drop(d, f)
     \/ UNCHANGED <<names, whole, busy>>

StoreSpec == StoreInit /\ [][StoreNext]_storeVars

=============================================================================
