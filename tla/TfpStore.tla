------------------------------ MODULE TfpStore ------------------------------
(***************************************************************************)
(* TfpSystem implements FolderStore: the server processes, each with its   *)
(* own position in its own open file, keep the promise of one store.       *)
(***************************************************************************)
EXTENDS TfpSystem

(* The session has an upload under way whose file still has its name.      *)
Uploads(s, d, f) ==
  spc[s] = "upload" /\ linked[s] /\ cdirectory[s] = d /\ filename[s] = f

BusyFiles == [d \in Directory |-> {f \in FileName : \E s \in Session : Uploads(s, d, f)}]

(* The request the process in d takes next, if it is one about a file.     *)
Asks(s, d, op, f) ==
  /\ spc[s] = "main" /\ cdirectory[s] = d /\ toSrv[s] # <<>>
  /\ LET m == Head(toSrv[s]) IN
       /\ m.name = f
       /\ \/ op = "upload" /\ m.op = "upload" /\ m.num > 0
          \/ op = "empty"  /\ m.op = "upload" /\ m.num = 0
          \/ op = "delete" /\ m.op = "delete"

Asked == [d \in Directory |->
           {r \in {"upload", "empty", "delete"} \X FileName :
              \E s \in Session : Asks(s, d, r[1], r[2])}]

(* Every block of one of the files sent as f is there, in order, whatever  *)
(* may follow.                                                             *)
BeginsWith(g, c) ==
  Len(c) >= BlocksOf[g] /\ \A i \in 1..BlocksOf[g] : c[i] = Block(g, i - 1)

IsWhole(f, c) == \E g \in Sources(f) : BeginsWith(g, c)

WholeFiles == [d \in Directory |-> {f \in held[d] : IsWhole(f, body[d][f])}]

Blockless == {f \in FileName : \E g \in Sources(f) : BlocksOf[g] = 0}

Folders == INSTANCE FolderStore WITH
             names <- held, whole <- WholeFiles, busy <- BusyFiles, asked <- Asked

(* A file appears in a folder only by an upload of its name by a session   *)
(* of that folder, is whole or not only through such an upload, and goes   *)
(* only by a delete or the upload of no blocks: never by a download or a   *)
(* listing, and never by a process that still has an older file of that    *)
(* name open (upload_mess, removeFile).                                    *)
KeepsFolders == Folders!StoreSpec

=============================================================================
