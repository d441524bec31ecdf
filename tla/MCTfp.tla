------------------------------- MODULE MCTfp --------------------------------
(* Instances of TfpSystem for TLC.                                         *)
EXTENDS TfpStore, TLC

CONSTANTS s1, s2, s3, ann, an2, bob, big, small, empty

(* One user, and sessions of three, of whom two share a folder.            *)
OneUser    == [s \in Session |-> ann]
ThreeUsers == [s \in Session |-> CASE s = s1 -> ann [] s = s2 -> an2 [] s = s3 -> bob]

(* The name of an2 leads to the folder of ann.                             *)
Folders2 == [u \in User |-> IF u = an2 THEN ann ELSE u]

(* Names that are sent as they are, and one that is cut to another.        *)
Uncut == [f \in FileName |-> f]
Cut   == [f \in FileName |-> IF f = empty THEN small ELSE f]

(* A file of two blocks, one of a single block, one without a byte, and a  *)
(* small bound on what the controller lets through.                        *)
Blocks == [f \in FileName |-> CASE f = big   -> 2
                                [] f = small -> 1
                                [] f = empty -> 0]

(* The two sessions of one folder are alike, each with its user.           *)
SameFolderSwap ==
  { [x \in {s1, s2, ann, an2} |-> x],
    [x \in {s1, s2, ann, an2} |->
       CASE x = s1 -> s2 [] x = s2 -> s1 [] x = ann -> an2 [] x = an2 -> ann] }

=============================================================================
