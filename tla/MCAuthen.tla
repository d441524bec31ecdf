------------------------------ MODULE MCAuthen ------------------------------
(* Instances of Authen for TLC: the clients are alike, and so are names.   *)
EXTENDS Authen, TLC

Alike == Permutations(Client) \cup Permutations(Username)

=============================================================================
