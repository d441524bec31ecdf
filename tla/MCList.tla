------------------------------- MODULE MCList -------------------------------
(* An instance of ListSystem.  The names: "a", two names outside ASCII of  *)
(* which one, sent back as it is shown, names the other, and ".a".         *)
EXTENDS ListSystem, TLC

MCLocalName == {<<97>>, <<8364, 98>>, <<226, 97>>, <<46, 97>>}

MCCp1252 == 8364 :> 128   \* the euro

MCLine == {<<48, 117>>, <<49>>, <<50>>, <<51, 97>>, <<52>>, <<55, 97>>, <<57>>}

=============================================================================
