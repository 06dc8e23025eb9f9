------------------------------ MODULE MCCaches ------------------------------
EXTENDS Caches, TLC

(* Version 3 is refused: its technique is not of its tactic.               *)
Doc(version, mapping, tactic, technique) ==
  [kind |-> "rule", version |-> version, complete |-> TRUE, severity |-> TRUE,
   tactic |-> tactic, technique |-> technique, steps |-> <<1, 2>>, mapping |-> mapping]
MCDocuments ==
  {Doc(1, TRUE, "", ""), Doc(2, FALSE, "Discovery", "T1046"), Doc(3, TRUE, "Impact", "T1046")}
MCMatrix == "T1046" :> {"Discovery"}
MCTypeOf == "address" :> "ip" @@ "path" :> "uri_substring" @@ "other" :> "hash"
MCBatches == {<<"address">>, <<"other", "path">>}
MCMet == {{"address", "path"}}
Symm == Permutations(Admins)
=============================================================================
