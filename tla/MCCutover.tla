----------------------------- MODULE MCCutover -----------------------------
(* Three releases: the second one changes every schema, the third one the  *)
(* core's only.                                                            *)
EXTENDS Cutover

MCSchemas ==
  [r \in Releases |-> [n \in Names |->
    IF r = 1 THEN 1 ELSE IF r = 3 /\ n = "core" THEN 3 ELSE 2]]
=============================================================================
