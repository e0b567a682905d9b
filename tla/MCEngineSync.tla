---------------------------- MODULE MCEngineSync ----------------------------
(* One browser in full; the others act through OtherCommand.               *)
EXTENDS EngineSync

CONSTANT a   \* a browser

MCClients == {a}
=============================================================================
