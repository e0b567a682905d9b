------------------------ MODULE MCRestoreActivation ------------------------
(* RestoreActivation on small instances.                                   *)
EXTENDS RestoreActivation
=============================================================================
