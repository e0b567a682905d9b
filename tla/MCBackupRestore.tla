-------------------------- MODULE MCBackupRestore --------------------------
(* BackupRestore on small instances.                                       *)
EXTENDS BackupRestore

(* Every way to select stores, files and what hangs on the core database.  *)
SomeSelections ==
  {{"core"}, {"core", "notifications"}, {"core", "sharing"}, {"enrollment", "catalog", "notifications"}, Parts}
=============================================================================
