-------------------------- MODULE MCNotifications --------------------------
(* Notifications on small instances: the host, at most one resource and    *)
(* one contact point.                                                      *)
EXTENDS Notifications
=============================================================================
