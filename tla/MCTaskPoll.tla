---------------------------- MODULE MCTaskPoll ----------------------------
(* One client, of either kind; clients meet at the lock of the store only. *)
EXTENDS TaskPoll
=============================================================================
