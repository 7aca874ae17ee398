----------------------------- MODULE MCStorageLock -----------------------------
(* StorageLock on small sets of processes. *)
EXTENDS StorageLock
===============================================================================
