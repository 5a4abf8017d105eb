---------------------------- MODULE MCLogFileCatalog ----------------------------
(* Instances of LogFileCatalog for TLC. *)
EXTENDS LogFileCatalog
=============================================================================
