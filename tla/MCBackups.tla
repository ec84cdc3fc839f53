----------------------------- MODULE MCBackups -----------------------------
(* Small instances of Backups: two projects, the second restored from an   *)
(* archive of the first.                                                   *)
EXTENDS Backups
=============================================================================
