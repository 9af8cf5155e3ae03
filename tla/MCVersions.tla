----------------------------- MODULE MCVersions -----------------------------
(* Small instances of Versions for TLC. *)
EXTENDS Versions, TLC
=============================================================================
