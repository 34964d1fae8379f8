----------------------------- MODULE MCUpdater -----------------------------
(* Small instances of Updater: two images of FW1. *)
EXTENDS Updater
=============================================================================
