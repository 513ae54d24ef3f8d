---------------------------- MODULE MCStoreSetup ----------------------------
(* A small instance of StoreSetup for TLC. *)
EXTENDS StoreSetup
=============================================================================
