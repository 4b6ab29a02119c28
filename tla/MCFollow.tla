------------------------------ MODULE MCFollow ------------------------------
(* The instance of Follow; its constants are given in the configuration. *)
EXTENDS Follow
=============================================================================
