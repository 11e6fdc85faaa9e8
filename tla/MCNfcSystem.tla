---------------------------- MODULE MCNfcSystem ----------------------------
(***************************************************************************)
(* The stack under an arbitrary client, with tags of every kind.           *)
(***************************************************************************)
EXTENDS NfcSystem, MCTags
=============================================================================
