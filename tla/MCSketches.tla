----------------------------- MODULE MCSketches ----------------------------
(***************************************************************************)
(* Both sketches with tags of every kind.                                  *)
(***************************************************************************)
EXTENDS Conversation, MCTags
=============================================================================
