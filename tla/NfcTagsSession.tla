--------------------------- MODULE NfcTagsSession --------------------------
(***************************************************************************)
(* NfcTags over NfcNci and the type 2 interface as a TagSession: what has  *)
(* been reached is what NfcNci knows, what is wanted is what NfcTags is    *)
(* about to send or waits for, and the READ is that of the tag interface.  *)
(* Three state machines that keep their states apart act as one.           *)
(***************************************************************************)
EXTENDS NfcTags

Phase ==
  CASE nciState = "NONE"             -> "none"
    [] nciState = "RFST_RESET"       -> "reset"
    [] nciState = "RFST_IDLE"        -> "idle"
    [] nciState = "RFST_DISCOVERY"   -> "searching"
    [] nciState = "RFST_POLL_ACTIVE" -> "found"

Wanted ==
  CASE tagsState \in {"INIT_RESET", "INIT_INIT"}      -> "reset"
    [] tagsState \in {"DISCOVER_MAP", "DISCOVER"}     -> "discover"
    [] tagsState \in {"DEACTIVATE", "DEACTIVATE_RSP"} -> "deactivate"
    [] tagsState = "DUMP"                             -> "dump"
    [] OTHER                                          -> "none"

ClientCall == [fn |-> api.fn, status |-> api.status, more |-> api.more]

Session == INSTANCE TagSession WITH
  phase <- Phase,
  wanted <- Wanted,
  next <- t2Block,
  call <- ClientCall

\* Every step of the three machines together is a step of a TagSession: the
\* commands NfcTags accepts are those the RF state of NfcNci is ready for, each
\* success is reported by the very answer that reaches its phase, no failure
\* moves any of them, and a dump goes on only while there is memory to read.
SessionSpec == Session!Spec
=============================================================================
