------------------------------- MODULE MCTags ------------------------------
(***************************************************************************)
(* One tag of each kind identifyTag() tells apart.                         *)
(***************************************************************************)
EXTENDS NciDefs

Ultralight == [ZeroRf EXCEPT !.nfcidLen = 7, !.nxp = TRUE, !.selResLen = 1]
Classic == [ZeroRf EXCEPT !.nfcidLen = 4, !.selResLen = 1, !.mifare = TRUE]
OtherPollA == [ZeroRf EXCEPT !.nfcidLen = 7, !.selResLen = 1]
PollF == [ZeroRf EXCEPT !.type = "POLL_F"]

Topaz == ZeroRf

MCTags == {Ultralight, Classic, OtherPollA, Topaz, PollF}

\* The tag that takes the stack through all of its states.
OneTag == {Ultralight}
=============================================================================
