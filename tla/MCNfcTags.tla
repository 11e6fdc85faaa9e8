----------------------------- MODULE MCNfcTags -----------------------------
(***************************************************************************)
(* Values for checking NfcTags: a controller that sends, at any time, the  *)
(* messages NfcNci knows in every shape it tells apart, and others it does *)
(* not know.                                                               *)
(***************************************************************************)
EXTENDS NfcTagsSession, MCTags

Responses ==
  {RspPacket(c[1], c[2], status) :
     c \in {<<"CORE", "CORE_RESET">>, <<"CORE", "CORE_INIT">>,
            <<"RF_MANAGE", "RF_DISCOVER_MAP">>, <<"RF_MANAGE", "RF_DISCOVER">>,
            <<"RF_MANAGE", "RF_DEACTIVATE">>},
     status \in {"OK", "MESSAGE_CORRUPTED"}}

\* Without parameters, and from zeroed memory, an activation is that of a
\* POLL_A tag of no known kind.
Activations ==
  {ActivatedPacket(Ultralight), Packet("NTF", "RF_MANAGE", "RF_INTF_ACTIVATED")}

Deactivation == Packet("NTF", "RF_MANAGE", "RF_DEACTIVATE")

Malformed == {[p EXCEPT !.len = "BAD"] : p \in
                {q \in Responses : q.status = "OK"}
                  \cup {ActivatedPacket(Ultralight), Deactivation}}

Unknown ==
  {Packet("NTF", "CORE", "CONN_CREDITS"), Packet("CMD", "CORE", "OTHER"),
   Packet("RSP", "CORE", "OTHER"), Packet("NTF", "RF_MANAGE", "OTHER"),
   Packet("CMD", "RF_MANAGE", "OTHER"), Packet("NTF", "EE_MANAGE", "OTHER"),
   [Packet("NTF", "CORE", "OTHER") EXCEPT !.len = "NONE"],
   [DataPacket(TRUE, 0) EXCEPT !.frag = TRUE]}

MCPackets ==
  Responses \cup Activations \cup {Deactivation} \cup Malformed \cup Unknown
    \cup {DataPacket(FALSE, 0), DataPacket(TRUE, 0)}
=============================================================================
