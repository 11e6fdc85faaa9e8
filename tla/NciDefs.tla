------------------------------ MODULE NciDefs ------------------------------
(***************************************************************************)
(* The vocabulary shared by every layer of the stack: the status codes and *)
(* the packets of the NFC Controller Interface (NCI), as far as the code   *)
(* of src/src/nci and src/src/tags tells them apart.                       *)
(***************************************************************************)
EXTENDS Integers

CONSTANTS
  Packets,       \* the packets the controller may send to the host
  WriteResults,  \* what NfcHw::write can report: the whole frame, or less
  LastBlock,     \* MEMORY_LAST_BLOCK, the last block of a type 2 tag
  ReadBlock      \* MEMORY_READ_BLOCK, the blocks returned by one READ

\* Statuses the NCI layer returns or passes on (the codes no code path
\* tells apart from FAILED are not listed).
NciStatus ==
  {"OK", "REJECTED", "MESSAGE_CORRUPTED", "FAILED", "SYNTAX_ERROR",
   "INVALID_PARAM", "UNKNOWN_GID", "UNKNOWN_OID"}

\* The status byte of a response.
RspStatuses == {"OK", "REJECTED", "MESSAGE_CORRUPTED", "FAILED"}

\* The technology parameters identifyTag() looks at: the poll mode, the
\* length of the NFCID (a single, double or triple size UID, or none),
\* whether its first byte is NXP's, the length of SEL_RES, and whether
\* SEL_RES has both Mifare bits (3 and 4) set.  An NFCID of another length does
\* not occur: the structure has room for ten bytes.
RfParams ==
  [type : {"POLL_A", "POLL_F"}, nfcidLen : {0, 4, 7, 10}, nxp : BOOLEAN,
   selResLen : {0, 1}, mifare : BOOLEAN]

\* The contents of a zeroed tNCI_RF_INTF (0 is NCI_DISCOVERY_TYPE_POLL_A).
ZeroRf == [type |-> "POLL_A", nfcidLen |-> 0, nxp |-> FALSE,
           selResLen |-> 0, mifare |-> FALSE]

\* A packet from the controller.  len says how the length byte compares with
\* what the handler of that message expects; NONE is an empty payload.
\* tech is FALSE when an activation carries no technology parameters.  valid
\* says whether a data payload is a whole READ answer with status byte 0,
\* and block is the first tag block it holds.
PacketType ==
  [mt : {"DATA", "CMD", "RSP", "NTF"}, frag : BOOLEAN,
   gid : {"CORE", "RF_MANAGE", "EE_MANAGE"},
   oid : {"CORE_RESET", "CORE_INIT", "CONN_CREDITS", "RF_DISCOVER_MAP",
          "RF_DISCOVER", "RF_DEACTIVATE", "RF_INTF_ACTIVATED", "OTHER"},
   len : {"NONE", "BAD", "GOOD"}, status : RspStatuses,
   tech : BOOLEAN, rf : RfParams, valid : BOOLEAN, block : Nat]

Packet(mt, gid, oid) ==
  [mt |-> mt, frag |-> FALSE, gid |-> gid, oid |-> oid, len |-> "GOOD",
   status |-> "OK", tech |-> FALSE, rf |-> ZeroRf, valid |-> FALSE,
   block |-> 0]

RspPacket(gid, oid, status) == [Packet("RSP", gid, oid) EXCEPT !.status = status]

ActivatedPacket(rf) ==
  [Packet("NTF", "RF_MANAGE", "RF_INTF_ACTIVATED") EXCEPT !.tech = TRUE, !.rf = rf]

DataPacket(valid, block) ==
  [Packet("DATA", "CORE", "OTHER") EXCEPT !.valid = valid, !.block = block]

\* A frame written to the controller.  The only payload the stack sends is a
\* READ command, of which block is the argument.
Commands == {"CORE_RESET", "CORE_INIT", "RF_DISCOVER_MAP", "RF_DISCOVER",
             "RF_DEACTIVATE", "DATA"}

Frame == [cmd : Commands \cup {"NONE"}, block : Nat]
Cmd(c) == [cmd |-> c, block |-> 0]
NoCmd == Cmd("NONE")

\* The block of the last READ of a dump: MEMORY_LAST_BLOCK + 1 -
\* MEMORY_READ_BLOCK, the bound handleDump() and handleDataDump() compare with.
LastRead == LastBlock + 1 - ReadBlock

\* The memory of a tag is read in whole READ answers (16 blocks, 4 at a
\* time), and a block number fits the uint8_t that holds it.
ASSUME PacketsAssumption == Packets \subseteq PacketType

ASSUME WriteAssumption == WriteResults \subseteq {"OK", "FAILED"}

ASSUME MemoryAssumption ==
  /\ LastBlock \in 0..255
  /\ ReadBlock \in 1..(LastBlock + 1)
  /\ (LastBlock + 1) % ReadBlock = 0
=============================================================================
