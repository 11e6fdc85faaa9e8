-------------------------- MODULE NfcTagsIntfType2 -------------------------
(***************************************************************************)
(* The interface to an activated type 2 tag,                               *)
(* src/src/tags/NfcTagsIntfType2.cpp: the machine that dumps its memory,   *)
(* one READ of ReadBlock blocks at a time.                                 *)
(***************************************************************************)
EXTENDS NfcNci

VARIABLES
  t2State,  \* _state
  t2Id,     \* _id (zero, i.e. NONE, in the global object until cmdDump)
  t2Block   \* _block, the block of the READ to send or to be answered

t2Vars == <<t2State, t2Id, t2Block>>

TagsStatus == {"OK", "REJECTED", "FAILED", "MESSAGE_CORRUPTED"}

T2TypeOK ==
  /\ t2State \in {"NONE", "DUMP", "DUMP_RSP"}
  /\ t2Id \in {"NONE", "DUMP"}
  /\ t2Block \in 0..255

T2Init ==
  /\ t2State = "NONE"
  /\ t2Id = "NONE"
  /\ t2Block = 0

\* NfcTagsIntf::translateNciStatus, which keeps MESSAGE_CORRUPTED apart.
IntfStatus(nciStatus) ==
  IF nciStatus \in TagsStatus THEN nciStatus ELSE "FAILED"

\* Mutant of T2CmdDump: _block is not reset.
T2CmdDumpKeepsBlock(status) ==
  \/ /\ t2State # "NONE"
     /\ status = "REJECTED"
     /\ UNCHANGED t2Vars
  \/ /\ t2State = "NONE"
     /\ status = "OK"
     /\ t2State' = "DUMP"
     /\ t2Id' = "DUMP"
     /\ UNCHANGED t2Block

\* A dump starts only when the previous one has come to its end.
T2CmdDump(status) ==
  \/ /\ t2State # "NONE"
     /\ status = "REJECTED"
     /\ UNCHANGED t2Vars
  \/ /\ t2State = "NONE"
     /\ status = "OK"
     /\ t2State' = "DUMP"
     /\ t2Id' = "DUMP"
     /\ t2Block' = 0

\* Mutants of T2HandleDump: the READ takes a byte address, and after the READ
\* it does not wait for the answer.
T2HandleDumpByteAddress(status) ==
  /\ UNCHANGED <<t2Id, t2Block>>
  /\ IF t2State = "DUMP" /\ t2Block <= LastRead
     THEN /\ t2State' = "DUMP_RSP"
          /\ \E sent \in NciStatus :
               DataSend(t2Block * 4, sent) /\ status = IntfStatus(sent)
     ELSE status = "OK" /\ tx' = NoCmd /\ UNCHANGED t2State

T2HandleDumpResends(status) ==
  /\ UNCHANGED t2Vars
  /\ IF t2State = "DUMP" /\ t2Block <= LastRead
     THEN \E sent \in NciStatus :
            DataSend(t2Block, sent) /\ status = IntfStatus(sent)
     ELSE status = "REJECTED" /\ tx' = NoCmd

\* Called on every pass of the loop.  The machine waits for the answer even
\* when the READ could not be sent.  In state NONE no case of the switch
\* matches and the status returned is that of an uninitialized local.
T2HandleDump(status) ==
  /\ UNCHANGED <<t2Id, t2Block>>
  /\ \/ /\ t2State = "DUMP"
        /\ IF t2Block <= LastRead
           THEN /\ t2State' = "DUMP_RSP"
                /\ \E sent \in NciStatus :
                     DataSend(t2Block, sent) /\ status = IntfStatus(sent)
           ELSE /\ status = "REJECTED"
                /\ tx' = NoCmd
                /\ UNCHANGED t2State
     \/ /\ t2State = "DUMP_RSP"
        /\ status = "OK"
        /\ tx' = NoCmd
        /\ UNCHANGED t2State
     \/ /\ t2State = "NONE"
        /\ status \in TagsStatus
        /\ tx' = NoCmd
        /\ UNCHANGED t2State

\* Mutant of T2More: one READ too many.
T2MoreOffByOne(p) == p.valid /\ t2Block <= LastRead

\* A data packet that is a whole answer moves the dump on to the next READ or
\* ends it; any other one ends it.
T2More(p) == p.valid /\ t2Block < LastRead

T2HandleDataDump(p) ==
  /\ t2State' = IF T2More(p) THEN "DUMP" ELSE "NONE"
  /\ t2Block' = IF T2More(p) THEN (t2Block + ReadBlock) % 256 ELSE t2Block
  /\ UNCHANGED t2Id
=============================================================================
