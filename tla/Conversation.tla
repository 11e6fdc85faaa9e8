---------------------------- MODULE Conversation ---------------------------
(***************************************************************************)
(* What is on the lines, and where the sketch and the controller are, for  *)
(* each state of NfcTags: the whole of the conversation between a sketch   *)
(* and a controller, as long as credits are never late and the board is    *)
(* not restarted.  Every other property of the sketches follows from it.   *)
(***************************************************************************)
EXTENDS Sketches

\* A step may fail without a fault of the sketch's.
MayFail == "RSP_FAILED" \in Faults \/ "FAILED" \in WriteResults

Waits(state) == app = state \/ (app = "ERROR" /\ MayFail)

LinesIdle == toNfcc = <<>> /\ toHost = <<>>

\* A command for a controller in state from is to be written or lost, is on
\* its way, or has been refused.
Asks(cmd, from) ==
  /\ nfcc = from
  /\ \/ LinesIdle
     \/ pc = "nci" /\ toNfcc = <<Cmd(cmd)>> /\ toHost = <<>>
     \/ /\ pc = "nci" /\ toNfcc = <<>> /\ toHost = <<Reply(cmd, "FAILED")>>
        /\ "RSP_FAILED" \in Faults

\* Or it has led to state to.
Grants(cmd, to) ==
  pc = "nci" /\ nfcc = to /\ toNfcc = <<>> /\ toHost = <<Reply(cmd, "OK")>>

\* After some packets, the controller has a tag to announce or none yet.
Searches(packets) ==
  /\ toNfcc = <<>>
  /\ \/ nfcc = "DISCOVERY" /\ toHost = packets
     \/ /\ nfcc = "ACTIVE"
        /\ \E rf \in active : toHost = Append(packets, ActivatedPacket(rf))

\* What a READ of a block may bring.
Answers(block) ==
  {DataPacket(TRUE, block), EmptyAnswer, InterfaceError}
    \cup (IF "READ_ERROR" \in Faults THEN {DataPacket(FALSE, block)} ELSE {})

\* A READ is lost, on its way, or answered, after its credits.
Reads(block) ==
  \/ LinesIdle
  \/ toNfcc = <<[cmd |-> "DATA", block |-> block]>> /\ toHost = <<>>
  \/ /\ toNfcc = <<>>
     /\ \E answer \in Answers(block) : toHost \in {<<Credits, answer>>, <<answer>>}

\* A dump: a READ is to be written, awaited, or the last one has been answered.
Dumps ==
  /\ sketch = "TagDump" /\ nfcc = "ACTIVE"
  /\ tagIntf = "T2" /\ t2Id = "DUMP"
  /\ t2State = "DUMP" => pc # "nci" /\ app = "DUMP_RESPONSE" /\ LinesIdle
  /\ t2State = "DUMP_RSP" =>
       \/ app = "DUMP_RESPONSE" /\ Reads(t2Block)
       \/ app = "ERROR" /\ MayFail /\ LinesIdle
  /\ t2State = "NONE" => pc = "app" /\ app = "DEACTIVATE" /\ LinesIdle

\* The sketch has a tag and takes its turn to dump it or to let it go.
HasTag ==
  /\ pc = "app" /\ nfcc = "ACTIVE" /\ LinesIdle
  /\ \/ app = "DEACTIVATE"
     \/ app = "DUMP" /\ sketch = "TagDump" /\ tagIntf = "T2"

Talk ==
  /\ tagsState \notin {"DEACTIVATE_NTF", "DUMP_RSP"}
  /\ tagsState = "NONE" => pc = "app" /\ app = "RESET" /\ nfcc = "ON" /\ LinesIdle
  /\ tagsState = "INIT_RESET" =>
       Waits("RESET_RESPONSE")
         /\ (Asks("CORE_RESET", "ON") \/ Grants("CORE_RESET", "RESET"))
  /\ tagsState = "INIT_INIT" =>
       Waits("RESET_RESPONSE")
         /\ (Asks("CORE_INIT", "RESET") \/ Grants("CORE_INIT", "IDLE"))
  /\ tagsState = "INIT_DONE" => pc = "app" /\ app = "DISCOVER" /\ nfcc = "IDLE" /\ LinesIdle
  /\ tagsState = "DISCOVER_MAP" =>
       Waits("DISCOVER_RESPONSE")
         /\ (Asks("RF_DISCOVER_MAP", "IDLE") \/ Grants("RF_DISCOVER_MAP", "IDLE"))
  /\ tagsState = "DISCOVER" =>
       /\ Waits("DISCOVER_RESPONSE")
       /\ \/ Asks("RF_DISCOVER", "IDLE")
          \/ pc = "nci" /\ Searches(<<Reply("RF_DISCOVER", "OK")>>)
  /\ tagsState = "DISCOVER_NTF" => app = "DISCOVERING" /\ Searches(<<>>)
  /\ tagsState = "DISCOVER_ACTIVATED" => HasTag
  /\ tagsState = "DUMP" => Dumps
  /\ tagsState = "DEACTIVATE" =>
       /\ Waits("DEACTIVATE_RESPONSE")
       /\ \/ Asks("RF_DEACTIVATE", "ACTIVE")
          \/ pc = "nci" /\ Searches(<<Reply("RF_DEACTIVATE", "OK"), Deactivated>>)
  /\ tagsState = "DEACTIVATE_RSP" =>
       Waits("DEACTIVATE_RESPONSE") /\ Searches(<<Deactivated>>)

\* The command in progress, for each state.
IdFor(state) ==
  CASE state = "NONE"                                  -> "NONE"
    [] state \in {"INIT_RESET", "INIT_INIT", "INIT_DONE"} -> "RESET"
    [] state \in {"DEACTIVATE", "DEACTIVATE_RSP"}      -> "DEACTIVATE"
    [] state = "DUMP"                                  -> "DUMP"
    [] OTHER                                           -> "DISCOVER"

\* What the layers keep beside their states.
Kept ==
  /\ tagsId = IdFor(tagsState)
  /\ tagsState = "INIT_RESET" => nciState = "NONE"
  /\ tagIntf # "NULL" => tagsState \in {"DISCOVER_ACTIVATED", "DUMP"}
  /\ t2State # "NONE" => tagsState = "DUMP"
  /\ active # {} <=> nfcc = "ACTIVE"

\* Until the board is restarted, and unless credits are late, everything that
\* is in flight is what the state of NfcTags says, and the sketch waits for it.
Conversation ==
  restarts = 0 /\ "LATE_CREDITS" \notin Faults => Talk /\ Kept

-----------------------------------------------------------------------------
\* What the stack and the sketch know of the tag that is active, once the
\* notification of its activation has been read.
TagKnown ==
  /\ ~ActivationUnread => \A rf \in active : shown = LabelOf(rf)
  /\ tagsState \in {"DISCOVER_ACTIVATED", "DUMP"} =>
       /\ \A rf \in active : tagIntf = LabelOf(rf).intf
       /\ tagIntf # "NULL" => rfPtr[tagIntf] = "rfIntf"

\* The READs before that of a block have been printed, and nothing else.
PrintedUpTo(block) ==
  /\ Len(dumped) * ReadBlock = block
  /\ \A i \in DOMAIN dumped : dumped[i] = (i - 1) * ReadBlock

\* All of them have been, if the tag is one to dump and no answer is corrupted.
AllPrinted ==
  sketch = "TagDump" /\ "READ_ERROR" \notin Faults =>
    \A rf \in active : TagKind(rf) = "T2" => dumped = AllBlocks

\* How far the memory of the tag has been printed.
TagPrinted ==
  /\ DumpInOrder
  /\ tagsState = "DISCOVER_ACTIVATED" => dumped = <<>> /\ (app = "DEACTIVATE" => AllPrinted)
  /\ tagsState = "DUMP" => IF t2State = "NONE" THEN AllPrinted ELSE PrintedUpTo(t2Block)
  /\ tagsState = "DEACTIVATE" /\ ~ActivationUnread => AllPrinted

\* As long as the conversation goes as it should, each tag is known for what it
\* is, and the block the type 2 interface has come to is the next to print.
Reading ==
  restarts = 0 /\ "LATE_CREDITS" \notin Faults => TagKnown /\ TagPrinted
=============================================================================
