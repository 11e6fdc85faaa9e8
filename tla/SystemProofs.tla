---------------------------- MODULE SystemProofs ---------------------------
(***************************************************************************)
(* What is proved of the stack alone holds of it in the loop of a sketch:  *)
(* each sketch is a client of NfcSystem, and NfcSystem, whose controller   *)
(* is the one of Nfcc with any tags and any faults, is NfcTags with one    *)
(* client and one controller in particular.                                *)
(***************************************************************************)
EXTENDS Sketches, NfcTagsSessionProofs, SequenceTheorems

-----------------------------------------------------------------------------
\* The lines between host and controller.

\* A frame asks for a block that the memory of a tag has.
FramesInMemory == \A i \in DOMAIN toNfcc : toNfcc[i].block \in 0..LastBlock

\* The memory has a block 0, and the last READ is within it.
LEMMA MemoryBounds == 0 \in 0..LastBlock /\ LastRead \in 0..LastBlock
<1>1. LastBlock \in Nat /\ ReadBlock \in Nat /\ 1 <= ReadBlock /\ ReadBlock <= LastBlock + 1
  BY MemoryAssumption
<1> QED
  BY <1>1 DEF LastRead

\* What a step of the stack writes is a frame for such a block.
LEMMA FrameWritten ==
  ASSUME TypeOK, DumpInBounds, [Next]_vars, TagsHandleEvent
  PROVE  tx' \in Frame /\ tx'.block \in 0..LastBlock
<1>1. TypeOK' /\ DumpInBounds'
  BY NextTypes, NextReadsInBounds
<1>2. tx' \in Frame
  BY <1>1 DEF TypeOK, NciTypeOK
<1>3. CASE tx'.cmd = "DATA"
  <2>1. LastRead' = LastRead
    BY DEF LastRead
  <2>2. tx'.block \in Nat /\ tx'.block <= LastRead
    BY <1>1, <1>2, <1>3, <2>1 DEF DumpInBounds, Frame
  <2>3. LastRead <= LastBlock /\ LastBlock \in Int /\ LastRead \in Int
    BY MemoryBounds, MemoryAssumption
  <2> QED
    BY <1>2, <2>2, <2>3
<1>4. CASE tx'.cmd # "DATA"
  <2>1. tx'.block = 0
    BY <1>4 DEF TagsHandleEvent, HandleReset, HandleDiscover, HandleDeactivate,
       HandleDump, HandleUnknown, Wait, T2HandleDump, DataSend, CmdCoreReset,
       CmdCoreInit, CmdRfDiscoverMap, CmdRfDiscover, CmdRfDeactivate, HwWrite, Refuse,
       NoCmd, Cmd
  <2> QED
    BY <1>2, <2>1, MemoryBounds
<1> QED
  BY <1>2, <1>3, <1>4

\* The packets the controller makes are those it is said to make.
LEMMA PacketsMade ==
  /\ \A cmd \in Commands \ {"DATA"}, status \in {"OK", "FAILED"} :
       Reply(cmd, status) \in NfccPackets
  /\ \A rf \in Tags : ActivatedPacket(rf) \in NfccPackets
  /\ \A valid \in BOOLEAN, block \in 0..LastBlock :
       DataPacket(valid, block) \in NfccPackets
  /\ Credits \in NfccPackets /\ Deactivated \in NfccPackets
  /\ InterfaceError \in NfccPackets /\ EmptyAnswer \in NfccPackets
BY DEF NfccPackets

-----------------------------------------------------------------------------
\* The inductive invariant of the system: types, and what the blocks in the
\* frames need to stay typed.
SysInv == SysTypeOK /\ DumpInBounds /\ FramesInMemory

\* An element of a line with one more frame is that frame or was there before.
LEMMA AppendedFrame ==
  ASSUME NEW line \in Seq(Frame), NEW frame \in Frame,
         NEW i \in DOMAIN Append(line, frame)
  PROVE  \/ Append(line, frame)[i] = frame
         \/ i \in DOMAIN line /\ Append(line, frame)[i] = line[i]
<1>1. /\ Append(line, frame) \in Seq(Frame)
      /\ Len(Append(line, frame)) = Len(line) + 1
      /\ \A k \in 1..Len(line) : Append(line, frame)[k] = line[k]
      /\ Append(line, frame)[Len(line) + 1] = frame
  BY AppendProperties
<1>2. i \in 1..(Len(line) + 1) /\ Len(line) \in Nat /\ DOMAIN line = 1..Len(line)
  BY <1>1
<1>3. CASE i = Len(line) + 1
  BY <1>1, <1>3
<1>4. CASE i \in 1..Len(line)
  BY <1>1, <1>2, <1>4
<1> QED
  BY <1>2, <1>3, <1>4

\* A step of the controller keeps the lines typed.
LEMMA AnswerTypes ==
  ASSUME NfccTypeOK, toHost \in Seq(Packets), FramesInMemory,
         NEW cmd \in Commands \ {"DATA"}, NEW from,
         NEW to \in {"ON", "RESET", "IDLE", "DISCOVERY", "ACTIVE"},
         NEW notification \in Seq(NfccPackets), Answer(cmd, from, to, notification)
  PROVE  NfccTypeOK' /\ toHost' \in Seq(Packets) /\ FramesInMemory'
<1>1. toNfcc \in Seq(Frame) /\ toNfcc # <<>> /\ toNfcc' = Tail(toNfcc)
  BY DEF Answer, Send, NfccTypeOK
<1>2. toNfcc' \in Seq(Frame) /\ FramesInMemory'
  BY <1>1 DEF FramesInMemory
<1>3. PICK packets \in Seq(NfccPackets) : toHost' = toHost \o packets
  <2>1. <<Reply(cmd, "OK")>> \in Seq(NfccPackets) /\ <<Reply(cmd, "FAILED")>> \in Seq(NfccPackets)
    BY PacketsMade
  <2>2. <<Reply(cmd, "OK")>> \o notification \in Seq(NfccPackets)
    BY <2>1
  <2> QED
    BY <2>1, <2>2 DEF Answer, Send
<1>4. toHost' \in Seq(NfccPackets) /\ toHost' \in Seq(Packets)
  <2>1. packets \in Seq(Packets)
    BY NfccAssumption
  <2> QED
    BY <1>3, <2>1 DEF NfccTypeOK
<1>5. nfcc' \in {"ON", "RESET", "IDLE", "DISCOVERY", "ACTIVE"}
  BY DEF Answer, NfccTypeOK
<1>6. active' \in AtMostOne(Tags) /\ field' \in AtMostOne(Tags)
  BY DEF Answer, NfccTypeOK, AtMostOne
<1> QED
  BY <1>2, <1>4, <1>5, <1>6 DEF NfccTypeOK

\* Every step of the controller keeps the lines typed.
LEMMA NfccStepTypes ==
  ASSUME NfccTypeOK, toHost \in Seq(Packets), FramesInMemory, NfccStep
  PROVE  NfccTypeOK' /\ toHost' \in Seq(Packets) /\ FramesInMemory'
<1>1. <<>> \in Seq(NfccPackets) /\ <<Deactivated>> \in Seq(NfccPackets)
  BY PacketsMade
<1>2. CASE AnswerReset
  BY <1>1, <1>2, AnswerTypes DEF AnswerReset, Commands
<1>3. CASE AnswerInit
  BY <1>1, <1>3, AnswerTypes DEF AnswerInit, Commands
<1>4. CASE AnswerDiscoverMap
  BY <1>1, <1>4, AnswerTypes DEF AnswerDiscoverMap, Commands
<1>5. CASE AnswerDiscover
  BY <1>1, <1>5, AnswerTypes DEF AnswerDiscover, Commands
<1>6. CASE AnswerDeactivate
  BY <1>1, <1>6, AnswerTypes DEF AnswerDeactivate, Commands
<1>7. CASE AnswerRead
  <2>1. toNfcc \in Seq(Frame) /\ toNfcc # <<>> /\ toNfcc' = Tail(toNfcc)
    BY <1>7 DEF AnswerRead, Send, NfccTypeOK
  <2>2. toNfcc' \in Seq(Frame) /\ FramesInMemory'
    BY <2>1 DEF FramesInMemory
  <2>3. Head(toNfcc).block \in 0..LastBlock
    BY <2>1 DEF FramesInMemory
  <2>4. TagAnswers(Head(toNfcc).block) \subseteq NfccPackets
    BY <2>3, PacketsMade DEF TagAnswers
  <2>5. PICK packets \in Seq(NfccPackets) : toHost' = toHost \o packets
    <3>1. \A x, y \in NfccPackets : <<x>> \in Seq(NfccPackets) /\ <<x, y>> \in Seq(NfccPackets)
      OBVIOUS
    <3>2. CASE Send(<<InterfaceError>>)
      BY <3>1, <3>2, PacketsMade DEF Send
    <3>3. ASSUME NEW answer \in TagAnswers(Head(toNfcc).block),
                 Send(<<Credits, answer>>) \/ Send(<<answer, Credits>>)
          PROVE  \E packets \in Seq(NfccPackets) : toHost' = toHost \o packets
      BY <2>4, <3>1, <3>3, PacketsMade DEF Send
    <3> QED
      BY <1>7, <3>2, <3>3 DEF AnswerRead
  <2>6. packets \in Seq(Packets)
    BY NfccAssumption
  <2>7. toHost' \in Seq(NfccPackets) /\ toHost' \in Seq(Packets)
    BY <2>5, <2>6 DEF NfccTypeOK
  <2> QED
    BY <1>7, <2>2, <2>7 DEF AnswerRead, NfccTypeOK
<1>8. CASE Activate
  <2>1. PICK rf \in field : toHost' = Append(toHost, ActivatedPacket(rf))
    BY <1>8 DEF Activate
  <2>2. rf \in Tags
    BY DEF NfccTypeOK, AtMostOne
  <2>3. ActivatedPacket(rf) \in NfccPackets /\ ActivatedPacket(rf) \in Packets
    BY <2>2, PacketsMade, NfccAssumption
  <2>4. toHost' \in Seq(NfccPackets) /\ toHost' \in Seq(Packets)
    BY <2>1, <2>3 DEF NfccTypeOK
  <2> QED
    BY <1>8, <2>4 DEF Activate, NfccTypeOK, FramesInMemory
<1> QED
  BY <1>2, <1>3, <1>4, <1>5, <1>6, <1>7, <1>8 DEF NfccStep

-----------------------------------------------------------------------------
\* Every step of the system is a step of the stack, or none of it.
LEMMA SysStepIsNext ==
  ASSUME SysInv, [SysNext]_sysVars
  PROVE  [Next]_vars
<1>1. CASE ClientTurn
  BY <1>1 DEF ClientTurn, Next
<1>2. CASE TagsTurn
  BY <1>2 DEF TagsTurn, Next
<1>3. CASE NciTurn
  <2>1. Head(toHost) \in Packets
    BY <1>3 DEF NciTurn, PacketRead, SysInv, SysTypeOK
  <2> QED
    BY <1>3, <2>1 DEF NciTurn, Next
<1>4. CASE Environment
  BY <1>4 DEF Environment
<1>5. CASE Reboot
  BY <1>5 DEF Reboot, Next
<1>6. CASE UNCHANGED sysVars
  BY <1>6 DEF sysVars
<1> QED
  BY <1>1, <1>2, <1>3, <1>4, <1>5, <1>6 DEF SysNext

\* SysInv holds at power-on.
LEMMA SysInitInv ==
  ASSUME SysInit
  PROVE  SysInv
<1>1. TypeOK
  BY InitTypes DEF SysInit
<1>2. DumpInBounds
  BY MemoryAssumption DEF SysInit, Init, NciInit, T2Init, NoCmd, Cmd, DumpInBounds, LastRead
<1>3. NfccTypeOK /\ toHost \in Seq(Packets) /\ FramesInMemory
  BY DEF SysInit, NfccInit, NfccTypeOK, AtMostOne, FramesInMemory
<1> QED
  BY <1>1, <1>2, <1>3, RestartsAssumption DEF SysInit, SysInv, SysTypeOK

\* Every step of the system keeps SysInv.
LEMMA SysStepInv ==
  ASSUME SysInv, [SysNext]_sysVars
  PROVE  SysInv'
<1> USE DEF SysInv, SysTypeOK
<1>1. TypeOK' /\ DumpInBounds'
  BY SysStepIsNext, NextTypes, NextReadsInBounds
<1>2. UNCHANGED nfccVars => NfccTypeOK' /\ toHost' \in Seq(Packets) /\ FramesInMemory'
  BY DEF nfccVars, NfccTypeOK, FramesInMemory
<1>3. CASE ClientTurn
  BY <1>1, <1>2, <1>3 DEF ClientTurn
<1>4. CASE TagsTurn
  <2>1. tx' \in Frame /\ tx'.block \in 0..LastBlock
    BY <1>4, SysStepIsNext, FrameWritten DEF TagsTurn
  <2>2. toNfcc' = toNfcc \/ toNfcc' = Append(toNfcc, tx')
    BY <1>4 DEF TagsTurn, OnTheLine
  <2>3. toNfcc' \in Seq(Frame)
    BY <2>1, <2>2 DEF NfccTypeOK
  <2>4. FramesInMemory'
    <3>1. toNfcc \in Seq(Frame)
      BY DEF NfccTypeOK
    <3>2. CASE toNfcc' = toNfcc
      BY <3>2 DEF FramesInMemory
    <3>3. CASE toNfcc' = Append(toNfcc, tx')
      <4>1. \A i \in DOMAIN toNfcc' :
                toNfcc'[i] = tx' \/ (i \in DOMAIN toNfcc /\ toNfcc'[i] = toNfcc[i])
        BY <3>1, <3>3, AppendedFrame, <2>1
      <4> QED
        BY <2>1, <4>1 DEF FramesInMemory
    <3> QED
      BY <2>2, <3>2, <3>3
  <2> QED
    BY <1>1, <1>4, <2>3, <2>4 DEF TagsTurn, NfccTypeOK
<1>5. CASE NciTurn
  <2>1. toHost' \in Seq(NfccPackets) /\ toHost' \in Seq(Packets)
    BY <1>5 DEF NciTurn, PacketRead, NfccTypeOK
  <2> QED
    BY <1>1, <1>5, <2>1 DEF NciTurn, NfccTypeOK, FramesInMemory
<1>6. CASE Environment
  <2>1. CASE NfccStep
    BY <1>1, <1>6, <2>1, NfccStepTypes DEF Environment
  <2>2. CASE FieldStep
    BY <1>1, <1>6, <2>2
    DEF Environment, FieldStep, TagEnters, TagLeaves, NfccTypeOK, AtMostOne, FramesInMemory
  <2> QED
    BY <1>6, <2>1, <2>2 DEF Environment
<1>7. CASE Reboot
  <2>1. NfccTypeOK' /\ toHost' \in Seq(Packets) /\ FramesInMemory'
    <3>1. CASE toNfcc' = <<>> /\ toHost' = <<>> /\ nfcc' = "ON" /\ active' = {} /\ field' = field
      <4>1. FramesInMemory'
        BY <3>1 DEF FramesInMemory
      <4> QED
        BY <3>1, <4>1 DEF NfccTypeOK, AtMostOne
    <3> QED
      BY <1>2, <1>7, <3>1 DEF Reboot, NfccRestart
  <2>2. restarts' \in 0..MaxRestarts
    BY <1>7, RestartsAssumption DEF Reboot
  <2> QED
    BY <1>1, <1>7, <2>1, <2>2 DEF Reboot
<1>8. CASE UNCHANGED sysVars
  BY <1>1, <1>2, <1>8 DEF sysVars
<1> QED
  BY <1>3, <1>4, <1>5, <1>6, <1>7, <1>8 DEF SysNext

\* So SysInv always holds.
LEMMA SysInvariant == SysSpec => []SysInv
<1>1. SysInit => SysInv
  BY SysInitInv
<1>2. SysInv /\ [SysNext]_sysVars => SysInv'
  BY SysStepInv
<1> QED
  BY <1>1, <1>2, PTL DEF SysSpec

\* The types of the whole system, whatever tags come, whatever fails and
\* however often the board is restarted: the frames on the line ask for blocks
\* the memory has, so that the packets that answer them are those expected.
THEOREM SystemTypeCorrect == SysSpec => []SysTypeOK
<1>1. SysInv => SysTypeOK
  BY DEF SysInv
<1> QED
  BY <1>1, SysInvariant, PTL

\* The system is an instance of the stack with its arbitrary client and
\* controller, so that what is proved of the stack is proved of the system.
THEOREM SystemIsStack == SysSpec => Spec
<1>1. SysInit => Init
  BY DEF SysInit
<1>2. SysInv /\ [SysNext]_sysVars => [Next]_vars
  BY SysStepIsNext
<1> QED
  BY <1>1, <1>2, SysInvariant, PTL DEF SysSpec, Spec

\* In particular it is a TagSession, and the six results about the stack hold.
THEOREM SystemIsSession ==
  SysSpec => /\ SessionSpec
             /\ [](LayersAgree /\ SuccessIsReal /\ OkCallbackData /\ DumpInBounds)
             /\ RefusedPacketChangesNothing
BY SystemIsStack, ImplementsSession, LayersInStep, SuccessIsAlwaysReal,
   CallbackDataIsOwn, DumpStaysInBounds, RefusalIsInert, PTL

-----------------------------------------------------------------------------
\* A sketch in its turn calls one command or none.
LEMMA AppTurnIsClientTurn ==
  ASSUME DumpTurn \/ DetectTurn
  PROVE  ClientTurn
BY DEF DumpTurn, DetectTurn, AppTurn, Issue, AppWaits, ClientTurn, Command

\* Either sketch over the stack is a client of NfcSystem.
THEOREM SketchIsClient == AppSpec => SysSpec
<1>1. AppInit => SysInit
  BY DEF AppInit, SketchInit
<1>2. [AppNext]_allVars => [SysNext]_sysVars
  <2> SUFFICES ASSUME [AppNext]_allVars PROVE [SysNext]_sysVars
    OBVIOUS
  <2>1. CASE Loop
    BY <2>1, AppTurnIsClientTurn DEF Loop, DumpLoop, DetectLoop, SysNext
  <2>2. CASE SketchEnvironment
    BY <2>2 DEF SketchEnvironment, SysNext
  <2>3. CASE SketchReboot
    BY <2>3 DEF SketchReboot, SysNext
  <2>4. CASE UNCHANGED allVars
    BY <2>4 DEF allVars, sketchVars
  <2> QED
    BY <2>1, <2>2, <2>3, <2>4 DEF AppNext
<1> QED
  BY <1>1, <1>2, PTL DEF AppSpec, SysSpec
=============================================================================
