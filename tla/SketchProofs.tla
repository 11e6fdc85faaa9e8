---------------------------- MODULE SketchProofs ---------------------------
(***************************************************************************)
(* What the sketches rely on, for any tags, any memory and any faults: from *)
(* the conversation, the steps the sketch and the stack keep in, and that  *)
(* no request is made twice; and what holds after any restart as well.     *)
(***************************************************************************)
EXTENDS ConversationProofs

-----------------------------------------------------------------------------
\* The sketch and NfcTags.

\* Each state of NfcTags is one that belongs to the state of the sketch.
LEMMA SketchWhereItShouldBe ==
  ASSUME SysInv, Talk
  PROVE  tagsState \in TagsStatesFor(app)
<1>1. tagsState \in TagsStates /\ t2State \in {"NONE", "DUMP", "DUMP_RSP"}
  BY DEF SysInv, SysTypeOK, TypeOK, T2TypeOK
<1>2. TagsStatesFor("ERROR") = TagsStates
  BY DEF TagsStatesFor
<1>3. app = "ERROR" \/
      /\ tagsState \notin {"DEACTIVATE_NTF", "DUMP_RSP"}
      /\ tagsState = "NONE" => app = "RESET"
      /\ tagsState \in {"INIT_RESET", "INIT_INIT"} => app = "RESET_RESPONSE"
      /\ tagsState = "INIT_DONE" => app = "DISCOVER"
      /\ tagsState \in {"DISCOVER_MAP", "DISCOVER"} => app = "DISCOVER_RESPONSE"
      /\ tagsState = "DISCOVER_NTF" => app = "DISCOVERING"
      /\ tagsState = "DISCOVER_ACTIVATED" => app \in {"DUMP", "DEACTIVATE"}
      /\ tagsState = "DUMP" => app \in {"DUMP_RESPONSE", "DEACTIVATE"}
      /\ tagsState \in {"DEACTIVATE", "DEACTIVATE_RSP"} => app = "DEACTIVATE_RESPONSE"
  BY <1>1 DEF Talk, Waits, HasTag, Dumps
<1> QED
  BY <1>1, <1>2, <1>3 DEF TagsStates, TagsStatesFor

\* The states of the sketch follow those of NfcTags, whatever fails, unless
\* credits are late.
THEOREM SketchInStep ==
  ASSUME "LATE_CREDITS" \notin Faults
  PROVE  AppSpec => []SketchFollowsTags
<1>1. SysInv /\ Conversation => SketchFollowsTags
  BY SketchWhereItShouldBe DEF Conversation, SketchFollowsTags
<1>2. AppSpec => []SysInv
  BY SketchIsClient, SysInvariant, PTL
<1> QED
  BY <1>1, <1>2, ConversationHolds, PTL

-----------------------------------------------------------------------------
\* No error without a fault.

\* Each state of NfcTags has the sketch wait for what is to come, unless a
\* response or a write may fail.
LEMMA NobodyToBlame ==
  ASSUME SysInv, Talk, ~MayFail
  PROVE  NeverError
<1>1. tagsState \in TagsStates /\ t2State \in {"NONE", "DUMP", "DUMP_RSP"}
  BY DEF SysInv, SysTypeOK, TypeOK, T2TypeOK
<1> QED
  BY <1>1 DEF TagsStates, Talk, Waits, HasTag, Dumps, NeverError

\* The sketch enters its error state only where the controller refuses a
\* command or a write falls short: corrupted and empty answers, lost frames
\* and lost tags do not lead there, whatever tags come.
THEOREM NoErrorUncaused ==
  ASSUME "LATE_CREDITS" \notin Faults, "RSP_FAILED" \notin Faults,
         "FAILED" \notin WriteResults
  PROVE  AppSpec => [](restarts = 0 => NeverError)
<1>1. SysInv /\ Conversation => (restarts = 0 => NeverError)
  BY NobodyToBlame DEF Conversation, MayFail
<1>2. AppSpec => []SysInv
  BY SketchIsClient, SysInvariant, PTL
<1> QED
  BY <1>1, <1>2, ConversationHolds, PTL

-----------------------------------------------------------------------------
\* One request at a time.

\* A line of which at most the packet at one place is an answer awaits no other.
LEMMA OneAnswer ==
  ASSUME toNfcc = <<>>, NEW k, \A i \in DOMAIN toHost : IsAnswer(toHost[i]) => i = k
  PROVE  OneRequest
<1>1. DOMAIN toNfcc = {}
  OBVIOUS
<1>2. \A r \in Outstanding : r = <<"answered", k>>
  BY <1>1 DEF Outstanding
<1> QED
  BY <1>2 DEF OneRequest

\* One frame on its way and nothing to read is one request.
LEMMA OneFrame ==
  ASSUME NEW frame, toNfcc = <<frame>>, toHost = <<>>
  PROVE  OneRequest
<1>1. DOMAIN toNfcc = {1} /\ DOMAIN toHost = {}
  OBVIOUS
<1>2. \A r \in Outstanding : r = <<"asked", 1>>
  BY <1>1 DEF Outstanding
<1> QED
  BY <1>2 DEF OneRequest

\* Neither a notification of the controller's own nor one of its credits
\* answers a request.
LEMMA NoAnswers ==
  /\ ~IsAnswer(Credits) /\ ~IsAnswer(Deactivated)
  /\ \A rf : ~IsAnswer(ActivatedPacket(rf))
<1>1. /\ Credits.mt = "NTF" /\ Credits.oid = "CONN_CREDITS"
      /\ Deactivated.mt = "NTF" /\ Deactivated.oid = "RF_DEACTIVATE"
      /\ InterfaceError.oid = "OTHER"
  BY DEF Credits, Deactivated, InterfaceError, Packet
<1>2. \A rf : ActivatedPacket(rf).mt = "NTF" /\ ActivatedPacket(rf).oid = "RF_INTF_ACTIVATED"
  BY DEF ActivatedPacket, Packet
<1> QED
  BY <1>1, <1>2 DEF IsAnswer

\* Short lines of which only one packet is an answer.
LEMMA ShortAnswers ==
  ASSUME toNfcc = <<>>
  PROVE  /\ toHost = <<>> => OneRequest
         /\ \A p : toHost = <<p>> => OneRequest
         /\ \A p, q : toHost = <<p, q>> /\ ~(IsAnswer(p) /\ IsAnswer(q)) => OneRequest
         /\ \A p, q, r : toHost = <<p, q, r>> /\ ~IsAnswer(q) /\ ~IsAnswer(r) => OneRequest
<1>1. ASSUME toHost = <<>> PROVE OneRequest
  <2>1. DOMAIN toHost = {}
    BY <1>1
  <2> QED
    BY <2>1, OneAnswer
<1>2. ASSUME NEW p, toHost = <<p>> PROVE OneRequest
  <2>1. DOMAIN toHost = {1}
    BY <1>2
  <2> QED
    BY <2>1, OneAnswer
<1>3. ASSUME NEW p, NEW q, toHost = <<p, q>>, ~(IsAnswer(p) /\ IsAnswer(q))
      PROVE  OneRequest
  <2>1. DOMAIN toHost = {1, 2} /\ toHost[1] = p /\ toHost[2] = q
    BY <1>3
  <2>2. CASE ~IsAnswer(p)
    BY <2>1, <2>2, OneAnswer
  <2>3. CASE ~IsAnswer(q)
    BY <2>1, <2>3, OneAnswer
  <2> QED
    BY <1>3, <2>2, <2>3
<1>4. ASSUME NEW p, NEW q, NEW r, toHost = <<p, q, r>>, ~IsAnswer(q), ~IsAnswer(r)
      PROVE  OneRequest
  <2>1. DOMAIN toHost = {1, 2, 3} /\ toHost[2] = q /\ toHost[3] = r
    BY <1>4
  <2> QED
    BY <1>4, <2>1, OneAnswer
<1> QED
  BY <1>1, <1>2, <1>3, <1>4

\* A question is one request, and so is an answer, with what may follow it.
LEMMA EachIsOne ==
  /\ \A cmd, from : Asks(cmd, from) => OneRequest
  /\ \A cmd, to : Grants(cmd, to) => OneRequest
  /\ \A block : Reads(block) => OneRequest
  /\ Searches(<<>>) \/ Searches(<<Deactivated>>) => OneRequest
  /\ \A p : Searches(<<p>>) \/ Searches(<<p, Deactivated>>) => OneRequest
  /\ LinesIdle => OneRequest
<1>1. LinesIdle => OneRequest
  BY ShortAnswers DEF LinesIdle
<1>2. ASSUME NEW cmd, NEW from, Asks(cmd, from) PROVE OneRequest
  BY <1>1, <1>2, ShortAnswers, OneFrame DEF Asks
<1>3. ASSUME NEW cmd, NEW to, Grants(cmd, to) PROVE OneRequest
  BY <1>3, ShortAnswers DEF Grants
<1>4. ASSUME NEW block, Reads(block) PROVE OneRequest
  <2>1. CASE toNfcc = <<[cmd |-> "DATA", block |-> block]>> /\ toHost = <<>>
    BY <2>1, OneFrame
  <2>2. ASSUME NEW answer, toNfcc = <<>>, toHost \in {<<Credits, answer>>, <<answer>>}
        PROVE  OneRequest
    BY <2>2, ShortAnswers, NoAnswers
  <2> QED
    BY <1>1, <1>4, <2>1, <2>2 DEF Reads
<1>5. ASSUME Searches(<<>>) PROVE OneRequest
  <2>1. toNfcc = <<>> /\ (toHost = <<>> \/ \E p : toHost = <<p>>)
    BY <1>5, ShortLines DEF Searches
  <2> QED
    BY <2>1, ShortAnswers
<1>6. ASSUME NEW p, Searches(<<p>>) PROVE OneRequest
  <2>1. toNfcc = <<>> /\ (toHost = <<p>> \/ \E rf : toHost = <<p, ActivatedPacket(rf)>>)
    <3>1. \A q : Append(<<p>>, q) = <<p, q>>
      BY ShortLines
    <3> QED
      BY <1>6, <3>1 DEF Searches
  <2> QED
    BY <2>1, ShortAnswers, NoAnswers
<1>7. ASSUME NEW p, Searches(<<p, Deactivated>>) PROVE OneRequest
  <2>1. /\ toNfcc = <<>>
        /\ \/ toHost = <<p, Deactivated>>
           \/ \E rf : toHost = <<p, Deactivated, ActivatedPacket(rf)>>
    <3>1. \A q : Append(<<p, Deactivated>>, q) = <<p, Deactivated, q>>
      BY ShortLines
    <3> QED
      BY <1>7, <3>1 DEF Searches
  <2> QED
    BY <2>1, ShortAnswers, NoAnswers
<1> QED
  BY <1>1, <1>2, <1>3, <1>4, <1>5, <1>6, <1>7

\* So at every point of the conversation one request is outstanding at most.
LEMMA TalkIsOneRequest ==
  ASSUME SysInv, Talk
  PROVE  OneRequest
<1>1. tagsState \in TagsStates /\ t2State \in {"NONE", "DUMP", "DUMP_RSP"}
  BY DEF SysInv, SysTypeOK, TypeOK, T2TypeOK
<1>2. tagsState \in {"NONE", "INIT_DONE"} => LinesIdle
  BY DEF Talk
<1>3. tagsState = "DISCOVER_ACTIVATED" => LinesIdle
  BY DEF Talk, HasTag
<1>4. tagsState = "DUMP" => LinesIdle \/ Reads(t2Block)
  BY <1>1 DEF Talk, Dumps
<1>5. tagsState \in {"INIT_RESET", "INIT_INIT", "DISCOVER_MAP"} => OneRequest
  BY EachIsOne DEF Talk
<1>6. tagsState \in {"DISCOVER", "DISCOVER_NTF", "DEACTIVATE", "DEACTIVATE_RSP"} => OneRequest
  BY EachIsOne DEF Talk
<1> QED
  BY <1>1, <1>2, <1>3, <1>4, <1>5, <1>6, EachIsOne DEF TagsStates, Talk

\* A command or a READ is written only when the one before it has been answered
\* and the answer read, whatever fails, unless credits are late.
THEOREM RequestsOneByOne ==
  ASSUME "LATE_CREDITS" \notin Faults
  PROVE  AppSpec => [](restarts = 0 => OneRequest)
<1>1. SysInv /\ Conversation => (restarts = 0 => OneRequest)
  BY TalkIsOneRequest DEF Conversation
<1>2. AppSpec => []SysInv
  BY SketchIsClient, SysInvariant, PTL
<1> QED
  BY <1>1, <1>2, ConversationHolds, PTL

-----------------------------------------------------------------------------
\* What holds after any number of restarts, and with late credits.

\* Only an answer to a READ moves the dump, and only with it comes a block.
LEMMA OnlyDataDumps ==
  ASSUME NEW p, OnNciCallback(p)
  PROVE  /\ tagsState' = "DUMP" => tagsState = "DUMP"
         /\ \/ T2HandleDataDump(p) /\ api' = DumpCall(p)
            \/ UNCHANGED t2Vars /\ api'.dump = FALSE
<1> USE DEF Progress, Notify, Upcall, NoUpcall, NoApi, ApiCall
<1>1. CASE CbCoreReset \/ CbCoreInit \/ CbRfDiscoverMap \/ CbRfDiscover
  BY <1>1 DEF CbCoreReset, CbCoreInit, CbRfDiscoverMap, CbRfDiscover
<1>2. CASE CbRfDiscoverNtf \/ CbRfDeactivate \/ CbRfDeactivateNtf
  BY <1>2 DEF CbRfDiscoverNtf, CbRfDeactivate, CbRfDeactivateNtf
<1>3. CASE CbData(p)
  BY <1>3 DEF CbData, tagsVars
<1>4. CASE NoCallback
  BY <1>4 DEF NoCallback, tagsVars
<1> QED
  BY <1>1, <1>2, <1>3, <1>4 DEF OnNciCallback

\* A turn of NfcTags gives the client no block.
LEMMA TagsTurnDumpsNothing ==
  ASSUME TagsTurn
  PROVE  api'.dump = FALSE /\ UNCHANGED tagsState
BY DEF TagsTurn, TagsHandleEvent, HandleReset, HandleDiscover, HandleDeactivate, HandleDump,
   HandleUnknown, Notify, Upcall, NoUpcall, NoApi, ApiCall, tagsVars

\* The block a packet holds is one of the memory.
LEMMA BlocksSent == \A p \in NfccPackets : p.block \in 0..LastBlock
<1>1. 0 \in 0..LastBlock
  BY MemoryBounds
<1>2. \A cmd, status : Reply(cmd, status).block = 0
  BY DEF Reply, RspPacket, Packet
<1>3. \A rf : ActivatedPacket(rf).block = 0
  BY DEF ActivatedPacket, Packet
<1>4. \A valid, block : DataPacket(valid, block).block = block
  BY DEF DataPacket, Packet
<1>5. Credits.block = 0 /\ Deactivated.block = 0 /\ InterfaceError.block = 0
      /\ EmptyAnswer.block = 0
  BY DEF Credits, Deactivated, InterfaceError, EmptyAnswer, DataPacket, Packet
<1> QED
  BY <1>1, <1>2, <1>3, <1>4, <1>5 DEF NfccPackets

\* What the sketch prints is typed.
LEMMA PrintedTypes ==
  ASSUME SketchTypeOK, SysInv, TypeOK', SketchCallbacks, TagsTurn \/ NciTurn
  PROVE  shown' \in Labels /\ dumped' \in Seq(NoBlock..LastBlock)
<1>1. shown' \in Labels
  <2>1. tagIntf' \in TagIntfs \cup {"NULL"} /\ rfIntf'.nfcidLen \in {0, 4, 7, 10}
    BY DEF TypeOK, NciTypeOK, RfParams
  <2>2. NfcidLens(tagIntf') \subseteq {0, 4, 7, 10}
    BY <2>1 DEF NfcidLens
  <2>3. UnknownTag \in Labels
    BY DEF UnknownTag, Labels
  <2>4. shown \in Labels /\ ShowTag(api')
    BY DEF SketchTypeOK, SketchCallbacks, DumpCallbacks, DetectCallbacks
  <2>5. [intf : {tagIntf'}, nfcidLen : NfcidLens(tagIntf')] \subseteq Labels
    BY <2>1, <2>2 DEF Labels
  <2> QED
    BY <2>3, <2>4, <2>5 DEF ShowTag
<1>2. api'.dump => api'.block \in NoBlock..LastBlock
  <2>1. CASE TagsTurn
    BY <2>1, TagsTurnDumpsNothing
  <2>2. CASE NciTurn
    <3>1. Head(toHost) \in NfccPackets
      BY <2>2 DEF NciTurn, PacketRead, SysInv, SysTypeOK, NfccTypeOK
    <3>2. api' = DumpCall(Head(toHost)) \/ api'.dump = FALSE
      BY <2>2, OnlyDataDumps DEF NciTurn, ReceiveEvent
    <3>3. LastBlock \in Nat
      BY MemoryAssumption
    <3> QED
      BY <3>1, <3>2, <3>3, BlocksSent DEF DumpCall, NoBlock
  <2> QED
    BY <2>1, <2>2
<1>3. dumped' \in {dumped, <<>>} \/ (api'.dump /\ dumped' = Append(dumped, api'.block))
  BY DEF SketchCallbacks, DumpCallbacks, DetectCallbacks
<1>4. dumped \in Seq(NoBlock..LastBlock) /\ <<>> \in Seq(NoBlock..LastBlock)
  BY DEF SketchTypeOK
<1>5. dumped' \in Seq(NoBlock..LastBlock)
  <2> DEFINE Blocks == NoBlock..LastBlock
  <2>1. \A b \in Blocks : dumped \in Seq(Blocks) => Append(dumped, b) \in Seq(Blocks)
    BY AppendProperties
  <2> QED
    BY <1>2, <1>3, <1>4, <2>1
<1> QED
  BY <1>1, <1>5

\* Every step keeps the sketch's variables typed.
LEMMA SketchStepTypes ==
  ASSUME SketchTypeOK, SysInv, SysTypeOK', [AppNext]_allVars
  PROVE  SketchTypeOK'
<1>1. app \in AppStates /\ shown \in Labels /\ dumped \in Seq(NoBlock..LastBlock)
  BY DEF SketchTypeOK
<1>2. CASE (DumpTurn \/ DetectTurn) /\ UNCHANGED sketch
  <2>1. UNCHANGED <<shown, dumped>>
    BY <1>2 DEF DumpTurn, DetectTurn, AppTurn
  <2>2. app' \in AppStates
    BY <1>1, <1>2 DEF DumpTurn, DetectTurn, AppTurn, Issue, AppWaits, AppStates
  <2> QED
    BY <1>1, <2>1, <2>2 DEF SketchTypeOK
<1>3. CASE (TagsTurn \/ NciTurn) /\ SketchCallbacks
  <2>1. app' \in AppStates
    BY <1>1, <1>3 DEF SketchCallbacks, DumpCallbacks, DetectCallbacks, DumpCbDiscoverNtf, DumpCbDump,
       DetectCbDiscoverNtf, AppAfter, Expect, AppStates
  <2>2. shown' \in Labels /\ dumped' \in Seq(NoBlock..LastBlock)
    BY <1>3, PrintedTypes DEF SysTypeOK
  <2> QED
    BY <2>1, <2>2 DEF SketchTypeOK
<1>4. CASE SketchEnvironment \/ UNCHANGED allVars
  BY <1>1, <1>4 DEF SketchEnvironment, allVars, sketchVars, SketchTypeOK
<1>5. CASE SketchReboot
  <2>1. Unread \in Labels /\ "RESET" \in AppStates
    BY DEF Unread, Labels, AppStates
  <2> QED
    BY <1>5, <2>1 DEF SketchReboot, SketchTypeOK
<1> QED
  BY <1>2, <1>3, <1>4, <1>5 DEF AppNext, Loop, DumpLoop, DetectLoop, SketchCallbacks

\* What the sketches keep and print is what they can keep and print, the blocks
\* of the memory included, whatever fails and however often the board restarts.
THEOREM SketchTypeCorrect == AppSpec => []SketchTypeOK
<1>1. AppInit => SketchTypeOK
  <2>1. SysInit => SysTypeOK
    BY SysInitInv DEF SysInv
  <2> QED
    BY <2>1 DEF AppInit, SketchInit, SketchTypeOK, AppStates, Labels, Unread
<1>2. SysInv /\ SysInv' /\ SketchTypeOK /\ [AppNext]_allVars => SketchTypeOK'
  BY SketchStepTypes DEF SysInv
<1>3. AppSpec => []SysInv
  BY SketchIsClient, SysInvariant, PTL
<1> QED
  BY <1>1, <1>2, <1>3, PTL DEF AppSpec

-----------------------------------------------------------------------------
\* A dump that is over is noticed before NfcTags has its next turn.

\* Only the dump sketch dumps, and when a dump is over it is its turn, to
\* deactivate the tag.
DumpOwned ==
  /\ app \in {"DUMP", "DUMP_RESPONSE"} => sketch = "TagDump"
  /\ tagsState = "DUMP" =>
       /\ sketch = "TagDump"
       /\ t2State = "NONE" => pc = "app" /\ app = "DEACTIVATE"

\* Every step keeps it so, restarts and late credits included.
LEMMA DumpStaysOwned ==
  ASSUME DumpOwned, [AppNext]_allVars
  PROVE  DumpOwned'
<1>1. CASE /\ \/ sketch = "TagDump" /\ DumpTurn
              \/ sketch = "TagDetect" /\ DetectTurn
           /\ UNCHANGED sketch
  <2>1. \/ AppWaits
        \/ Issue("RESET", CmdReset, "RESET_RESPONSE")
        \/ Issue("DISCOVER", CmdDiscover, "DISCOVER_RESPONSE")
        \/ Issue("DEACTIVATE", CmdDeactivate, "DEACTIVATE_RESPONSE")
        \/ Issue("DUMP", CmdDump, "DUMP_RESPONSE") /\ sketch = "TagDump"
    BY <1>1 DEF DumpTurn, DetectTurn, AppTurn
  <2>2. app' \in {"DUMP", "DUMP_RESPONSE"} => sketch = "TagDump"
    BY <1>1 DEF DumpTurn, DetectTurn, AppTurn, Issue, AppWaits, DumpOwned
  <2>3. CASE AppWaits
    BY <1>1, <2>2, <2>3 DEF AppWaits, DumpOwned, vars, tagsVars, t2Vars
  <2>4. CASE Issue("RESET", CmdReset, "RESET_RESPONSE")
    BY <1>1, <2>2, <2>4 DEF Issue, CmdReset, DumpOwned
  <2>5. CASE Issue("DISCOVER", CmdDiscover, "DISCOVER_RESPONSE")
    BY <1>1, <2>2, <2>5 DEF Issue, CmdDiscover, Rejected, DumpOwned, tagsVars, t2Vars
  <2>6. CASE Issue("DEACTIVATE", CmdDeactivate, "DEACTIVATE_RESPONSE")
    BY <1>1, <2>2, <2>6 DEF Issue, CmdDeactivate, Rejected, DumpOwned, tagsVars, t2Vars
  <2>7. CASE Issue("DUMP", CmdDump, "DUMP_RESPONSE") /\ sketch = "TagDump"
    <3>1. CASE tagsState # "DISCOVER_ACTIVATED"
      BY <1>1, <2>2, <2>7, <3>1 DEF Issue, CmdDump, Rejected, DumpOwned, tagsVars, t2Vars
    <3>2. CASE tagsState = "DISCOVER_ACTIVATED"
      BY <1>1, <2>2, <2>7, <3>2
      DEF Issue, CmdDump, IntfCmdDump, T2CmdDump, DumpOwned, t2Vars, Return, ApiCall
    <3> QED
      BY <3>1, <3>2
  <2> QED
    BY <2>1, <2>3, <2>4, <2>5, <2>6, <2>7
<1>2. CASE (TagsTurn \/ NciTurn) /\ SketchCallbacks /\ UNCHANGED sketch
  <2>1. app' \in {"DUMP", "DUMP_RESPONSE"} => sketch = "TagDump"
    BY <1>2 DEF SketchCallbacks, DumpCallbacks, DetectCallbacks, DetectCbDiscoverNtf, AppAfter, Expect,
       DumpOwned
  <2>2. CASE TagsTurn
    <3>1. tagsState' = tagsState /\ pc = "tags"
      BY <2>2, TagsTurnDumpsNothing DEF TagsTurn
    <3>2. t2State' = "NONE" => t2State = "NONE"
      BY <2>2 DEF TagsTurn, TagsHandleEvent, HandleReset, HandleDiscover, HandleDeactivate,
         HandleDump, HandleUnknown, T2HandleDump, t2Vars
    <3> QED
      BY <1>2, <2>1, <3>1, <3>2 DEF DumpOwned
  <2>3. CASE NciTurn
    <3> DEFINE p == Head(toHost)
    <3>1. pc = "nci" /\ pc' = "app" /\ OnNciCallback(p)
      BY <2>3 DEF NciTurn, ReceiveEvent
    <3> HIDE DEF p
    <3>2. SUFFICES ASSUME tagsState' = "DUMP", t2State' = "NONE" PROVE app' = "DEACTIVATE"
      BY <1>2, <2>1, <3>1, OnlyDataDumps DEF DumpOwned
    <3>3. tagsState = "DUMP" /\ sketch = "TagDump" /\ t2State # "NONE"
      BY <3>1, <3>2, OnlyDataDumps DEF DumpOwned
    <3>4. T2HandleDataDump(p) /\ api' = DumpCall(p)
      BY <3>1, <3>2, <3>3, OnlyDataDumps DEF t2Vars
    <3>5. ~T2More(p)
      BY <3>2, <3>4 DEF T2HandleDataDump
    <3> QED
      BY <1>2, <3>3, <3>4, <3>5, Heard
  <2> QED
    BY <1>2, <2>2, <2>3
<1>3. CASE SketchEnvironment /\ UNCHANGED sketch
  BY <1>3 DEF SketchEnvironment, Environment, DumpOwned, vars, tagsVars, t2Vars
<1>4. CASE SketchReboot /\ UNCHANGED sketch
  BY <1>4 DEF SketchReboot, Reboot, Restart, DumpOwned
<1>5. CASE UNCHANGED allVars
  BY <1>5 DEF allVars, sketchVars, sysVars, vars, tagsVars, t2Vars, DumpOwned
<1>6. CASE Loop
  <2>1. UNCHANGED sketch
    BY <1>6 DEF Loop
  <2>2. CASE sketch = "TagDump" /\ DumpLoop
    <3>1. DumpTurn \/ ((TagsTurn \/ NciTurn) /\ SketchCallbacks)
      BY <2>2 DEF DumpLoop, SketchCallbacks
    <3> QED
      BY <1>1, <1>2, <2>1, <2>2, <3>1
  <2>3. CASE sketch = "TagDetect" /\ DetectLoop
    <3>1. DetectTurn \/ ((TagsTurn \/ NciTurn) /\ SketchCallbacks)
      BY <2>3 DEF DetectLoop, SketchCallbacks
    <3> QED
      BY <1>1, <1>2, <2>1, <2>3, <3>1
  <2> QED
    BY <1>6, <2>2, <2>3 DEF Loop
<1> QED
  BY <1>3, <1>4, <1>5, <1>6 DEF AppNext

\* With either sketch the dump handler never gets to return an uninitialized
\* status, whatever fails, credits come when they may, and the board is
\* restarted: the sketch deactivates the tag in the turn after the last answer.
THEOREM DumpStatusAlwaysSet == AppSpec => []DumpStatusInitialized
<1>1. AppInit => DumpOwned
  BY DEF AppInit, SketchInit, SysInit, Init, DumpOwned
<1>2. DumpOwned /\ [AppNext]_allVars => DumpOwned'
  BY DumpStaysOwned
<1>3. DumpOwned => DumpStatusInitialized
  BY DEF DumpOwned, DumpStatusInitialized
<1> QED
  BY <1>1, <1>2, <1>3, PTL DEF AppSpec
=============================================================================
