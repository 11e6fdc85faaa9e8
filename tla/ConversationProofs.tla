------------------------- MODULE ConversationProofs ------------------------
(***************************************************************************)
(* The conversation between a sketch, the stack and a controller goes as   *)
(* module Conversation says, for any tags, any memory and any faults but   *)
(* late credits, until the board is restarted; and what the sketches rely  *)
(* on follows from it.                                                     *)
(***************************************************************************)
EXTENDS Conversation, HostProofs

-----------------------------------------------------------------------------
\* Lines of a few packets.

\* A line put together from two, packet by packet.
LEMMA ShortLines ==
  ASSUME NEW a, NEW b, NEW c
  PROVE  /\ Append(<<>>, a) = <<a>>
         /\ Append(<<a>>, b) = <<a, b>>
         /\ Append(<<a, b>>, c) = <<a, b, c>>
         /\ <<>> \o <<a>> = <<a>>
         /\ <<>> \o <<a, b>> = <<a, b>>
         /\ <<a>> \o <<>> = <<a>>
         /\ <<a>> \o <<b>> = <<a, b>>
<1> DEFINE S == {a, b, c}
<1>1. /\ <<>> \in Seq(S) /\ <<a>> \in Seq(S) /\ <<b>> \in Seq(S)
      /\ <<a, b>> \in Seq(S) /\ <<a, b, c>> \in Seq(S)
  OBVIOUS
<1>2. Append(<<a>>, b) = <<a, b>>
  <2>1. Append(<<a>>, b) \in Seq(S) /\ Len(Append(<<a>>, b)) = 2
    BY <1>1, AppendProperties
  <2>2. \A i \in 1..2 : Append(<<a>>, b)[i] = <<a, b>>[i]
    BY <1>1, AppendProperties
  <2> QED
    BY <1>1, <2>1, <2>2, SeqEqual
<1>3. Append(<<a, b>>, c) = <<a, b, c>>
  <2>1. Append(<<a, b>>, c) \in Seq(S) /\ Len(Append(<<a, b>>, c)) = 3
    BY <1>1, AppendProperties
  <2>2. \A i \in 1..3 : Append(<<a, b>>, c)[i] = <<a, b, c>>[i]
    <3>1. Len(<<a, b>>) = 2 /\ <<a, b>>[1] = a /\ <<a, b>>[2] = b
      OBVIOUS
    <3>2. Append(<<a, b>>, c)[1] = a /\ Append(<<a, b>>, c)[2] = b
          /\ Append(<<a, b>>, c)[3] = c
      BY <1>1, <3>1, AppendProperties
    <3> QED
      BY <3>2
  <2> QED
    BY <1>1, <2>1, <2>2, SeqEqual
<1>4. <<a>> \o <<b>> = <<a, b>>
  <2>1. /\ <<a>> \o <<b>> \in Seq(S) /\ Len(<<a>> \o <<b>>) = 2
        /\ (<<a>> \o <<b>>)[1] = a /\ (<<a>> \o <<b>>)[2] = b
    BY <1>1, ConcatProperties
  <2>2. \A i \in 1..2 : (<<a>> \o <<b>>)[i] = <<a, b>>[i]
    BY <2>1
  <2> QED
    BY <1>1, <2>1, <2>2, SeqEqual
<1> QED
  BY <1>1, <1>2, <1>3, <1>4

\* A line read from its head.
LEMMA LineRead ==
  ASSUME NEW a, NEW b, NEW c
  PROVE  /\ <<a>> # <<>> /\ Head(<<a>>) = a /\ Tail(<<a>>) = <<>>
         /\ <<a, b>> # <<>> /\ Head(<<a, b>>) = a /\ Tail(<<a, b>>) = <<b>>
         /\ <<a, b, c>> # <<>> /\ Head(<<a, b, c>>) = a
         /\ Tail(<<a, b, c>>) = <<b, c>>
         /\ Len(<<a>>) = 1
<1>1. Tail(<<a, b, c>>) = <<b, c>>
  <2> DEFINE S == {a, b, c}
             line == <<a, b, c>>
  <2>1. line \in Seq(S) /\ line # <<>> /\ <<b, c>> \in Seq(S) /\ Len(line) = 3
        /\ line[2] = b /\ line[3] = c
    OBVIOUS
  <2> HIDE DEF line
  <2>2. Tail(line) \in Seq(S) /\ Len(Tail(line)) = 2
        /\ Tail(line)[1] = b /\ Tail(line)[2] = c
    BY <2>1, HeadTailProperties
  <2>3. \A i \in 1..2 : Tail(line)[i] = <<b, c>>[i]
    <3>1. <<b, c>>[1] = b /\ <<b, c>>[2] = c
      OBVIOUS
    <3>2. \A i \in 1..2 : i = 1 \/ i = 2
      OBVIOUS
    <3> QED
      BY <2>2, <3>1, <3>2
  <2>4. Tail(line) = <<b, c>>
    BY <2>1, <2>2, <2>3, SeqEqual
  <2> QED
    BY <2>4 DEF line
<1>2. <<a, b, c>> # <<>>
  OBVIOUS
<1> QED
  BY <1>1, <1>2

-----------------------------------------------------------------------------
\* What reading one packet does to the layers and is heard of by the client.

\* What a step leaves alone when it moves no state machine.
Still == UNCHANGED <<nciState, rfIntf, tagsVars, t2Vars>>

\* The client hears of a failure of one of its commands.
Fails ==
  \E fn \in {"cbReset", "cbDiscover", "cbDeactivate"}, id \in TagsIds,
     status \in {"REJECTED", "FAILED"} : api' = ApiCall(fn, status, id)

\* A refused command moves nothing and is heard of.
LEMMA RefusalRead ==
  ASSUME NEW cmd \in Commands \ {"DATA"}, ReceiveEvent(Reply(cmd, "FAILED"))
  PROVE  Still /\ Fails
<1> DEFINE p == Reply(cmd, "FAILED")
<1>1. /\ p.frag = FALSE /\ p.len = "GOOD" /\ p.mt = "RSP"
      /\ p.gid = IF cmd \in {"CORE_RESET", "CORE_INIT"} THEN "CORE" ELSE "RF_MANAGE"
      /\ p.oid = cmd
      /\ p.status = "FAILED"
  BY DEF Reply, RspPacket, Packet
<1>2. NciHandleEvent(p) /\ OnNciCallback(p)
  BY DEF ReceiveEvent
<1> HIDE DEF p
<1>3. /\ UNCHANGED <<nciState, rfIntf>>
      /\ nciCb'.status \in {"REJECTED", "FAILED"}
      /\ nciCb'.fn = CASE cmd = "CORE_RESET"      -> "cbCoreReset"
                       [] cmd = "CORE_INIT"       -> "cbCoreInit"
                       [] cmd = "RF_DISCOVER_MAP" -> "cbRfDiscoverMap"
                       [] cmd = "RF_DISCOVER"     -> "cbRfDiscover"
                       [] cmd = "RF_DEACTIVATE"   -> "cbRfDeactivate"
  BY <1>1, <1>2 DEF Commands, NciHandleEvent, HandleCoreEvent, HandleRfEvent,
     RspCoreReset, RspCoreInit, RspRfDiscoverMap, RspRfDiscover, RspRfDeactivate,
     Advance, RspStatus, Checked, Callback, Call
<1>4. CbCoreReset \/ CbCoreInit \/ CbRfDiscoverMap \/ CbRfDiscover \/ CbRfDeactivate
  BY <1>2, <1>3 DEF Commands, OnNciCallback, CbRfDiscoverNtf, CbRfDeactivateNtf, CbData,
     NoCallback, CalledBack
<1>5. TagsStatusOf(nciCb'.status) \in {"REJECTED", "FAILED"} /\ nciCb'.status # "OK"
  BY <1>3 DEF TagsStatusOf
<1>6. Fails
  BY <1>4, <1>5 DEF Fails, TagsIds, Notify, Upcall, CbCoreReset, CbCoreInit,
     CbRfDiscoverMap, CbRfDiscover, CbRfDeactivate
<1>7. UNCHANGED <<tagsVars, t2Vars>>
  BY <1>4, <1>5 DEF Progress, tagsVars, CbCoreReset, CbCoreInit, CbRfDiscoverMap,
     CbRfDiscover, CbRfDeactivate
<1> QED
  BY <1>3, <1>6, <1>7 DEF Still

\* An accepted command moves NfcNci and NfcTags together; the client hears of
\* the last of a sequence.
LEMMA SuccessRead ==
  ASSUME NEW cmd \in Commands \ {"DATA"}, ReceiveEvent(Reply(cmd, "OK"))
  PROVE  /\ UNCHANGED <<rfIntf, tagsId, tagIntf, rfPtr, t2Vars>>
         /\ cmd = "CORE_RESET" /\ nciState = "NONE" =>
              tagsState' = "INIT_INIT" /\ api' = NoApi
         /\ cmd = "CORE_INIT" /\ nciState = "RFST_RESET" =>
              tagsState' = "INIT_DONE" /\ api' = ApiCall("cbReset", "OK", "RESET")
         /\ cmd = "RF_DISCOVER_MAP" /\ nciState = "RFST_IDLE" =>
              tagsState' = "DISCOVER" /\ api' = NoApi
         /\ cmd = "RF_DISCOVER" /\ nciState = "RFST_IDLE" =>
              tagsState' = "DISCOVER_NTF" /\ api' = ApiCall("cbDiscover", "OK", "DISCOVER")
         /\ cmd = "RF_DEACTIVATE" /\ nciState = "RFST_POLL_ACTIVE" =>
              tagsState' = "DEACTIVATE_RSP" /\ api' = NoApi
<1> DEFINE p == Reply(cmd, "OK")
<1>1. /\ p.frag = FALSE /\ p.len = "GOOD" /\ p.mt = "RSP"
      /\ p.gid = IF cmd \in {"CORE_RESET", "CORE_INIT"} THEN "CORE" ELSE "RF_MANAGE"
      /\ p.oid = cmd
      /\ p.status = "OK"
  BY DEF Reply, RspPacket, Packet
<1>2. NciHandleEvent(p) /\ OnNciCallback(p)
  BY DEF ReceiveEvent
<1> HIDE DEF p
<1>3. /\ UNCHANGED rfIntf
      /\ nciCb'.fn = CASE cmd = "CORE_RESET"      -> "cbCoreReset"
                       [] cmd = "CORE_INIT"       -> "cbCoreInit"
                       [] cmd = "RF_DISCOVER_MAP" -> "cbRfDiscoverMap"
                       [] cmd = "RF_DISCOVER"     -> "cbRfDiscover"
                       [] cmd = "RF_DEACTIVATE"   -> "cbRfDeactivate"
      /\ \/ cmd = "CORE_RESET" /\ nciState = "NONE"
         \/ cmd = "CORE_INIT" /\ nciState = "RFST_RESET"
         \/ cmd \in {"RF_DISCOVER_MAP", "RF_DISCOVER"} /\ nciState = "RFST_IDLE"
         \/ cmd = "RF_DEACTIVATE" /\ nciState = "RFST_POLL_ACTIVE"
         => nciCb'.status = "OK"
  BY <1>1, <1>2 DEF Commands, NciHandleEvent, HandleCoreEvent, HandleRfEvent,
     RspCoreReset, RspCoreInit, RspRfDiscoverMap, RspRfDiscover, RspRfDeactivate,
     Advance, RspStatus, Checked, Callback, Call
<1>4. /\ cmd = "CORE_RESET" => CbCoreReset
      /\ cmd = "CORE_INIT" => CbCoreInit
      /\ cmd = "RF_DISCOVER_MAP" => CbRfDiscoverMap
      /\ cmd = "RF_DISCOVER" => CbRfDiscover
      /\ cmd = "RF_DEACTIVATE" => CbRfDeactivate
  BY <1>2, <1>3 DEF OnNciCallback, CbCoreReset, CbCoreInit,
     CbRfDiscoverMap, CbRfDiscover, CbRfDiscoverNtf, CbRfDeactivate,
     CbRfDeactivateNtf, CbData, NoCallback, CalledBack
<1>5. TagsStatusOf("OK") = "OK"
  BY DEF TagsStatusOf
<1> QED
  BY <1>3, <1>4, <1>5 DEF Commands, Notify, Upcall, NoUpcall, Progress, CbCoreReset,
     CbCoreInit, CbRfDiscoverMap, CbRfDiscover, CbRfDeactivate

\* An activation of a tag, when one is waited for and no interface is in use,
\* brings the interface for it, if there is one, and the client hears of it.
LEMMA ActivationRead ==
  ASSUME NEW rf \in Tags, ReceiveEvent(ActivatedPacket(rf)),
         nciState = "RFST_DISCOVERY", tagIntf = "NULL"
  PROVE  /\ tagsState' = "DISCOVER_ACTIVATED"
         /\ api' = ApiCall("cbDiscoverNtf", "OK", "DISCOVER_ACTIVATED")
         /\ rfIntf' = SetRfTechSpecParams(rfIntf, ActivatedPacket(rf))
         /\ tagIntf' = IF TagKind(rfIntf') = "KEEP" THEN "NULL" ELSE TagKind(rfIntf')
         /\ rfPtr' = [i \in TagIntfs |-> IF i = TagKind(rfIntf') THEN "rfIntf" ELSE rfPtr[i]]
         /\ UNCHANGED <<tagsId, t2Vars>>
<1> DEFINE p == ActivatedPacket(rf)
<1>1. /\ p.frag = FALSE /\ p.len = "GOOD" /\ p.mt = "NTF"
      /\ p.gid = "RF_MANAGE" /\ p.oid = "RF_INTF_ACTIVATED"
  BY ActivationSeen
<1>2. NciHandleEvent(p) /\ OnNciCallback(p)
  BY DEF ReceiveEvent
<1> HIDE DEF p
<1>3. NtfRfIntfActivated(p)
  BY <1>1, <1>2 DEF NciHandleEvent, HandleRfEvent
<1>4. /\ nciCb'.fn = "cbRfDiscoverNtf" /\ nciCb'.status = "OK" /\ nciCb'.data = "rfIntf"
      /\ rfIntf' = SetRfTechSpecParams(rfIntf, p)
  BY <1>1, <1>3 DEF NtfRfIntfActivated, Checked, Advance, Callback, Call
<1>5. CbRfDiscoverNtf
  BY <1>2, <1>4 DEF OnNciCallback, CbCoreReset, CbCoreInit,
     CbRfDiscoverMap, CbRfDiscover, CbRfDeactivate,
     CbRfDeactivateNtf, CbData, NoCallback, CalledBack
<1>6. TagsStatusOf("OK") = "OK"
  BY DEF TagsStatusOf
<1>7. KindsAt("rfIntf") = {TagKind(rfIntf')}
  BY DEF KindsAt
<1>8. /\ tagIntf' = IF TagKind(rfIntf') = "KEEP" THEN tagIntf ELSE TagKind(rfIntf')
      /\ rfPtr' = [i \in TagIntfs |-> IF i = TagKind(rfIntf') THEN "rfIntf" ELSE rfPtr[i]]
  BY <1>4, <1>5, <1>7 DEF CbRfDiscoverNtf, IdentifyTag
<1> QED
  BY <1>4, <1>5, <1>6, <1>8 DEF CbRfDiscoverNtf, Progress, Upcall, p

\* The end of an activation, when one is waited for, starts the wait for the
\* next tag.
LEMMA DeactivationRead ==
  ASSUME ReceiveEvent(Deactivated), nciState = "RFST_DISCOVERY"
  PROVE  /\ tagsState' = "DISCOVER_NTF" /\ tagsId' = "DISCOVER"
         /\ api' = ApiCall("cbDeactivate", "OK", "DEACTIVATE")
         /\ UNCHANGED <<rfIntf, tagIntf, rfPtr, t2Vars>>
<1> DEFINE p == Deactivated
<1>1. /\ p.frag = FALSE /\ p.len = "GOOD" /\ p.mt = "NTF"
      /\ p.gid = "RF_MANAGE" /\ p.oid = "RF_DEACTIVATE"
  BY DEF Deactivated, Packet
<1>2. NciHandleEvent(p) /\ OnNciCallback(p)
  BY DEF ReceiveEvent
<1> HIDE DEF p
<1>3. NtfRfDeactivate(p)
  BY <1>1, <1>2 DEF NciHandleEvent, HandleRfEvent
<1>4. nciCb'.fn = "cbRfDeactivateNtf" /\ nciCb'.status = "OK" /\ UNCHANGED rfIntf
  BY <1>1, <1>3 DEF NtfRfDeactivate, Checked, Advance, Callback, Call
<1>5. CbRfDeactivateNtf
  BY <1>2, <1>4 DEF OnNciCallback, CbCoreReset, CbCoreInit,
     CbRfDiscoverMap, CbRfDiscover, CbRfDiscoverNtf, CbRfDeactivate,
     CbData, NoCallback, CalledBack
<1>6. TagsStatusOf("OK") = "OK"
  BY DEF TagsStatusOf
<1> QED
  BY <1>4, <1>5, <1>6 DEF CbRfDeactivateNtf, Progress, Upcall

\* Credits and the error of an interface move nothing, and nobody hears of them.
LEMMA NoticeRead ==
  ASSUME NEW p \in {Credits, InterfaceError}, ReceiveEvent(p)
  PROVE  Still /\ api' = NoApi
<1>1. p.frag = FALSE /\ p.len = "GOOD" /\ p.mt = "NTF" /\ p.gid = "CORE"
      /\ p.oid \in {"CONN_CREDITS", "OTHER"}
  BY DEF Credits, InterfaceError, Packet
<1>2. Ignore \/ Error("UNKNOWN_OID")
  BY <1>1 DEF ReceiveEvent, NciHandleEvent, HandleCoreEvent
<1>3. nciCb'.fn \in {"none", "cbError"} /\ UNCHANGED <<nciState, rfIntf>>
  BY <1>2 DEF Ignore, Error, NoCall, Call
<1>4. NoCallback
  BY <1>3 DEF ReceiveEvent, OnNciCallback, CbCoreReset, CbCoreInit,
     CbRfDiscoverMap, CbRfDiscover, CbRfDiscoverNtf, CbRfDeactivate,
     CbRfDeactivateNtf, CbData, CalledBack
<1> QED
  BY <1>3, <1>4 DEF NoCallback, NoUpcall, Still

\* An answer to a READ, during a dump, moves the dump on or ends it, and the
\* client gets it.
LEMMA DataRead ==
  ASSUME NEW valid \in BOOLEAN, NEW block, ReceiveEvent(DataPacket(valid, block)),
         tagIntf = "T2", t2Id = "DUMP"
  PROVE  /\ T2HandleDataDump(DataPacket(valid, block))
         /\ api' = DumpCall(DataPacket(valid, block))
         /\ UNCHANGED <<nciState, rfIntf, tagsVars>>
<1> DEFINE p == DataPacket(valid, block)
<1>1. p.frag = FALSE /\ p.len = "GOOD" /\ p.mt = "DATA"
  BY DEF DataPacket, Packet
<1>2. NciHandleEvent(p) /\ OnNciCallback(p)
  BY DEF ReceiveEvent
<1> HIDE DEF p
<1>3. nciCb'.fn = "cbData" /\ UNCHANGED <<nciState, rfIntf>>
  BY <1>1, <1>2 DEF NciHandleEvent, HandleDataEvent, Callback, Call
<1>4. CbData(p)
  BY <1>2, <1>3 DEF OnNciCallback, CbCoreReset, CbCoreInit,
     CbRfDiscoverMap, CbRfDiscover, CbRfDiscoverNtf, CbRfDeactivate,
     CbRfDeactivateNtf, NoCallback, CalledBack
<1> QED
  BY <1>3, <1>4 DEF CbData, p

-----------------------------------------------------------------------------
\* What the sketch makes of what it hears.

SketchCallbacks ==
  \/ sketch = "TagDump" /\ DumpCallbacks
  \/ sketch = "TagDetect" /\ DetectCallbacks

\* A silent step leaves the sketch alone, a failure stops it, and each success
\* takes it on.
LEMMA Heard ==
  ASSUME SketchCallbacks
  PROVE  /\ api' = NoApi => UNCHANGED <<app, shown, dumped>>
         /\ Fails => app' = "ERROR"
         /\ api' = ApiCall("cbReset", "OK", "RESET") => app' = "DISCOVER"
         /\ api' = ApiCall("cbDiscover", "OK", "DISCOVER") => app' = "DISCOVERING"
         /\ api' = ApiCall("cbDeactivate", "OK", "DEACTIVATE") => app' = "DISCOVERING"
         /\ api' = ApiCall("cbDiscoverNtf", "OK", "DISCOVER_ACTIVATED") =>
              app' = IF sketch = "TagDump" /\ tagIntf' = "T2" THEN "DUMP" ELSE "DEACTIVATE"
         /\ \A p : sketch = "TagDump" /\ api' = DumpCall(p) =>
              app' = IF T2More(p) THEN "DUMP_RESPONSE" ELSE "DEACTIVATE"
<1> USE DEF SketchCallbacks, DumpCallbacks, DetectCallbacks, AppAfter, Expect
<1>1. ASSUME api' = NoApi PROVE UNCHANGED <<app, shown, dumped>>
  <2>1. api'.fn = "none" /\ api'.dump = FALSE
    BY <1>1 DEF NoApi, ApiCall
  <2>2. UNCHANGED <<app, dumped>>
    BY <2>1
  <2>3. shown' \in {shown}
    BY <2>1 DEF ShowTag, Detected
  <2> QED
    BY <2>2, <2>3
<1>2. ASSUME Fails PROVE app' = "ERROR"
  BY <1>2 DEF Fails, ApiCall
<1>3. api' = ApiCall("cbReset", "OK", "RESET") => app' = "DISCOVER"
  BY DEF ApiCall
<1>4. api' = ApiCall("cbDiscover", "OK", "DISCOVER") => app' = "DISCOVERING"
  BY DEF ApiCall
<1>5. api' = ApiCall("cbDeactivate", "OK", "DEACTIVATE") => app' = "DISCOVERING"
  BY DEF ApiCall
<1>6. api' = ApiCall("cbDiscoverNtf", "OK", "DISCOVER_ACTIVATED") =>
        app' = IF sketch = "TagDump" /\ tagIntf' = "T2" THEN "DUMP" ELSE "DEACTIVATE"
  BY DEF ApiCall, DumpCbDiscoverNtf, DetectCbDiscoverNtf
<1>7. ASSUME NEW p, sketch = "TagDump", api' = DumpCall(p)
      PROVE  app' = IF T2More(p) THEN "DUMP_RESPONSE" ELSE "DEACTIVATE"
  BY <1>7 DEF DumpCall, DumpCbDump
<1> QED
  BY <1>1, <1>2, <1>3, <1>4, <1>5, <1>6, <1>7

-----------------------------------------------------------------------------
\* The inductive invariant: the conversation, with what is proved of the system
\* for any client.  Late credits are excluded for the rest of this module's
\* first half, and restarts are until the last lemma of it.
Talking == SysInv /\ LayersAgree /\ Talk /\ Kept

\* Before the sketch's turn a command is lost or has yet to be written.
LEMMA AsksQuiet ==
  ASSUME NEW cmd, NEW from, Asks(cmd, from), pc # "nci"
  PROVE  nfcc = from /\ LinesIdle
BY DEF Asks

\* Where the sketch issues a command, NfcTags is where it takes it, and no
\* packet is on its way.
LEMMA WhereIssued ==
  ASSUME Talking, pc = "app"
  PROVE  /\ app = "RESET" => tagsState = "NONE" /\ nfcc = "ON" /\ LinesIdle
         /\ app = "DISCOVER" => tagsState = "INIT_DONE" /\ nfcc = "IDLE" /\ LinesIdle
         /\ app = "DUMP" => /\ tagsState = "DISCOVER_ACTIVATED" /\ nfcc = "ACTIVE" /\ LinesIdle
                            /\ sketch = "TagDump" /\ tagIntf = "T2"
         /\ app = "DEACTIVATE" => /\ tagsState \in {"DISCOVER_ACTIVATED", "DUMP"}
                                  /\ nfcc = "ACTIVE" /\ LinesIdle
                                  /\ tagsState = "DUMP" => t2State = "NONE"
<1>1. tagsState \in TagsStates /\ t2State \in {"NONE", "DUMP", "DUMP_RSP"}
  BY DEF Talking, SysInv, SysTypeOK, TypeOK, T2TypeOK
<1> QED
  BY <1>1 DEF TagsStates, Talking, Talk, Waits, HasTag, Dumps

\* The sketch waits, or issues a command NfcTags accepts.
LEMMA AppTurnTalks ==
  ASSUME Talking, DumpTurn \/ DetectTurn, UNCHANGED sketch
  PROVE  Talk' /\ Kept'
<1>1. /\ pc = "app" /\ pc' = "tags"
      /\ UNCHANGED <<nfcc, active, toNfcc, toHost>>
  BY DEF DumpTurn, DetectTurn, AppTurn, nfccVars
<1>2. CASE AppWaits
  <2>1. app \notin {"RESET", "DISCOVER", "DUMP", "DEACTIVATE"}
    BY <1>2 DEF AppWaits
  <2>2. UNCHANGED <<nciVars, t2Vars, tagsVars, api, app>>
    BY <1>2 DEF AppWaits, vars
  <2>3. \A cmd, from : Asks(cmd, from) => Asks(cmd, from)'
    BY <1>1 DEF Asks, LinesIdle
  <2>4. \A cmd, to : ~Grants(cmd, to)
    BY <1>1 DEF Grants
  <2>5. \A packets : Searches(packets) => Searches(packets)'
    BY <1>1 DEF Searches
  <2>6. tagsState = "DUMP" => Dumps'
    <3>1. LinesIdle => LinesIdle'
      BY <1>1 DEF LinesIdle
    <3>2. Reads(t2Block) => Reads(t2Block)'
      BY <1>1, <2>2 DEF Reads, LinesIdle, Answers, t2Vars
    <3>3. SUFFICES ASSUME tagsState = "DUMP" PROVE Dumps'
      OBVIOUS
    <3>4. Dumps
      BY <3>3 DEF Talking, Talk
    <3> QED
      BY <1>1, <2>1, <2>2, <3>1, <3>2, <3>4 DEF Dumps, t2Vars, tagsVars
  <2>7. Talk'
    <3>1. UNCHANGED <<tagsState, app>>
      BY <2>2 DEF tagsVars
    <3> QED
      BY <1>1, <2>1, <2>3, <2>4, <2>5, <2>6, <3>1 DEF Talking, Talk, Waits, HasTag
  <2> QED
    BY <1>1, <2>2, <2>7 DEF Talking, Kept, tagsVars, nciVars, t2Vars
<1>3. LinesIdle => LinesIdle'
  BY <1>1 DEF LinesIdle
<1>4. nciState \in NciStates /\ tagsState \in TagsStates
  BY DEF Talking, SysInv, SysTypeOK, TypeOK, NciTypeOK
<1>5. CASE Issue("RESET", CmdReset, "RESET_RESPONSE")
  <2>1. tagsState = "NONE" /\ nfcc = "ON" /\ LinesIdle
    BY <1>1, <1>5, WhereIssued DEF Issue
  <2>2. nciState = "NONE"
    BY <1>4, <2>1 DEF Talking, LayersAgree, StatesFor, NciStates
  <2>3. /\ tagsState' = "INIT_RESET" /\ tagsId' = "RESET" /\ tagIntf' = "NULL"
        /\ UNCHANGED <<nciState, t2State>> /\ app' = "RESET_RESPONSE"
    BY <1>5 DEF Issue, CmdReset, Quiet, Return, ApiCall, t2Vars
  <2>4. Asks("CORE_RESET", "ON")'
    BY <1>1, <1>3, <2>1 DEF Asks
  <2>5. Talk'
    BY <2>3, <2>4 DEF Talk, Waits
  <2> QED
    BY <1>1, <2>1, <2>2, <2>3, <2>5 DEF Talking, Kept, IdFor
<1>6. CASE Issue("DISCOVER", CmdDiscover, "DISCOVER_RESPONSE")
  <2>1. tagsState = "INIT_DONE" /\ nfcc = "IDLE" /\ LinesIdle
    BY <1>1, <1>6, WhereIssued DEF Issue
  <2>2. /\ tagsState' = "DISCOVER_MAP" /\ tagsId' = "DISCOVER"
        /\ UNCHANGED <<tagIntf, t2State>> /\ app' = "DISCOVER_RESPONSE"
    BY <1>6, <2>1 DEF Issue, CmdDiscover, Quiet, Return, ApiCall, t2Vars
  <2>3. Asks("RF_DISCOVER_MAP", "IDLE")'
    BY <1>1, <1>3, <2>1 DEF Asks
  <2>4. Talk'
    BY <2>2, <2>3 DEF Talk, Waits
  <2> QED
    BY <1>1, <2>1, <2>2, <2>4 DEF Talking, Kept, IdFor
<1>7. CASE Issue("DUMP", CmdDump, "DUMP_RESPONSE") /\ DumpTurn
  <2>1. /\ tagsState = "DISCOVER_ACTIVATED" /\ nfcc = "ACTIVE" /\ LinesIdle
        /\ sketch = "TagDump" /\ tagIntf = "T2"
    BY <1>1, <1>7, WhereIssued DEF Issue
  <2>2. t2State = "NONE"
    BY <2>1 DEF Talking, Kept
  <2>3. /\ tagsState' = "DUMP" /\ tagsId' = "DUMP" /\ t2State' = "DUMP" /\ t2Id' = "DUMP"
        /\ UNCHANGED tagIntf /\ app' = "DUMP_RESPONSE"
    BY <1>7, <2>1, <2>2 DEF Issue, CmdDump, IntfCmdDump, T2CmdDump, Return, ApiCall
  <2>4. Dumps'
    BY <1>1, <1>3, <2>1, <2>3 DEF Dumps
  <2>5. Talk'
    BY <2>3, <2>4 DEF Talk
  <2> QED
    BY <1>1, <2>1, <2>3, <2>5 DEF Talking, Kept, IdFor
<1>8. CASE Issue("DEACTIVATE", CmdDeactivate, "DEACTIVATE_RESPONSE")
  <2>1. /\ tagsState \in {"DISCOVER_ACTIVATED", "DUMP"} /\ nfcc = "ACTIVE" /\ LinesIdle
        /\ tagsState = "DUMP" => t2State = "NONE"
    BY <1>1, <1>8, WhereIssued DEF Issue
  <2>2. t2State = "NONE"
    BY <2>1 DEF Talking, Kept
  <2>3. /\ tagsState' = "DEACTIVATE" /\ tagsId' = "DEACTIVATE" /\ tagIntf' = "NULL"
        /\ UNCHANGED t2State /\ app' = "DEACTIVATE_RESPONSE"
    BY <1>8, <2>1 DEF Issue, CmdDeactivate, Quiet, Return, ApiCall, t2Vars
  <2>4. Asks("RF_DEACTIVATE", "ACTIVE")'
    BY <1>1, <1>3, <2>1 DEF Asks
  <2>5. Talk'
    BY <2>3, <2>4 DEF Talk, Waits
  <2> QED
    BY <1>1, <2>1, <2>2, <2>3, <2>5 DEF Talking, Kept, IdFor
<1> QED
  BY <1>2, <1>5, <1>6, <1>7, <1>8 DEF DumpTurn, DetectTurn, AppTurn

\* A command is written, lost on the line, or not written and the sketch told.
LEMMA CommandWritten ==
  ASSUME NEW cmd \in Commands, NEW fn \in {"cbReset", "cbDiscover", "cbDeactivate"},
         NEW id \in TagsIds, NEW status, HwWrite(Cmd(cmd), status), Notify(fn, id, status),
         SketchCallbacks, toNfcc = <<>>, toNfcc' \in OnTheLine(tx')
  PROVE  /\ toNfcc' \in {<<>>, <<Cmd(cmd)>>}
         /\ app' = app \/ (app' = "ERROR" /\ MayFail)
<1>1. status \in WriteResults /\ status \in {"OK", "FAILED"}
  BY WriteAssumption DEF HwWrite
<1>2. CASE status = "OK"
  <2>1. api' = NoApi
    BY <1>2 DEF Notify, NoUpcall
  <2>2. Append(toNfcc, Cmd(cmd)) = <<Cmd(cmd)>>
    BY ShortLines
  <2>3. toNfcc' \in {<<>>, <<Cmd(cmd)>>}
    BY <1>2, <2>2 DEF HwWrite, OnTheLine
  <2> QED
    BY <2>1, <2>3, Heard
<1>3. CASE status = "FAILED"
  <2>1. Fails
    BY <1>3 DEF Notify, Upcall, TagsStatusOf, Fails
  <2>2. toNfcc' = <<>>
    BY <1>3 DEF HwWrite, OnTheLine
  <2> QED
    BY <1>1, <1>3, <2>1, <2>2, Heard DEF MayFail
<1> QED
  BY <1>1, <1>2, <1>3

\* NfcTags writes the command of its state, or has none to write.
LEMMA TagsTurnTalks ==
  ASSUME Talking, TagsTurn, SketchCallbacks, UNCHANGED sketch
  PROVE  Talk' /\ Kept'
<1>1. /\ pc = "tags" /\ pc' = "nci"
      /\ UNCHANGED <<nfcc, active, field, toHost>>
      /\ toNfcc' \in OnTheLine(tx') /\ TagsHandleEvent
  BY DEF TagsTurn
<1>2. UNCHANGED <<nciState, tagsVars>>
  BY <1>1 DEF TagsHandleEvent, HandleReset, HandleDiscover, HandleDeactivate, HandleDump,
     HandleUnknown
<1>3. nciState \in NciStates /\ tagsState \in TagsStates
  BY DEF Talking, SysInv, SysTypeOK, TypeOK, NciTypeOK
<1>4. tagsId = IdFor(tagsState)
  BY DEF Talking, Kept
<1>5. \A cmd, to : ~Grants(cmd, to)
  BY <1>1 DEF Grants
<1>6. ASSUME NEW cmd \in Commands, NEW from, NEW fn \in {"cbReset", "cbDiscover", "cbDeactivate"},
             NEW id \in TagsIds, NEW status, HwWrite(Cmd(cmd), status), Notify(fn, id, status),
             Asks(cmd, from)
      PROVE  Asks(cmd, from)' /\ (app' = app \/ (app' = "ERROR" /\ MayFail))
  <2>1. nfcc = from /\ LinesIdle
    BY <1>1, <1>6, AsksQuiet
  <2>2. /\ toNfcc' \in {<<>>, <<Cmd(cmd)>>}
        /\ app' = app \/ (app' = "ERROR" /\ MayFail)
    BY <1>1, <1>6, <2>1, CommandWritten DEF LinesIdle
  <2> QED
    BY <1>1, <2>1, <2>2 DEF Asks, LinesIdle
<1>7. UNCHANGED <<t2State, t2Id>> \/ tagsState = "DUMP"
  BY <1>1, <1>4 DEF TagsHandleEvent, HandleReset, HandleDiscover, HandleDeactivate,
     HandleDump, HandleUnknown, IdFor, t2Vars
<1>8. tagsState # "DUMP" /\ Talk' => Talk' /\ Kept'
  BY <1>1, <1>2, <1>7 DEF Talking, Kept, tagsVars
<1>9. CASE tagsState = "INIT_RESET"
  <2>1. nciState = "NONE" /\ Waits("RESET_RESPONSE") /\ Asks("CORE_RESET", "ON")
    BY <1>5, <1>9 DEF Talking, Talk, Kept
  <2>2. PICK status : HwWrite(Cmd("CORE_RESET"), status) /\ Notify("cbReset", "RESET", status)
    BY <1>1, <1>4, <1>9, <2>1 DEF TagsHandleEvent, HandleReset, HandleDiscover,
       HandleDeactivate, HandleDump, HandleUnknown, CmdCoreReset, IdFor
  <2>3. Asks("CORE_RESET", "ON")' /\ Waits("RESET_RESPONSE")'
    BY <1>6, <2>1, <2>2 DEF Commands, TagsIds, Waits
  <2>4. Talk'
    BY <1>2, <1>9, <2>3 DEF Talk, tagsVars
  <2> QED
    BY <1>8, <1>9, <2>4
<1>10. CASE tagsState = "INIT_INIT"
  <2>1. nciState = "RFST_RESET"
    BY <1>3, <1>10 DEF Talking, LayersAgree, StatesFor, NciStates
  <2>2. Waits("RESET_RESPONSE") /\ Asks("CORE_INIT", "RESET")
    BY <1>5, <1>10 DEF Talking, Talk
  <2>3. PICK status : HwWrite(Cmd("CORE_INIT"), status) /\ Notify("cbReset", "RESET", status)
    BY <1>1, <1>4, <1>10, <2>1 DEF TagsHandleEvent, HandleReset, HandleDiscover,
       HandleDeactivate, HandleDump, HandleUnknown, CmdCoreInit, IdFor
  <2>4. Asks("CORE_INIT", "RESET")' /\ Waits("RESET_RESPONSE")'
    BY <1>6, <2>2, <2>3 DEF Commands, TagsIds, Waits
  <2>5. Talk'
    BY <1>2, <1>10, <2>4 DEF Talk, tagsVars
  <2> QED
    BY <1>8, <1>10, <2>5
<1>11. CASE tagsState = "DISCOVER_MAP"
  <2>1. nciState = "RFST_IDLE"
    BY <1>3, <1>11 DEF Talking, LayersAgree, StatesFor, NciStates
  <2>2. Waits("DISCOVER_RESPONSE") /\ Asks("RF_DISCOVER_MAP", "IDLE")
    BY <1>5, <1>11 DEF Talking, Talk
  <2>3. PICK status : /\ HwWrite(Cmd("RF_DISCOVER_MAP"), status)
                      /\ Notify("cbDiscover", "DISCOVER", status)
    BY <1>1, <1>4, <1>11, <2>1 DEF TagsHandleEvent, HandleReset, HandleDiscover,
       HandleDeactivate, HandleDump, HandleUnknown, CmdRfDiscoverMap, IdFor
  <2>4. Asks("RF_DISCOVER_MAP", "IDLE")' /\ Waits("DISCOVER_RESPONSE")'
    BY <1>6, <2>2, <2>3 DEF Commands, TagsIds, Waits
  <2>5. Talk'
    BY <1>2, <1>11, <2>4 DEF Talk, tagsVars
  <2> QED
    BY <1>8, <1>11, <2>5
<1>12. CASE tagsState = "DISCOVER"
  <2>1. nciState = "RFST_IDLE"
    BY <1>3, <1>12 DEF Talking, LayersAgree, StatesFor, NciStates
  <2>2. Waits("DISCOVER_RESPONSE") /\ Asks("RF_DISCOVER", "IDLE")
    BY <1>1, <1>12 DEF Talking, Talk
  <2>3. PICK status : /\ HwWrite(Cmd("RF_DISCOVER"), status)
                      /\ Notify("cbDiscover", "DISCOVER", status)
    BY <1>1, <1>4, <1>12, <2>1 DEF TagsHandleEvent, HandleReset, HandleDiscover,
       HandleDeactivate, HandleDump, HandleUnknown, CmdRfDiscover, IdFor
  <2>4. Asks("RF_DISCOVER", "IDLE")' /\ Waits("DISCOVER_RESPONSE")'
    BY <1>6, <2>2, <2>3 DEF Commands, TagsIds, Waits
  <2>5. Talk'
    BY <1>2, <1>12, <2>4 DEF Talk, tagsVars
  <2> QED
    BY <1>8, <1>12, <2>5
<1>13. CASE tagsState = "DEACTIVATE"
  <2>1. nciState = "RFST_POLL_ACTIVE"
    BY <1>3, <1>13 DEF Talking, LayersAgree, StatesFor, NciStates
  <2>2. Waits("DEACTIVATE_RESPONSE") /\ Asks("RF_DEACTIVATE", "ACTIVE")
    BY <1>1, <1>13 DEF Talking, Talk
  <2>3. PICK status : /\ HwWrite(Cmd("RF_DEACTIVATE"), status)
                      /\ Notify("cbDeactivate", "DEACTIVATE", status)
    BY <1>1, <1>4, <1>13, <2>1 DEF TagsHandleEvent, HandleReset, HandleDiscover,
       HandleDeactivate, HandleDump, HandleUnknown, CmdRfDeactivate, IdFor
  <2>4. Asks("RF_DEACTIVATE", "ACTIVE")' /\ Waits("DEACTIVATE_RESPONSE")'
    BY <1>6, <2>2, <2>3 DEF Commands, TagsIds, Waits
  <2>5. Talk'
    BY <1>2, <1>13, <2>4 DEF Talk, tagsVars
  <2> QED
    BY <1>8, <1>13, <2>5
<1>14. CASE tagsState \in {"DISCOVER_NTF", "DEACTIVATE_RSP"}
  <2>1. api' = NoApi /\ tx' = NoCmd
    BY <1>1, <1>4, <1>14 DEF TagsHandleEvent, HandleReset, HandleDiscover,
       HandleDeactivate, HandleDump, HandleUnknown, Wait, Notify, NoUpcall, IdFor
  <2>2. UNCHANGED app /\ toNfcc' = toNfcc
    BY <1>1, <2>1, Heard DEF OnTheLine
  <2>3. \A packets : Searches(packets) => Searches(packets)'
    BY <1>1, <2>2 DEF Searches
  <2>4. Talk'
    BY <1>2, <1>14, <2>2, <2>3 DEF Talking, Talk, Waits, tagsVars
  <2> QED
    BY <1>8, <1>14, <2>4
<1>15. CASE tagsState = "DUMP"
  <2>1. Dumps /\ nciState = "RFST_POLL_ACTIVE"
    BY <1>3, <1>15 DEF Talking, Talk, LayersAgree, StatesFor, NciStates
  <2>2. t2State \in {"DUMP", "DUMP_RSP"}
    BY <1>1, <2>1 DEF Dumps, Talking, SysInv, SysTypeOK, TypeOK, T2TypeOK
  <2>3. PICK status \in TagsStatus : /\ T2HandleDump(status)
                     /\ IF status = "OK" THEN NoUpcall ELSE Upcall("cbDump", status, "DUMP")
    BY <1>1, <1>4, <1>15, <2>1 DEF TagsHandleEvent, HandleReset, HandleDiscover,
       HandleDeactivate, HandleDump, HandleUnknown, IdFor, Dumps
  <2>4. t2Block <= LastRead /\ UNCHANGED <<t2Id, t2Block>>
    BY <2>3 DEF Talking, SysInv, DumpInBounds, T2HandleDump
  <2>5. CASE t2State = "DUMP"
    <3>1. app = "DUMP_RESPONSE" /\ LinesIdle /\ t2State' = "DUMP_RSP"
      BY <2>1, <2>3, <2>4, <2>5 DEF Dumps, T2HandleDump
    <3>2. PICK sent \in NciStatus : DataSend(t2Block, sent) /\ status = IntfStatus(sent)
      BY <2>3, <2>4, <2>5 DEF T2HandleDump
    <3> DEFINE read == [cmd |-> "DATA", block |-> t2Block]
    <3>3. sent \in {"OK", "FAILED"} /\ sent \in WriteResults
          /\ tx' = IF sent = "OK" THEN read ELSE NoCmd
      BY <2>1, <3>2, WriteAssumption DEF DataSend, HwWrite
    <3>4. Append(<<>>, read) = <<read>>
      BY ShortLines
    <3> HIDE DEF read
    <3>5. toNfcc' \in {<<>>, <<read>>}
      BY <1>1, <3>1, <3>3, <3>4 DEF OnTheLine, LinesIdle
    <3>6. Reads(t2Block)'
      BY <1>1, <2>4, <3>1, <3>5 DEF Reads, LinesIdle, read
    <3>7. CASE sent = "OK"
      <4>1. app' = "DUMP_RESPONSE"
        BY <2>3, <3>1, <3>2, <3>7, Heard DEF IntfStatus, TagsStatus, NoUpcall
      <4>2. Dumps'
        BY <1>2, <2>1, <2>4, <3>1, <3>6, <4>1, <1>1 DEF Dumps, tagsVars
      <4> QED
        BY <1>1, <1>2, <1>15, <4>2 DEF Talk, tagsVars, Talking, Kept
    <3>8. CASE sent = "FAILED"
      <4>1. api' = ApiCall("cbDump", "FAILED", "DUMP")
        BY <2>3, <3>2, <3>8 DEF IntfStatus, TagsStatus, Upcall
      <4>2. app' = "ERROR"
        BY <2>1, <4>1 DEF Dumps, SketchCallbacks, DumpCallbacks, DumpCbDump, ApiCall
      <4>3. toNfcc' = <<>>
        BY <1>1, <3>1, <3>3, <3>8 DEF OnTheLine, LinesIdle
      <4>4. Dumps'
        BY <1>1, <1>2, <2>1, <2>4, <3>1, <3>3, <3>8, <4>2, <4>3
        DEF Dumps, tagsVars, LinesIdle, MayFail
      <4> QED
        BY <1>1, <1>2, <1>15, <4>4 DEF Talk, tagsVars, Talking, Kept
    <3> QED
      BY <3>3, <3>7, <3>8
  <2>6. CASE t2State = "DUMP_RSP"
    <3>1. api' = NoApi /\ tx' = NoCmd /\ UNCHANGED t2State
      BY <2>3, <2>6 DEF T2HandleDump, NoUpcall
    <3>2. UNCHANGED app /\ toNfcc' = toNfcc
      BY <1>1, <3>1, Heard DEF OnTheLine
    <3>3. Reads(t2Block) => Reads(t2Block)'
      BY <1>1, <2>4, <3>2 DEF Reads, LinesIdle, Answers
    <3>4. Dumps'
      BY <1>1, <1>2, <2>1, <2>4, <2>6, <3>1, <3>2, <3>3 DEF Dumps, LinesIdle, tagsVars
    <3> QED
      BY <1>1, <1>2, <1>15, <3>4 DEF Talk, tagsVars, Talking, Kept
  <2> QED
    BY <2>2, <2>5, <2>6
<1>16. tagsState \notin {"NONE", "INIT_DONE", "DISCOVER_ACTIVATED"}
  BY <1>1 DEF Talking, Talk, HasTag
<1> QED
  BY <1>3, <1>9, <1>10, <1>11, <1>12, <1>13, <1>14, <1>15, <1>16 DEF TagsStates, Talking, Talk

\* The answer to a command is read: the command has been refused, and the
\* sketch stops, or it has been accepted.
LEMMA CommandAnswered ==
  ASSUME NciTurn, SketchCallbacks, NEW cmd \in Commands \ {"DATA"}, NEW from, NEW to
  PROVE  /\ Asks(cmd, from) => Asks(cmd, from)' /\ Still /\ app' = "ERROR" /\ MayFail
         /\ Grants(cmd, to) => LinesIdle' /\ nfcc' = to /\ ReceiveEvent(Reply(cmd, "OK"))
<1>1. /\ pc' = "app" /\ toHost # <<>> /\ toHost' = Tail(toHost)
      /\ ReceiveEvent(Head(toHost)) /\ UNCHANGED <<nfcc, toNfcc>>
  BY DEF NciTurn, PacketRead
<1>2. ASSUME Asks(cmd, from)
      PROVE  Asks(cmd, from)' /\ Still /\ app' = "ERROR" /\ MayFail
  <2>1. /\ nfcc = from /\ toNfcc = <<>> /\ toHost = <<Reply(cmd, "FAILED")>>
        /\ "RSP_FAILED" \in Faults
    BY <1>1, <1>2 DEF Asks, LinesIdle
  <2>2. ReceiveEvent(Reply(cmd, "FAILED")) /\ toHost' = <<>>
    BY <1>1, <2>1, LineRead
  <2>3. Still /\ app' = "ERROR"
    BY <2>2, RefusalRead, Heard
  <2> QED
    BY <1>1, <2>1, <2>2, <2>3 DEF Asks, LinesIdle, MayFail
<1>3. ASSUME Grants(cmd, to)
      PROVE  LinesIdle' /\ nfcc' = to /\ ReceiveEvent(Reply(cmd, "OK"))
  <2>1. ReceiveEvent(Reply(cmd, "OK")) /\ toHost' = <<>>
    BY <1>1, <1>3, LineRead DEF Grants
  <2> QED
    BY <1>1, <1>3, <2>1 DEF Grants, LinesIdle
<1> QED
  BY <1>2, <1>3

\* After a packet that has been read, a search goes on.
LEMMA SearchRead ==
  ASSUME NciTurn, NEW p, NEW q, Searches(<<p>>) \/ Searches(<<p, q>>)
  PROVE  /\ ReceiveEvent(p)
         /\ Searches(<<p>>) => Searches(<<>>)'
         /\ Searches(<<p, q>>) => Searches(<<q>>)'
<1>1. /\ toHost' = Tail(toHost)
      /\ ReceiveEvent(Head(toHost)) /\ UNCHANGED <<nfcc, active, toNfcc>>
  BY DEF NciTurn, PacketRead
<1>2. \A a : /\ Append(<<>>, a) = <<a>>
             /\ Append(<<p>>, a) = <<p, a>> /\ Append(<<q>>, a) = <<q, a>>
             /\ Append(<<p, q>>, a) = <<p, q, a>>
  BY ShortLines
<1>3. \A a : /\ Head(<<p>>) = p /\ Tail(<<p>>) = <<>>
             /\ Head(<<p, a>>) = p /\ Tail(<<p, a>>) = <<a>>
             /\ Head(<<p, q, a>>) = p /\ Tail(<<p, q, a>>) = <<q, a>>
  BY LineRead
<1>4. ASSUME Searches(<<p>>)
      PROVE  Head(toHost) = p /\ Searches(<<>>)'
  <2>1. CASE nfcc = "DISCOVERY" /\ toHost = <<p>>
    BY <1>1, <1>3, <1>4, <2>1 DEF Searches
  <2>2. ASSUME nfcc = "ACTIVE", NEW rf \in active, toHost = <<p, ActivatedPacket(rf)>>
        PROVE  Head(toHost) = p /\ Searches(<<>>)'
    BY <1>1, <1>2, <1>3, <1>4, <2>2 DEF Searches
  <2> QED
    BY <1>2, <1>4, <2>1, <2>2 DEF Searches
<1>5. ASSUME Searches(<<p, q>>)
      PROVE  Head(toHost) = p /\ Searches(<<q>>)'
  <2>1. CASE nfcc = "DISCOVERY" /\ toHost = <<p, q>>
    BY <1>1, <1>3, <1>5, <2>1 DEF Searches
  <2>2. ASSUME nfcc = "ACTIVE", NEW rf \in active, toHost = <<p, q, ActivatedPacket(rf)>>
        PROVE  Head(toHost) = p /\ Searches(<<q>>)'
    BY <1>1, <1>2, <1>3, <1>5, <2>2 DEF Searches
  <2> QED
    BY <1>2, <1>5, <2>1, <2>2 DEF Searches
<1> QED
  BY <1>1, <1>4, <1>5

\* NfcNci reads the packet the conversation has come to.
LEMMA NciTurnTalks ==
  ASSUME Talking, NciTurn, SketchCallbacks, UNCHANGED sketch
  PROVE  Talk' /\ Kept'
<1>1. /\ pc = "nci" /\ pc' = "app" /\ toHost # <<>> /\ toHost' = Tail(toHost)
      /\ Head(toHost).len = "NONE" => Len(toHost) > 1
      /\ ReceiveEvent(Head(toHost)) /\ UNCHANGED <<nfcc, active, toNfcc>>
  BY DEF NciTurn, PacketRead
<1>2. nciState \in NciStates /\ tagsState \in TagsStates
  BY DEF Talking, SysInv, SysTypeOK, TypeOK, NciTypeOK
<1>3. tagsId = IdFor(tagsState) /\ (active # {} <=> nfcc = "ACTIVE")
  BY DEF Talking, Kept
<1>4. tagsState # "DUMP" => t2State = "NONE"
  BY DEF Talking, Kept
<1>5. tagsState \notin {"DISCOVER_ACTIVATED", "DUMP"} => tagIntf = "NULL"
  BY DEF Talking, Kept
<1>6. Still /\ Talk' => Talk' /\ Kept'
  BY <1>1 DEF Talking, Kept, Still, tagsVars, t2Vars
<1>7. CASE tagsState = "INIT_RESET"
  <2>1. /\ nciState = "NONE" /\ Waits("RESET_RESPONSE")
        /\ Asks("CORE_RESET", "ON") \/ Grants("CORE_RESET", "RESET")
    BY <1>7 DEF Talking, Talk, Kept
  <2>2. CASE Asks("CORE_RESET", "ON")' /\ Still /\ app' = "ERROR" /\ MayFail
    <3>1. Talk'
      BY <1>7, <2>2 DEF Talk, Waits, Still, tagsVars
    <3> QED
      BY <1>6, <2>2, <3>1
  <2>3. CASE LinesIdle' /\ nfcc' = "RESET" /\ ReceiveEvent(Reply("CORE_RESET", "OK"))
    <3>1. /\ tagsState' = "INIT_INIT" /\ api' = NoApi
          /\ UNCHANGED <<tagsId, tagIntf, t2State>>
      BY <2>1, <2>3, SuccessRead DEF Commands, t2Vars
    <3>2. UNCHANGED app
      BY <3>1, Heard
    <3>3. Asks("CORE_INIT", "RESET")'
      BY <2>3 DEF Asks
    <3>4. Talk'
      BY <2>1, <3>1, <3>2, <3>3 DEF Talk, Waits
    <3> QED
      BY <1>1, <1>3, <1>4, <1>5, <1>7, <3>1, <3>4 DEF Kept, IdFor
  <2> QED
    BY <2>1, <2>2, <2>3, CommandAnswered DEF Commands
<1>8. CASE tagsState = "INIT_INIT"
  <2>1. /\ nciState = "RFST_RESET" /\ Waits("RESET_RESPONSE")
        /\ Asks("CORE_INIT", "RESET") \/ Grants("CORE_INIT", "IDLE")
    BY <1>2, <1>8 DEF Talking, Talk, LayersAgree, StatesFor, NciStates
  <2>2. CASE Asks("CORE_INIT", "RESET")' /\ Still /\ app' = "ERROR" /\ MayFail
    <3>1. Talk'
      BY <1>8, <2>2 DEF Talk, Waits, Still, tagsVars
    <3> QED
      BY <1>6, <2>2, <3>1
  <2>3. CASE LinesIdle' /\ nfcc' = "IDLE" /\ ReceiveEvent(Reply("CORE_INIT", "OK"))
    <3>1. /\ tagsState' = "INIT_DONE" /\ api' = ApiCall("cbReset", "OK", "RESET")
          /\ UNCHANGED <<tagsId, tagIntf, t2State>>
      BY <2>1, <2>3, SuccessRead DEF Commands, t2Vars
    <3>2. app' = "DISCOVER"
      BY <3>1, Heard
    <3>3. Talk'
      BY <1>1, <2>3, <3>1, <3>2 DEF Talk
    <3> QED
      BY <1>1, <1>3, <1>4, <1>5, <1>8, <3>1, <3>3 DEF Kept, IdFor
  <2> QED
    BY <2>1, <2>2, <2>3, CommandAnswered DEF Commands
<1>9. CASE tagsState = "DISCOVER_MAP"
  <2>1. /\ nciState = "RFST_IDLE" /\ Waits("DISCOVER_RESPONSE")
        /\ Asks("RF_DISCOVER_MAP", "IDLE") \/ Grants("RF_DISCOVER_MAP", "IDLE")
    BY <1>2, <1>9 DEF Talking, Talk, LayersAgree, StatesFor, NciStates
  <2>2. CASE Asks("RF_DISCOVER_MAP", "IDLE")' /\ Still /\ app' = "ERROR" /\ MayFail
    <3>1. Talk'
      BY <1>9, <2>2 DEF Talk, Waits, Still, tagsVars
    <3> QED
      BY <1>6, <2>2, <3>1
  <2>3. CASE LinesIdle' /\ nfcc' = "IDLE" /\ ReceiveEvent(Reply("RF_DISCOVER_MAP", "OK"))
    <3>1. /\ tagsState' = "DISCOVER" /\ api' = NoApi
          /\ UNCHANGED <<tagsId, tagIntf, t2State>>
      BY <2>1, <2>3, SuccessRead DEF Commands, t2Vars
    <3>2. UNCHANGED app
      BY <3>1, Heard
    <3>3. Asks("RF_DISCOVER", "IDLE")'
      BY <2>3 DEF Asks
    <3>4. Talk'
      BY <2>1, <3>1, <3>2, <3>3 DEF Talk, Waits
    <3> QED
      BY <1>1, <1>3, <1>4, <1>5, <1>9, <3>1, <3>4 DEF Kept, IdFor
  <2> QED
    BY <2>1, <2>2, <2>3, CommandAnswered DEF Commands
<1>10. CASE tagsState = "DISCOVER" /\ Asks("RF_DISCOVER", "IDLE")
  <2>1. Asks("RF_DISCOVER", "IDLE")' /\ Still /\ app' = "ERROR" /\ MayFail
    BY <1>10, CommandAnswered DEF Commands
  <2>2. Talk'
    BY <1>10, <2>1 DEF Talk, Waits, Still, tagsVars
  <2> QED
    BY <1>6, <2>1, <2>2
<1>11. CASE tagsState = "DISCOVER" /\ Searches(<<Reply("RF_DISCOVER", "OK")>>)
  <2>1. nciState = "RFST_IDLE"
    BY <1>2, <1>11 DEF Talking, LayersAgree, StatesFor, NciStates
  <2>2. ReceiveEvent(Reply("RF_DISCOVER", "OK")) /\ Searches(<<>>)'
    BY <1>11, SearchRead
  <2>3. /\ tagsState' = "DISCOVER_NTF" /\ api' = ApiCall("cbDiscover", "OK", "DISCOVER")
        /\ UNCHANGED <<tagsId, tagIntf, t2State>>
    BY <2>1, <2>2, SuccessRead DEF Commands, t2Vars
  <2>4. app' = "DISCOVERING"
    BY <2>3, Heard
  <2>5. Talk'
    BY <2>2, <2>3, <2>4 DEF Talk
  <2> QED
    BY <1>1, <1>3, <1>4, <1>5, <1>11, <2>3, <2>5 DEF Kept, IdFor
<1>12. CASE tagsState = "DISCOVER_NTF"
  <2>1. nciState = "RFST_DISCOVERY" /\ Searches(<<>>)
    BY <1>2, <1>12 DEF Talking, Talk, LayersAgree, StatesFor, NciStates
  <2>2. PICK rf \in active : toHost = <<ActivatedPacket(rf)>> /\ nfcc = "ACTIVE" /\ toNfcc = <<>>
    BY <1>1, <2>1, ShortLines DEF Searches
  <2>3. rf \in Tags
    BY DEF Talking, SysInv, SysTypeOK, NfccTypeOK, AtMostOne
  <2>4. ReceiveEvent(ActivatedPacket(rf)) /\ toHost' = <<>>
    BY <1>1, <2>2, LineRead
  <2>5. /\ tagsState' = "DISCOVER_ACTIVATED"
        /\ api' = ApiCall("cbDiscoverNtf", "OK", "DISCOVER_ACTIVATED")
        /\ UNCHANGED <<tagsId, t2State>>
    BY <1>5, <1>12, <2>1, <2>3, <2>4, ActivationRead DEF t2Vars
  <2>6. app' = IF sketch = "TagDump" /\ tagIntf' = "T2" THEN "DUMP" ELSE "DEACTIVATE"
    BY <2>5, Heard
  <2>7. HasTag'
    BY <1>1, <2>2, <2>4, <2>6 DEF HasTag, LinesIdle
  <2>8. Talk'
    BY <2>5, <2>7 DEF Talk
  <2> QED
    BY <1>1, <1>3, <1>4, <1>12, <2>5, <2>8 DEF Kept, IdFor
<1>13. CASE tagsState = "DUMP"
  <2>1. Dumps
    BY <1>13 DEF Talking, Talk
  <2>2. /\ t2State = "DUMP_RSP" /\ app = "DUMP_RESPONSE" /\ Reads(t2Block) /\ toNfcc = <<>>
        /\ nfcc = "ACTIVE" /\ tagIntf = "T2" /\ t2Id = "DUMP" /\ sketch = "TagDump"
    BY <1>1, <2>1 DEF Dumps, LinesIdle, Reads, Talking, SysInv, SysTypeOK, TypeOK, T2TypeOK
  <2>3. PICK answer \in Answers(t2Block) : toHost \in {<<Credits, answer>>, <<answer>>}
    BY <1>1, <2>2 DEF Reads, LinesIdle
  <2>4. CASE toHost = <<Credits, answer>>
    <3>1. ReceiveEvent(Credits) /\ toHost' = <<answer>>
      BY <1>1, <2>4, LineRead
    <3>2. Still /\ UNCHANGED app
      BY <3>1, NoticeRead, Heard
    <3>3. Reads(t2Block)'
      BY <1>1, <2>2, <3>1, <3>2 DEF Reads, Answers, Still, t2Vars
    <3>4. Dumps'
      BY <1>1, <2>2, <3>2, <3>3 DEF Dumps, Still, t2Vars, tagsVars
    <3>5. Talk'
      BY <1>13, <3>2, <3>4 DEF Talk, Still, tagsVars
    <3> QED
      BY <1>6, <3>2, <3>5
  <2>5. CASE toHost = <<answer>> /\ answer = InterfaceError
    <3>1. ReceiveEvent(InterfaceError) /\ toHost' = <<>>
      BY <1>1, <2>5, LineRead
    <3>2. Still /\ UNCHANGED app
      BY <3>1, NoticeRead, Heard
    <3>3. Dumps'
      BY <1>1, <2>2, <3>1, <3>2 DEF Dumps, Reads, LinesIdle, Still, t2Vars, tagsVars
    <3>4. Talk'
      BY <1>13, <3>2, <3>3 DEF Talk, Still, tagsVars
    <3> QED
      BY <1>6, <3>2, <3>4
  <2>6. ASSUME NEW valid \in BOOLEAN, toHost = <<DataPacket(valid, t2Block)>>
        PROVE  Talk' /\ Kept'
    <3> DEFINE p == DataPacket(valid, t2Block)
    <3>1. ReceiveEvent(p) /\ toHost' = <<>>
      BY <1>1, <2>6, LineRead
    <3>2. /\ T2HandleDataDump(p) /\ api' = DumpCall(p)
          /\ UNCHANGED <<nciState, rfIntf, tagsVars>>
      BY <2>2, <3>1, DataRead
    <3> HIDE DEF p
    <3>3. app' = IF T2More(p) THEN "DUMP_RESPONSE" ELSE "DEACTIVATE"
      BY <2>2, <3>2, Heard
    <3>4. t2State' = (IF T2More(p) THEN "DUMP" ELSE "NONE") /\ UNCHANGED t2Id
      BY <3>2 DEF T2HandleDataDump
    <3>5. Dumps'
      BY <1>1, <2>2, <3>1, <3>2, <3>3, <3>4 DEF Dumps, LinesIdle, tagsVars
    <3>6. Talk'
      BY <1>13, <3>2, <3>5 DEF Talk, tagsVars
    <3> QED
      BY <1>1, <1>3, <1>13, <3>2, <3>6 DEF Talking, Kept, tagsVars
  <2>7. ~(toHost = <<answer>> /\ answer = EmptyAnswer)
    <3>1. EmptyAnswer.len = "NONE"
      BY DEF EmptyAnswer, DataPacket, Packet
    <3> QED
      BY <1>1, <3>1, LineRead
  <2> QED
    BY <2>3, <2>4, <2>5, <2>6, <2>7 DEF Answers
<1>14. CASE tagsState = "DEACTIVATE" /\ Asks("RF_DEACTIVATE", "ACTIVE")
  <2>1. Asks("RF_DEACTIVATE", "ACTIVE")' /\ Still /\ app' = "ERROR" /\ MayFail
    BY <1>14, CommandAnswered DEF Commands
  <2>2. Talk'
    BY <1>14, <2>1 DEF Talk, Waits, Still, tagsVars
  <2> QED
    BY <1>6, <2>1, <2>2
<1>15. CASE /\ tagsState = "DEACTIVATE"
            /\ Searches(<<Reply("RF_DEACTIVATE", "OK"), Deactivated>>)
  <2>1. nciState = "RFST_POLL_ACTIVE" /\ Waits("DEACTIVATE_RESPONSE")
    BY <1>2, <1>15 DEF Talking, Talk, LayersAgree, StatesFor, NciStates
  <2>2. ReceiveEvent(Reply("RF_DEACTIVATE", "OK")) /\ Searches(<<Deactivated>>)'
    BY <1>15, SearchRead
  <2>3. /\ tagsState' = "DEACTIVATE_RSP" /\ api' = NoApi
        /\ UNCHANGED <<tagsId, tagIntf, t2State>>
    BY <2>1, <2>2, SuccessRead DEF Commands, t2Vars
  <2>4. UNCHANGED app
    BY <2>3, Heard
  <2>5. Talk'
    BY <2>1, <2>2, <2>3, <2>4 DEF Talk, Waits
  <2> QED
    BY <1>1, <1>3, <1>4, <1>5, <1>15, <2>3, <2>5 DEF Kept, IdFor
<1>16. CASE tagsState = "DEACTIVATE_RSP"
  <2>1. nciState = "RFST_DISCOVERY" /\ Searches(<<Deactivated>>)
    BY <1>2, <1>16 DEF Talking, Talk, LayersAgree, StatesFor, NciStates
  <2>2. ReceiveEvent(Deactivated) /\ Searches(<<>>)'
    BY <2>1, SearchRead
  <2>3. /\ tagsState' = "DISCOVER_NTF" /\ tagsId' = "DISCOVER"
        /\ api' = ApiCall("cbDeactivate", "OK", "DEACTIVATE")
        /\ UNCHANGED <<tagIntf, t2State>>
    BY <2>1, <2>2, DeactivationRead DEF t2Vars
  <2>4. app' = "DISCOVERING"
    BY <2>3, Heard
  <2>5. Talk'
    BY <2>2, <2>3, <2>4 DEF Talk
  <2> QED
    BY <1>1, <1>3, <1>4, <1>5, <1>16, <2>3, <2>5 DEF Kept, IdFor
<1>17. tagsState \notin {"NONE", "INIT_DONE", "DISCOVER_ACTIVATED"}
  BY <1>1 DEF Talking, Talk, HasTag
<1>18. /\ tagsState = "DISCOVER" => \/ Asks("RF_DISCOVER", "IDLE")
                                    \/ Searches(<<Reply("RF_DISCOVER", "OK")>>)
       /\ tagsState = "DEACTIVATE" =>
            \/ Asks("RF_DEACTIVATE", "ACTIVE")
            \/ Searches(<<Reply("RF_DEACTIVATE", "OK"), Deactivated>>)
  BY DEF Talking, Talk
<1> QED
  BY <1>2, <1>7, <1>8, <1>9, <1>10, <1>11, <1>12, <1>13, <1>14, <1>15, <1>16, <1>17, <1>18
  DEF TagsStates, Talking, Talk

\* A controller that is not looking for a tag does nothing without a frame.
LEMMA NothingToDo ==
  ASSUME toNfcc = <<>>, nfcc # "DISCOVERY"
  PROVE  ~NfccStep
BY DEF NfccStep, AnswerReset, AnswerInit, AnswerDiscoverMap, AnswerDiscover,
   AnswerDeactivate, Answer, AnswerRead, Activate

\* The one frame on the line is answered: refused for a reason of the
\* controller's own, or accepted, when the controller is in the state for it.
LEMMA FrameAnswered ==
  ASSUME NfccStep, NEW cmd \in Commands \ {"DATA"}, toNfcc = <<Cmd(cmd)>>, toHost = <<>>,
         nfcc # "DISCOVERY"
  PROVE  /\ toNfcc' = <<>>
         /\ \/ /\ toHost' = <<Reply(cmd, "FAILED")>> /\ UNCHANGED nfcc
               /\ \/ "RSP_FAILED" \in Faults
                  \/ cmd = "CORE_RESET" /\ nfcc # "ON"
                  \/ cmd = "CORE_INIT" /\ nfcc # "RESET"
                  \/ cmd = "RF_DISCOVER_MAP" /\ nfcc # "IDLE"
                  \/ cmd = "RF_DISCOVER" /\ nfcc # "IDLE"
                  \/ cmd = "RF_DEACTIVATE" /\ nfcc # "ACTIVE"
            \/ cmd = "CORE_RESET" /\ nfcc' = "RESET" /\ toHost' = <<Reply(cmd, "OK")>>
            \/ cmd = "CORE_INIT" /\ nfcc' = "IDLE" /\ toHost' = <<Reply(cmd, "OK")>>
            \/ cmd = "RF_DISCOVER_MAP" /\ nfcc' = "IDLE" /\ toHost' = <<Reply(cmd, "OK")>>
            \/ cmd = "RF_DISCOVER" /\ nfcc' = "DISCOVERY" /\ toHost' = <<Reply(cmd, "OK")>>
            \/ /\ cmd = "RF_DEACTIVATE" /\ nfcc' = "DISCOVERY"
               /\ toHost' = <<Reply(cmd, "OK"), Deactivated>>
         /\ active' = IF nfcc' = "ACTIVE" THEN active ELSE {}
<1>1. Head(toNfcc).cmd = cmd /\ Tail(toNfcc) = <<>>
  BY LineRead DEF Cmd
<1> DEFINE accepted == Reply(cmd, "OK")
           refused == Reply(cmd, "FAILED")
<1>2. /\ toHost \o <<refused>> = <<refused>>
      /\ toHost \o (<<accepted>> \o <<>>) = <<accepted>>
      /\ toHost \o (<<accepted>> \o <<Deactivated>>) = <<accepted, Deactivated>>
  BY ShortLines
<1> HIDE DEF accepted, refused
<1>3. CASE cmd = "CORE_RESET"
  <2>1. AnswerReset
    BY <1>1, <1>3 DEF NfccStep, AnswerReset, AnswerInit, AnswerDiscoverMap, AnswerDiscover,
       AnswerDeactivate, Answer, AnswerRead, Activate
  <2> QED
    BY <1>1, <1>2, <1>3, <2>1 DEF AnswerReset, Answer, Send, accepted, refused
<1>4. CASE cmd = "CORE_INIT"
  <2>1. AnswerInit
    BY <1>1, <1>4 DEF NfccStep, AnswerReset, AnswerInit, AnswerDiscoverMap, AnswerDiscover,
       AnswerDeactivate, Answer, AnswerRead, Activate
  <2> QED
    BY <1>1, <1>2, <1>4, <2>1 DEF AnswerInit, Answer, Send, accepted, refused
<1>5. CASE cmd = "RF_DISCOVER_MAP"
  <2>1. AnswerDiscoverMap
    BY <1>1, <1>5 DEF NfccStep, AnswerReset, AnswerInit, AnswerDiscoverMap, AnswerDiscover,
       AnswerDeactivate, Answer, AnswerRead, Activate
  <2> QED
    BY <1>1, <1>2, <1>5, <2>1 DEF AnswerDiscoverMap, Answer, Send, accepted, refused
<1>6. CASE cmd = "RF_DISCOVER"
  <2>1. AnswerDiscover
    BY <1>1, <1>6 DEF NfccStep, AnswerReset, AnswerInit, AnswerDiscoverMap, AnswerDiscover,
       AnswerDeactivate, Answer, AnswerRead, Activate
  <2> QED
    BY <1>1, <1>2, <1>6, <2>1 DEF AnswerDiscover, Answer, Send, accepted, refused
<1>7. CASE cmd = "RF_DEACTIVATE"
  <2>1. AnswerDeactivate
    BY <1>1, <1>7 DEF NfccStep, AnswerReset, AnswerInit, AnswerDiscoverMap, AnswerDiscover,
       AnswerDeactivate, Answer, AnswerRead, Activate
  <2> QED
    BY <1>1, <1>2, <1>7, <2>1 DEF AnswerDeactivate, Answer, Send, accepted, refused
<1> QED
  BY <1>3, <1>4, <1>5, <1>6, <1>7 DEF Commands

\* A READ is answered, after its credits unless they are late.
LEMMA ReadAnswered ==
  ASSUME NfccStep, NEW block, toNfcc = <<[cmd |-> "DATA", block |-> block]>>, toHost = <<>>,
         nfcc = "ACTIVE", "LATE_CREDITS" \notin Faults
  PROVE  /\ toNfcc' = <<>> /\ UNCHANGED <<nfcc, active, field>>
         /\ \E answer \in Answers(block) : toHost' = <<Credits, answer>>
<1>1. Head(toNfcc).cmd = "DATA" /\ Head(toNfcc).block = block /\ Tail(toNfcc) = <<>>
  BY LineRead
<1>2. AnswerRead
  BY <1>1 DEF NfccStep, AnswerReset, AnswerInit, AnswerDiscoverMap, AnswerDiscover,
     AnswerDeactivate, Answer, AnswerRead, Activate
<1>3. PICK answer \in TagAnswers(block) : Send(<<Credits, answer>>)
  BY <1>1, <1>2 DEF AnswerRead
<1>4. answer \in Answers(block)
  BY DEF TagAnswers, Answers
<1>5. <<>> \o <<Credits, answer>> = <<Credits, answer>>
  BY ShortLines
<1> QED
  BY <1>1, <1>2, <1>3, <1>4, <1>5 DEF AnswerRead, Send

\* The controller answers what is on its line, or finds a tag.
LEMMA NfccStepTalks ==
  ASSUME Talking, NfccStep, "LATE_CREDITS" \notin Faults,
         UNCHANGED <<vars, pc, app, sketch>>
  PROVE  Talk' /\ Kept'
<1>1. tagsState \in TagsStates /\ nfcc \in {"ON", "RESET", "IDLE", "DISCOVERY", "ACTIVE"}
      /\ active \in AtMostOne(Tags) /\ field \in AtMostOne(Tags)
  BY DEF Talking, SysInv, SysTypeOK, TypeOK, NfccTypeOK
<1>2. UNCHANGED <<tagsState, tagsId, tagIntf, nciState, t2State, t2Id, t2Block>>
  BY DEF vars, tagsVars, nciVars, t2Vars
<1>3. active # {} <=> nfcc = "ACTIVE"
  BY DEF Talking, Kept
<1>4. (active' # {} <=> nfcc' = "ACTIVE") => Kept'
  BY <1>2 DEF Talking, Kept
<1>5. ASSUME NEW cmd, NEW from, Asks(cmd, from), from # "DISCOVERY"
      PROVE  pc = "nci" /\ nfcc = from /\ toNfcc = <<Cmd(cmd)>> /\ toHost = <<>>
  BY <1>5, NothingToDo DEF Asks, LinesIdle
<1>6. ASSUME NEW cmd, NEW to, Grants(cmd, to), to # "DISCOVERY" PROVE FALSE
  BY <1>6, NothingToDo DEF Grants
<1>7. ASSUME LinesIdle, nfcc # "DISCOVERY" PROVE FALSE
  BY <1>7, NothingToDo DEF LinesIdle
<1>8. ASSUME NEW packets, Searches(packets)
      PROVE  Searches(packets)' /\ nfcc' = "ACTIVE" /\ active' # {}
  <2>1. nfcc = "DISCOVERY" /\ toHost = packets /\ toNfcc = <<>>
    BY <1>8, NothingToDo DEF Searches
  <2>2. Activate
    BY <2>1 DEF NfccStep, AnswerReset, AnswerInit, AnswerDiscoverMap, AnswerDiscover,
       AnswerDeactivate, Answer, AnswerRead
  <2> QED
    BY <2>1, <2>2 DEF Activate, Searches
<1>9. CASE tagsState = "INIT_RESET"
  <2>1. Waits("RESET_RESPONSE") /\ (Asks("CORE_RESET", "ON") \/ Grants("CORE_RESET", "RESET"))
    BY <1>9 DEF Talking, Talk
  <2>2. /\ pc = "nci" /\ nfcc = "ON" /\ toHost = <<>>
        /\ toNfcc = <<Cmd("CORE_RESET")>>
    BY <1>5, <1>6, <2>1
  <2>3. /\ toNfcc' = <<>> /\ active' = IF nfcc' = "ACTIVE" THEN active ELSE {}
        /\ \/ /\ toHost' = <<Reply("CORE_RESET", "FAILED")>> /\ nfcc' = "ON"
              /\ "RSP_FAILED" \in Faults
           \/ toHost' = <<Reply("CORE_RESET", "OK")>> /\ nfcc' = "RESET"
    BY <2>2, FrameAnswered DEF Commands
  <2>4. Asks("CORE_RESET", "ON")' \/ Grants("CORE_RESET", "RESET")'
    BY <2>2, <2>3 DEF Asks, Grants
  <2>5. Talk'
    BY <1>2, <1>9, <2>1, <2>4 DEF Talk, Waits
  <2> QED
    BY <1>3, <1>4, <2>2, <2>3, <2>5
<1>10. CASE tagsState = "INIT_INIT"
  <2>1. Waits("RESET_RESPONSE") /\ (Asks("CORE_INIT", "RESET") \/ Grants("CORE_INIT", "IDLE"))
    BY <1>10 DEF Talking, Talk
  <2>2. /\ pc = "nci" /\ nfcc = "RESET" /\ toHost = <<>>
        /\ toNfcc = <<Cmd("CORE_INIT")>>
    BY <1>5, <1>6, <2>1
  <2>3. /\ toNfcc' = <<>> /\ active' = IF nfcc' = "ACTIVE" THEN active ELSE {}
        /\ \/ /\ toHost' = <<Reply("CORE_INIT", "FAILED")>> /\ nfcc' = "RESET"
              /\ "RSP_FAILED" \in Faults
           \/ toHost' = <<Reply("CORE_INIT", "OK")>> /\ nfcc' = "IDLE"
    BY <2>2, FrameAnswered DEF Commands
  <2>4. Asks("CORE_INIT", "RESET")' \/ Grants("CORE_INIT", "IDLE")'
    BY <2>2, <2>3 DEF Asks, Grants
  <2>5. Talk'
    BY <1>2, <1>10, <2>1, <2>4 DEF Talk, Waits
  <2> QED
    BY <1>3, <1>4, <2>2, <2>3, <2>5
<1>11. CASE tagsState = "DISCOVER_MAP"
  <2>1. Waits("DISCOVER_RESPONSE") /\ (Asks("RF_DISCOVER_MAP", "IDLE") \/ Grants("RF_DISCOVER_MAP", "IDLE"))
    BY <1>11 DEF Talking, Talk
  <2>2. /\ pc = "nci" /\ nfcc = "IDLE" /\ toHost = <<>>
        /\ toNfcc = <<Cmd("RF_DISCOVER_MAP")>>
    BY <1>5, <1>6, <2>1
  <2>3. /\ toNfcc' = <<>> /\ active' = IF nfcc' = "ACTIVE" THEN active ELSE {}
        /\ \/ /\ toHost' = <<Reply("RF_DISCOVER_MAP", "FAILED")>> /\ nfcc' = "IDLE"
              /\ "RSP_FAILED" \in Faults
           \/ toHost' = <<Reply("RF_DISCOVER_MAP", "OK")>> /\ nfcc' = "IDLE"
    BY <2>2, FrameAnswered DEF Commands
  <2>4. Asks("RF_DISCOVER_MAP", "IDLE")' \/ Grants("RF_DISCOVER_MAP", "IDLE")'
    BY <2>2, <2>3 DEF Asks, Grants
  <2>5. Talk'
    BY <1>2, <1>11, <2>1, <2>4 DEF Talk, Waits
  <2> QED
    BY <1>3, <1>4, <2>2, <2>3, <2>5
<1>12. CASE tagsState = "DISCOVER"
  <2>1. /\ Waits("DISCOVER_RESPONSE")
        /\ Asks("RF_DISCOVER", "IDLE") \/ (pc = "nci" /\ Searches(<<Reply("RF_DISCOVER", "OK")>>))
    BY <1>12 DEF Talking, Talk
  <2>2. CASE Asks("RF_DISCOVER", "IDLE")
    <3>1. /\ pc = "nci" /\ nfcc = "IDLE" /\ toHost = <<>>
          /\ toNfcc = <<Cmd("RF_DISCOVER")>>
      BY <1>5, <2>2
    <3>2. /\ toNfcc' = <<>> /\ active' = IF nfcc' = "ACTIVE" THEN active ELSE {}
          /\ \/ /\ toHost' = <<Reply("RF_DISCOVER", "FAILED")>> /\ nfcc' = "IDLE"
                /\ "RSP_FAILED" \in Faults
             \/ /\ nfcc' = "DISCOVERY"
                /\ toHost' = <<Reply("RF_DISCOVER", "OK")>>
      BY <3>1, FrameAnswered DEF Commands
    <3>3. \/ Asks("RF_DISCOVER", "IDLE")'
          \/ pc' = "nci" /\ Searches(<<Reply("RF_DISCOVER", "OK")>>)'
      BY <3>1, <3>2 DEF Asks, Searches
    <3>4. Talk'
      BY <1>2, <1>12, <2>1, <3>3 DEF Talk, Waits
    <3> QED
      BY <1>3, <1>4, <3>1, <3>2, <3>4
  <2>3. CASE pc = "nci" /\ Searches(<<Reply("RF_DISCOVER", "OK")>>)
    <3>1. Talk'
      BY <1>2, <1>8, <1>12, <2>1, <2>3 DEF Talk, Waits
    <3> QED
      BY <1>4, <1>8, <2>3, <3>1
  <2> QED
    BY <2>1, <2>2, <2>3
<1>13. CASE tagsState = "DISCOVER_NTF"
  BY <1>2, <1>4, <1>8, <1>13 DEF Talking, Talk
<1>14. CASE tagsState = "DEACTIVATE"
  <2>1. /\ Waits("DEACTIVATE_RESPONSE")
        /\ Asks("RF_DEACTIVATE", "ACTIVE") \/ (pc = "nci" /\ Searches(<<Reply("RF_DEACTIVATE", "OK"), Deactivated>>))
    BY <1>14 DEF Talking, Talk
  <2>2. CASE Asks("RF_DEACTIVATE", "ACTIVE")
    <3>1. /\ pc = "nci" /\ nfcc = "ACTIVE" /\ toHost = <<>>
          /\ toNfcc = <<Cmd("RF_DEACTIVATE")>>
      BY <1>5, <2>2
    <3>2. /\ toNfcc' = <<>> /\ active' = IF nfcc' = "ACTIVE" THEN active ELSE {}
          /\ \/ /\ toHost' = <<Reply("RF_DEACTIVATE", "FAILED")>> /\ nfcc' = "ACTIVE"
                /\ "RSP_FAILED" \in Faults
             \/ /\ nfcc' = "DISCOVERY"
                /\ toHost' = <<Reply("RF_DEACTIVATE", "OK"), Deactivated>>
      BY <3>1, FrameAnswered DEF Commands
    <3>3. \/ Asks("RF_DEACTIVATE", "ACTIVE")'
          \/ pc' = "nci" /\ Searches(<<Reply("RF_DEACTIVATE", "OK"), Deactivated>>)'
      BY <3>1, <3>2 DEF Asks, Searches
    <3>4. Talk'
      BY <1>2, <1>14, <2>1, <3>3 DEF Talk, Waits
    <3> QED
      BY <1>3, <1>4, <3>1, <3>2, <3>4
  <2>3. CASE pc = "nci" /\ Searches(<<Reply("RF_DEACTIVATE", "OK"), Deactivated>>)
    <3>1. Talk'
      BY <1>2, <1>8, <1>14, <2>1, <2>3 DEF Talk, Waits
    <3> QED
      BY <1>4, <1>8, <2>3, <3>1
  <2> QED
    BY <2>1, <2>2, <2>3
<1>15. CASE tagsState = "DEACTIVATE_RSP"
  BY <1>2, <1>4, <1>8, <1>15 DEF Talking, Talk, Waits
<1>16. CASE tagsState = "DUMP"
  <2>1. Dumps
    BY <1>16 DEF Talking, Talk
  <2>2. nfcc = "ACTIVE" /\ ~LinesIdle
    BY <1>7, <2>1 DEF Dumps
  <2>3. t2State = "DUMP_RSP" /\ app = "DUMP_RESPONSE" /\ Reads(t2Block)
    BY <1>2, <2>1, <2>2 DEF Dumps, Talking, SysInv, SysTypeOK, TypeOK, T2TypeOK
  <2>4. toNfcc = <<[cmd |-> "DATA", block |-> t2Block]>> /\ toHost = <<>>
    BY <2>2, <2>3, NothingToDo DEF Reads
  <2>5. /\ toNfcc' = <<>> /\ UNCHANGED <<nfcc, active>>
        /\ \E answer \in Answers(t2Block) : toHost' = <<Credits, answer>>
    BY <2>2, <2>4, ReadAnswered
  <2>6. Reads(t2Block)'
    BY <1>2, <2>5 DEF Reads, Answers
  <2>7. Dumps'
    BY <1>2, <2>1, <2>3, <2>5, <2>6 DEF Dumps
  <2>8. Talk'
    BY <1>2, <1>16, <2>7 DEF Talk
  <2> QED
    BY <1>3, <1>4, <2>5, <2>8
<1>17. tagsState \notin {"NONE", "INIT_DONE", "DISCOVER_ACTIVATED"}
  BY <1>7 DEF Talking, Talk, HasTag
<1> QED
  BY <1>1, <1>9, <1>10, <1>11, <1>12, <1>13, <1>14, <1>15, <1>16, <1>17
  DEF TagsStates, Talking, Talk

\* A tag that comes or goes is no part of the conversation yet.
LEMMA QuietTalks ==
  ASSUME Talking, UNCHANGED <<vars, pc, app, sketch, nfcc, active, toNfcc, toHost>>
  PROVE  Talk' /\ Kept'
<1>1. UNCHANGED <<tagsState, tagsId, tagIntf, nciState, t2State, t2Id, t2Block>>
  BY DEF vars, tagsVars, nciVars, t2Vars
<1>2. \A cmd, from : Asks(cmd, from)' <=> Asks(cmd, from)
  BY DEF Asks, LinesIdle
<1>3. \A cmd, to : Grants(cmd, to)' <=> Grants(cmd, to)
  BY DEF Grants
<1>4. \A packets : Searches(packets)' <=> Searches(packets)
  BY DEF Searches
<1>5. LinesIdle' <=> LinesIdle
  BY DEF LinesIdle
<1>6. Reads(t2Block)' <=> Reads(t2Block)
  BY <1>1, <1>5 DEF Reads, Answers
<1>7. Dumps' <=> Dumps
  BY <1>1, <1>5, <1>6 DEF Dumps
<1>8. HasTag' <=> HasTag
  BY <1>1, <1>5 DEF HasTag
<1> QED
  BY <1>1, <1>2, <1>3, <1>4, <1>5, <1>7, <1>8 DEF Talking, Talk, Kept, Waits

-----------------------------------------------------------------------------
\* The conversation as a theorem.

\* It starts with the sketch about to reset the stack.
LEMMA ConversationStarts ==
  ASSUME AppInit
  PROVE  Conversation
BY DEF AppInit, SketchInit, SysInit, Init, T2Init, NfccInit, Conversation, Talk,
   LinesIdle, Kept, IdFor, NciInit

\* Every step of a sketch, the stack or the controller goes on with it.
LEMMA ConversationGoesOn ==
  ASSUME SysInv, LayersAgree, Conversation, [AppNext]_allVars
  PROVE  Conversation'
<1>1. SUFFICES ASSUME restarts' = 0, "LATE_CREDITS" \notin Faults PROVE Talk' /\ Kept'
  BY DEF Conversation
<1>2. restarts = 0 /\ ~SketchReboot
  BY <1>1, RestartsAssumption
  DEF AppNext, allVars, sketchVars, sysVars, Loop, DumpLoop, DetectLoop, DumpTurn, DetectTurn,
      AppTurn, TagsTurn, NciTurn, SketchEnvironment, Environment, SketchReboot, Reboot,
      SysInv, SysTypeOK
<1>3. Talking
  BY <1>1, <1>2 DEF Conversation, Talking
<1>4. CASE Loop
  <2>1. CASE (DumpTurn \/ DetectTurn) /\ UNCHANGED sketch
    BY <1>3, <2>1, AppTurnTalks
  <2>2. CASE TagsTurn /\ SketchCallbacks /\ UNCHANGED sketch
    BY <1>3, <2>2, TagsTurnTalks
  <2>3. CASE NciTurn /\ SketchCallbacks /\ UNCHANGED sketch
    BY <1>3, <2>3, NciTurnTalks
  <2> QED
    BY <1>4, <2>1, <2>2, <2>3 DEF Loop, DumpLoop, DetectLoop, SketchCallbacks
<1>5. CASE SketchEnvironment /\ UNCHANGED sketch
  <2>1. CASE NfccStep
    BY <1>1, <1>3, <1>5, <2>1, NfccStepTalks DEF SketchEnvironment, Environment
  <2>2. CASE FieldStep
    BY <1>3, <1>5, <2>2, QuietTalks
    DEF SketchEnvironment, Environment, FieldStep, TagEnters, TagLeaves
  <2> QED
    BY <1>5, <2>1, <2>2 DEF SketchEnvironment, Environment
<1>6. CASE UNCHANGED allVars
  BY <1>3, <1>6, QuietTalks DEF allVars, sketchVars, sysVars, nfccVars
<1> QED
  BY <1>2, <1>4, <1>5, <1>6 DEF AppNext

\* Whatever is in flight is what the state of NfcTags says, for any tags, any
\* memory and any faults but late credits, until the board is restarted.
THEOREM ConversationHolds == AppSpec => []Conversation
<1>1. AppInit => Conversation
  BY ConversationStarts
<1>2. SysInv /\ LayersAgree /\ Conversation /\ [AppNext]_allVars => Conversation'
  BY ConversationGoesOn
<1>3. AppSpec => [](SysInv /\ LayersAgree)
  BY SketchIsClient, SysInvariant, SystemIsSession, PTL
<1> QED
  BY <1>1, <1>2, <1>3, PTL DEF AppSpec
=============================================================================
