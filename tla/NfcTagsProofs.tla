--------------------------- MODULE NfcTagsProofs ---------------------------
(***************************************************************************)
(* What TLAPS proves of NfcTags: for every set of packets the controller   *)
(* may send, in any order, and every sequence of the client's commands,    *)
(* the variables keep their types and the RF state of NfcNci and the state *)
(* of NfcTags stay in step.                                                *)
(***************************************************************************)
EXTENDS NfcTags, TLAPS

-----------------------------------------------------------------------------
\* Lemmas about the operators the handlers are built from.

\* The status a response handler returns is one of NfcNci's.
LEMMA StatusTypes ==
  ASSUME NEW p \in PacketType, NEW required
  PROVE  /\ Checked(p, required) \in NciStatus
         /\ RspStatus(p, required) \in NciStatus
BY DEF Checked, RspStatus, PacketType, RspStatuses, NciStatus

\* Both translations end in a status of the tag layer.
LEMMA TranslatedTypes ==
  ASSUME NEW status
  PROVE  /\ IntfStatus(status) \in TagsStatus
         /\ TagsStatusOf(status) \in TagsStatus
BY DEF IntfStatus, TagsStatusOf, TagsStatus

\* A command writes a frame or nothing, whatever status it ends with.
LEMMA CommandTypes ==
  ASSUME NEW status, NEW type, NEW maps, NEW num,
         \/ CmdCoreReset(type, status)
         \/ CmdCoreInit(status)
         \/ CmdRfDiscoverMap(maps, status)
         \/ CmdRfDiscover(num, status)
         \/ CmdRfDeactivate(status)
  PROVE  tx' \in Frame
BY DEF CmdCoreReset, CmdCoreInit, CmdRfDiscoverMap, CmdRfDiscover,
       CmdRfDeactivate, HwWrite, Refuse, NoCmd, Cmd, Frame, Commands

\* The parameters a notification fills in are parameters.
LEMMA RfParamsFilled ==
  ASSUME NEW old \in RfParams, NEW p \in PacketType
  PROVE  SetRfTechSpecParams(old, p) \in RfParams
BY DEF SetRfTechSpecParams, RfParams, PacketType

-----------------------------------------------------------------------------
\* Every event of NfcNci keeps the types of its variables.
LEMMA NciEventTypes ==
  ASSUME NciTypeOK, NEW p \in PacketType, NciHandleEvent(p)
  PROVE  NciTypeOK'
<1> USE DEF NciTypeOK, NciStates, Pointers, Callbacks, Callback, Call, Advance
<1>1. tx' \in Frame
  BY DEF NciHandleEvent, NoCmd, Cmd, Frame, Commands
<1>2. \A status \in NciStatus : Error(status) => NciTypeOK'
  BY <1>1 DEF Error
<1>3. Ignore => NciTypeOK'
  BY <1>1 DEF Ignore, NoCall, NciStatus
<1>4. HandleDataEvent(p) => NciTypeOK'
  BY <1>1 DEF HandleDataEvent, NciStatus
<1>5. RspCoreReset(p) => NciTypeOK'
  BY <1>1, StatusTypes DEF RspCoreReset
<1>6. RspCoreInit(p) => NciTypeOK'
  BY <1>1, StatusTypes DEF RspCoreInit
<1>7. RspRfDiscoverMap(p) => NciTypeOK'
  BY <1>1, StatusTypes DEF RspRfDiscoverMap
<1>8. RspRfDiscover(p) => NciTypeOK'
  BY <1>1, StatusTypes DEF RspRfDiscover
<1>9. RspRfDeactivate(p) => NciTypeOK'
  BY <1>1, StatusTypes DEF RspRfDeactivate
<1>10. NtfRfIntfActivated(p) => NciTypeOK'
  BY <1>1, StatusTypes, RfParamsFilled DEF NtfRfIntfActivated
<1>11. NtfRfDeactivate(p) => NciTypeOK'
  BY <1>1, StatusTypes DEF NtfRfDeactivate
<1>12. HandleCoreEvent(p) => NciTypeOK'
  BY <1>2, <1>3, <1>5, <1>6 DEF HandleCoreEvent, NciStatus
<1>13. HandleRfEvent(p) => NciTypeOK'
  BY <1>2, <1>7, <1>8, <1>9, <1>10, <1>11 DEF HandleRfEvent, NciStatus
<1> QED
  BY <1>2, <1>4, <1>12, <1>13 DEF NciHandleEvent, NciStatus

\* A call across the client's interface is well typed when its parts are.
LEMMA ApiCallTypes ==
  ASSUME NEW fn \in {"none", "cmdReset", "cmdDiscover", "cmdDeactivate", "cmdDump",
                     "cbReset", "cbDiscover", "cbDiscoverNtf", "cbDeactivate",
                     "cbDump"},
         NEW status \in TagsStatus, NEW id \in TagsIds
  PROVE  ApiCall(fn, status, id) \in ApiCalls
BY DEF ApiCall, ApiCalls, NoBlock

\* A step that exchanges nothing with the controller keeps NfcNci's types.
LEMMA QuietTypes ==
  ASSUME NciTypeOK, Quiet
  PROVE  NciTypeOK'
BY DEF NciTypeOK, Quiet, NoCmd, Cmd, Frame, Commands, NoCall, Call, NciStatus, Pointers

\* The client's commands keep the types.
LEMMA CommandStepTypes ==
  ASSUME TypeOK, Command
  PROVE  TypeOK'
<1> USE DEF TypeOK
<1>1. Quiet
  BY DEF Command, CmdReset, CmdDiscover, CmdDeactivate, CmdDump, Rejected
<1>2. NciTypeOK'
  BY <1>1, QuietTypes
<1>3. \A fn \in {"cmdReset", "cmdDiscover", "cmdDeactivate", "cmdDump"},
         status \in TagsStatus : Return(fn, status) => api' \in ApiCalls
  BY ApiCallTypes DEF Return, TagsIds
<1> USE DEF T2TypeOK, TagsStates, TagsIds, TagIntfs, TagsStatus, t2Vars, tagsVars
<1>4. CASE CmdReset
  BY <1>2, <1>3, <1>4 DEF CmdReset
<1>5. \A fn \in {"cmdDiscover", "cmdDeactivate", "cmdDump"} : Rejected(fn) => TypeOK'
  BY <1>2, <1>3 DEF Rejected
<1>6. CASE CmdDiscover
  BY <1>2, <1>3, <1>5, <1>6 DEF CmdDiscover
<1>7. CASE CmdDeactivate
  BY <1>2, <1>3, <1>5, <1>7 DEF CmdDeactivate
<1>8. CASE CmdDump
  <2>1. CASE tagsState # "DISCOVER_ACTIVATED"
    BY <1>5, <1>8, <2>1 DEF CmdDump
  <2>2. CASE tagsState = "DISCOVER_ACTIVATED"
    <3>1. T2TypeOK'
      BY <1>8, <2>2 DEF CmdDump, IntfCmdDump, T2CmdDump
    <3>2. tagsState' \in TagsStates /\ tagsId' \in TagsIds /\ api' \in ApiCalls
      BY <1>3, <1>8, <2>2 DEF CmdDump
    <3> QED
      BY <1>2, <1>8, <2>2, <3>1, <3>2 DEF CmdDump
  <2> QED
    BY <2>1, <2>2
<1> QED
  BY <1>4, <1>6, <1>7, <1>8 DEF Command

\* NfcTags::handleEvent() keeps the types.
LEMMA HandleEventTypes ==
  ASSUME TypeOK, TagsHandleEvent
  PROVE  TypeOK'
<1> USE DEF TypeOK
<1>1. NciTypeOK' /\ T2TypeOK' /\ api' \in ApiCalls
  <2>1. SUFFICES tx' \in Frame /\ T2TypeOK' /\ api' \in ApiCalls
    BY DEF TagsHandleEvent, NciTypeOK, NoCall, Call, NciStatus, Pointers
  <2>2. tx' = NoCmd => tx' \in Frame
    BY DEF NoCmd, Cmd, Frame, Commands
  <2>3. NoUpcall => api' \in ApiCalls
    BY ApiCallTypes DEF NoUpcall, NoApi, TagsStatus, TagsIds
  <2>4. \A status : \A fn \in {"cbReset", "cbDiscover", "cbDeactivate"}, id \in TagsIds :
          Notify(fn, id, status) => api' \in ApiCalls
    BY <2>3, ApiCallTypes, TranslatedTypes DEF Notify, Upcall
  <2>5. CASE HandleReset
    <3>1. tx' \in Frame
      BY <2>2, <2>5, CommandTypes DEF HandleReset, Wait
    <3> QED
      BY <2>4, <2>5, <3>1 DEF HandleReset, T2TypeOK, t2Vars, TagsIds
  <2>6. CASE HandleDiscover
    <3>1. tx' \in Frame
      BY <2>2, <2>6, CommandTypes DEF HandleDiscover, Wait
    <3> QED
      BY <2>4, <2>6, <3>1 DEF HandleDiscover, T2TypeOK, t2Vars, TagsIds
  <2>7. CASE HandleDeactivate
    <3>1. tx' \in Frame
      BY <2>2, <2>7, CommandTypes DEF HandleDeactivate, Wait
    <3> QED
      BY <2>4, <2>7, <3>1 DEF HandleDeactivate, T2TypeOK, t2Vars, TagsIds
  <2>8. CASE HandleDump
    <3>1. \A status : T2HandleDump(status) => tx' \in Frame /\ T2TypeOK'
      BY <2>2 DEF T2HandleDump, T2TypeOK, DataSend, HwWrite, Refuse, Frame, Commands
    <3>2. tx' \in Frame /\ T2TypeOK'
      BY <2>2, <2>8, <3>1 DEF HandleDump, T2TypeOK, t2Vars
    <3>3. api' \in ApiCalls
      BY <2>3, <2>8, ApiCallTypes DEF HandleDump, Upcall, TagsIds
    <3> QED
      BY <3>2, <3>3
  <2>9. CASE HandleUnknown
    BY <2>2, <2>3, <2>9 DEF HandleUnknown, T2TypeOK, t2Vars
  <2> QED
    BY <2>5, <2>6, <2>7, <2>8, <2>9 DEF TagsHandleEvent
<1>2. UNCHANGED tagsVars
  BY DEF TagsHandleEvent, HandleReset, HandleDiscover, HandleDeactivate, HandleDump,
         HandleUnknown
<1> QED
  BY <1>1, <1>2 DEF tagsVars

\* A packet and the callbacks it causes keep the types.
LEMMA ReceiveEventTypes ==
  ASSUME TypeOK, NEW p \in PacketType, ReceiveEvent(p)
  PROVE  TypeOK'
<1> USE DEF TypeOK
<1>1. NciTypeOK'
  BY NciEventTypes DEF ReceiveEvent
<1>2. NoUpcall => api' \in ApiCalls
  BY ApiCallTypes DEF NoUpcall, NoApi, TagsStatus, TagsIds
<1>3. \A status : \A fn \in {"cbReset", "cbDiscover", "cbDiscoverNtf", "cbDeactivate"},
                  id \in TagsIds :
        /\ Upcall(fn, TagsStatusOf(status), id) => api' \in ApiCalls
        /\ Notify(fn, id, status) => api' \in ApiCalls
  BY <1>2, ApiCallTypes, TranslatedTypes DEF Notify, Upcall
<1>4. \A state \in TagsStates : Progress(state) => tagsState' \in TagsStates
  BY DEF Progress
<1> USE DEF T2TypeOK, t2Vars, tagsVars
<1>5. CASE CbCoreReset
  BY <1>1, <1>3, <1>4, <1>5 DEF CbCoreReset, TagsStates, TagsIds
<1>6. CASE CbCoreInit
  BY <1>1, <1>3, <1>4, <1>6 DEF CbCoreInit, TagsStates, TagsIds
<1>7. CASE CbRfDiscoverMap
  BY <1>1, <1>3, <1>4, <1>7 DEF CbRfDiscoverMap, TagsStates, TagsIds
<1>8. CASE CbRfDiscover
  BY <1>1, <1>3, <1>4, <1>8 DEF CbRfDiscover, TagsStates, TagsIds
<1>9. CASE CbRfDiscoverNtf
  <2>1. nciCb'.data \in Pointers
    BY <1>1 DEF NciTypeOK
  <2>2. KindsAt(nciCb'.data) \subseteq TagIntfs \cup {"NULL", "KEEP"}
    BY DEF KindsAt, TagKind, TagIntfs
  <2>3. tagIntf' \in TagIntfs \cup {"NULL"} /\ rfPtr' \in [TagIntfs -> Pointers]
    BY <1>9, <2>1, <2>2 DEF CbRfDiscoverNtf, IdentifyTag
  <2> QED
    BY <1>1, <1>3, <1>4, <1>9, <2>3 DEF CbRfDiscoverNtf, TagsStates, TagsIds
<1>10. CASE CbRfDeactivate
  BY <1>1, <1>3, <1>4, <1>10 DEF CbRfDeactivate, TagsStates, TagsIds
<1>11. CASE CbRfDeactivateNtf
  BY <1>1, <1>3, <1>4, <1>11 DEF CbRfDeactivateNtf, TagsStates, TagsIds
<1>12. CASE CbData(p)
  <2>1. T2HandleDataDump(p) => T2TypeOK'
    <3>1. ReadBlock \in Int
      BY MemoryAssumption
    <3>2. (t2Block + ReadBlock) % 256 \in 0..255
      BY <3>1
    <3> QED
      BY <3>2 DEF T2HandleDataDump
  <2>2. T2More(p) \in BOOLEAN
    BY DEF T2More, PacketType
  <2>3. api' \in ApiCalls
    <3>1. (IF p.valid THEN p.block ELSE NoBlock) \in Int
      BY DEF PacketType, NoBlock
    <3>2. DumpCall(p) \in ApiCalls
      BY <2>2, <3>1 DEF DumpCall, ApiCalls, TagsStatus, TagsIds
    <3> QED
      BY <1>2, <1>12, <3>2 DEF CbData
  <2> QED
    BY <1>1, <1>12, <2>1, <2>3 DEF CbData
<1>13. CASE NoCallback
  BY <1>1, <1>2, <1>13 DEF NoCallback
<1> QED
  BY <1>5, <1>6, <1>7, <1>8, <1>9, <1>10, <1>11, <1>12, <1>13
  DEF ReceiveEvent, OnNciCallback

\* What the constructors leave is well typed.
LEMMA InitTypes ==
  ASSUME Init
  PROVE  TypeOK
<1>1. NciTypeOK
  BY DEF Init, NciInit, NciTypeOK, NciStates, Pointers, ZeroRf, RfParams, NoCmd, Cmd,
         Frame, NoCall, Call, NciStatus
<1>2. api \in ApiCalls
  BY ApiCallTypes DEF Init, NoApi, TagsStatus, TagsIds
<1> QED
  BY <1>1, <1>2 DEF Init, TypeOK, T2Init, T2TypeOK, TagsStates, TagsIds, TagIntfs, Pointers

\* So is what a restart leaves.
LEMMA RestartTypes ==
  ASSUME Restart
  PROVE  TypeOK'
<1>1. NciTypeOK'
  BY DEF Restart, NciTypeOK, NciStates, Pointers, ZeroRf, RfParams, NoCmd, Cmd,
         Frame, NoCall, Call, NciStatus
<1>2. api' \in ApiCalls
  BY ApiCallTypes DEF Restart, NoApi, TagsStatus, TagsIds
<1> QED
  BY <1>1, <1>2 DEF Restart, TypeOK, T2TypeOK, TagsStates, TagsIds, TagIntfs, Pointers

\* No step of the stack takes a variable out of its type.
LEMMA NextTypes ==
  ASSUME TypeOK, [Next]_vars
  PROVE  TypeOK'
<1>1. CASE Command
  BY <1>1, CommandStepTypes
<1>2. CASE TagsHandleEvent
  BY <1>2, HandleEventTypes
<1>3. CASE \E p \in Packets : ReceiveEvent(p)
  BY <1>3, ReceiveEventTypes, PacketsAssumption
<1>4. CASE Restart
  BY <1>4, RestartTypes
<1>5. CASE UNCHANGED vars
  BY <1>5 DEF vars, nciVars, t2Vars, tagsVars, TypeOK, NciTypeOK, T2TypeOK
<1> QED
  BY <1>1, <1>2, <1>3, <1>4, <1>5 DEF Next

\* The variables of the stack keep their types whatever the controller sends.
THEOREM TypeCorrect == Spec => []TypeOK
<1>1. Init => TypeOK
  BY InitTypes
<1>2. TypeOK /\ [Next]_vars => TypeOK'
  BY NextTypes
<1> QED
  BY <1>1, <1>2, PTL DEF Spec

-----------------------------------------------------------------------------
\* What NfcNci has done when it makes a callback: nothing to its RF state for
\* an event it refuses or does not interpret, and for a success, the one
\* transition of that message.
NciEffect ==
  /\ nciCb'.status # "OK" \/ nciCb'.fn \in {"cbData", "none"}
       => UNCHANGED <<nciState, rfIntf>>
  /\ nciCb'.fn = "cbError" => nciCb'.status # "OK"
  /\ nciCb'.fn = "cbData" => nciCb'.status = "OK"
  /\ nciCb'.status = "OK" =>
       /\ nciCb'.fn = "cbCoreReset"       => nciState' = "RFST_RESET"
       /\ nciCb'.fn = "cbCoreInit"        => nciState' = "RFST_IDLE"
       /\ nciCb'.fn = "cbRfDiscoverMap"   => nciState' = "RFST_IDLE"
       /\ nciCb'.fn = "cbRfDiscover"      => nciState' = "RFST_DISCOVERY"
       /\ nciCb'.fn = "cbRfDiscoverNtf"   => nciState' = "RFST_POLL_ACTIVE"
       /\ nciCb'.fn = "cbRfDeactivate"    => nciState' = "RFST_DISCOVERY"
       /\ nciCb'.fn = "cbRfDeactivateNtf" => nciState' = "RFST_DISCOVERY"

\* What reading one packet may do to the variables of NfcNci.
LEMMA NciEventEffect ==
  ASSUME NEW p \in PacketType, NciHandleEvent(p)
  PROVE  NciEffect
<1> USE DEF NciEffect, Callback, Call, Advance, Checked
<1>1. \A status : status # "OK" /\ Error(status) => NciEffect
  BY DEF Error
<1>2. Ignore => NciEffect
  BY DEF Ignore, NoCall
<1>3. HandleDataEvent(p) => NciEffect
  BY DEF HandleDataEvent
<1>4. RspCoreReset(p) => NciEffect
  BY DEF RspCoreReset, RspStatus
<1>5. RspCoreInit(p) => NciEffect
  BY DEF RspCoreInit, RspStatus
<1>6. RspRfDiscoverMap(p) => NciEffect
  BY DEF RspRfDiscoverMap, RspStatus
<1>7. RspRfDiscover(p) => NciEffect
  BY DEF RspRfDiscover, RspStatus
<1>8. RspRfDeactivate(p) => NciEffect
  BY DEF RspRfDeactivate, RspStatus
<1>9. NtfRfIntfActivated(p) => NciEffect
  BY DEF NtfRfIntfActivated
<1>10. NtfRfDeactivate(p) => NciEffect
  BY DEF NtfRfDeactivate
<1>11. HandleCoreEvent(p) => NciEffect
  BY <1>1, <1>2, <1>4, <1>5 DEF HandleCoreEvent
<1>12. HandleRfEvent(p) => NciEffect
  BY <1>1, <1>6, <1>7, <1>8, <1>9, <1>10 DEF HandleRfEvent
<1> QED
  BY <1>1, <1>3, <1>11, <1>12 DEF NciHandleEvent

\* Neither the client's commands nor the sending of commands move the RF state:
\* only an answer does.
LEMMA RfStateKept ==
  ASSUME Command \/ TagsHandleEvent
  PROVE  UNCHANGED nciState
BY DEF Command, CmdReset, CmdDiscover, CmdDeactivate, CmdDump, Rejected, Quiet,
       TagsHandleEvent

\* A packet moves the state of NfcTags and the RF state together, or neither.
LEMMA ReceiveEventKeepsStep ==
  ASSUME TypeOK, LayersAgree, NEW p \in PacketType, ReceiveEvent(p)
  PROVE  LayersAgree'
<1>1. NciEffect
  BY NciEventEffect DEF ReceiveEvent
<1>2. nciState \in NciStates
  BY DEF TypeOK, NciTypeOK
<1>3. CASE nciCb'.status # "OK" \/ nciCb'.fn \in {"cbData", "none"}
  <2>1. UNCHANGED <<nciState, tagsState>>
    BY <1>1, <1>3 DEF NciEffect, ReceiveEvent, OnNciCallback, CbCoreReset, CbCoreInit,
       CbRfDiscoverMap, CbRfDiscover, CbRfDiscoverNtf, CbRfDeactivate,
       CbRfDeactivateNtf, CbData, NoCallback, CalledBack, Progress, tagsVars
  <2> QED
    BY <2>1 DEF LayersAgree, StatesFor
<1>4. CASE nciCb'.status = "OK" /\ nciCb'.fn \notin {"cbData", "none"}
  <2> USE <1>1, <1>4 DEF NciEffect, CalledBack, Progress, LayersAgree, StatesFor
  <2>1. CASE CbCoreReset
    BY <2>1 DEF CbCoreReset
  <2>2. CASE CbCoreInit
    BY <2>2 DEF CbCoreInit
  <2>3. CASE CbRfDiscoverMap
    BY <2>3 DEF CbRfDiscoverMap
  <2>4. CASE CbRfDiscover
    BY <2>4 DEF CbRfDiscover
  <2>5. CASE CbRfDiscoverNtf
    BY <2>5 DEF CbRfDiscoverNtf
  <2>6. CASE CbRfDeactivate
    BY <2>6 DEF CbRfDeactivate
  <2>7. CASE CbRfDeactivateNtf
    BY <2>7 DEF CbRfDeactivateNtf
  <2>8. ~CbData(p) /\ ~NoCallback
    BY DEF CbData, NoCallback
  <2> QED
    BY <2>1, <2>2, <2>3, <2>4, <2>5, <2>6, <2>7, <2>8 DEF ReceiveEvent, OnNciCallback
<1> QED
  BY <1>3, <1>4

\* The state of NfcTags is one that belongs to the RF state of NfcNci, whatever
\* packets come and whatever the client calls (NfcTags.cpp and NfcNci.cpp keep
\* the two states separately).  Types are needed beside it: an RF state that is
\* none of the five would belong with nothing.
THEOREM LayersInStep == Spec => []LayersAgree
<1>1. Init => LayersAgree
  BY DEF Init, NciInit, LayersAgree, StatesFor
<1>2. TypeOK /\ LayersAgree /\ [Next]_vars => LayersAgree'
  <2> SUFFICES ASSUME TypeOK, LayersAgree, [Next]_vars PROVE LayersAgree'
    OBVIOUS
  <2>1. CASE Command
    <3>1. nciState \in NciStates /\ UNCHANGED nciState
      BY <2>1, RfStateKept DEF TypeOK, NciTypeOK
    <3> QED
      BY <2>1, <3>1 DEF Command, CmdReset, CmdDiscover, CmdDeactivate, CmdDump, Rejected,
         tagsVars, LayersAgree, StatesFor, NciStates
  <2>2. CASE TagsHandleEvent
    <3>1. UNCHANGED <<nciState, tagsState>>
      BY <2>2, RfStateKept DEF TagsHandleEvent, HandleReset, HandleDiscover,
         HandleDeactivate, HandleDump, HandleUnknown, tagsVars
    <3> QED
      BY <3>1 DEF LayersAgree, StatesFor
  <2>3. CASE \E p \in Packets : ReceiveEvent(p)
    BY <2>3, ReceiveEventKeepsStep, PacketsAssumption
  <2>4. CASE Restart
    BY <2>4 DEF Restart, LayersAgree, StatesFor
  <2>5. CASE UNCHANGED vars
    BY <2>5 DEF vars, nciVars, tagsVars, LayersAgree, StatesFor
  <2> QED
    BY <2>1, <2>2, <2>3, <2>4, <2>5 DEF Next
<1> QED
  BY <1>1, <1>2, TypeCorrect, PTL DEF Spec

-----------------------------------------------------------------------------
\* A status translated for the client is OK only when the NCI status was.
LEMMA OkTranslatesOk ==
  ASSUME NEW status
  PROVE  TagsStatusOf(status) = "OK" <=> status = "OK"
BY DEF TagsStatusOf

\* What a handler reports of a command it could not send is never a success.
LEMMA HandlersReportFailures ==
  ASSUME TagsHandleEvent
  PROVE  api'.fn = "none" \/ api'.status # "OK"
<1>1. \A fn, id, status :
        Notify(fn, id, status) => api'.fn = "none" \/ api'.status # "OK"
  BY OkTranslatesOk DEF Notify, NoUpcall, NoApi, Upcall, ApiCall
<1> QED
  BY <1>1 DEF TagsHandleEvent, HandleReset, HandleDiscover, HandleDeactivate,
     HandleDump, HandleUnknown, NoUpcall, NoApi, Upcall, ApiCall

\* A success reported to the client is that of the answer just read.
LEMMA ReceiveEventSuccess ==
  ASSUME NEW p \in PacketType, ReceiveEvent(p)
  PROVE  SuccessIsReal'
<1>1. NciEffect
  BY NciEventEffect DEF ReceiveEvent
<1> USE <1>1, OkTranslatesOk
    DEF NciEffect, SuccessIsReal, CalledBack, Notify, NoUpcall, NoApi, Upcall, ApiCall
<1>2. CASE CbCoreReset
  BY <1>2 DEF CbCoreReset
<1>3. CASE CbCoreInit
  BY <1>3 DEF CbCoreInit
<1>4. CASE CbRfDiscoverMap
  BY <1>4 DEF CbRfDiscoverMap
<1>5. CASE CbRfDiscover
  BY <1>5 DEF CbRfDiscover
<1>6. CASE CbRfDiscoverNtf
  BY <1>6 DEF CbRfDiscoverNtf
<1>7. CASE CbRfDeactivate
  BY <1>7 DEF CbRfDeactivate
<1>8. CASE CbRfDeactivateNtf
  BY <1>8 DEF CbRfDeactivateNtf
<1>9. CASE CbData(p)
  <2>1. DumpCall(p).fn = "cbDump"
    BY DEF DumpCall
  <2>2. api'.fn \in {"none", "cbDump"}
    BY <1>9, <2>1 DEF CbData
  <2> QED
    BY <2>2
<1>10. CASE NoCallback
  BY <1>10 DEF NoCallback
<1> QED
  BY <1>2, <1>3, <1>4, <1>5, <1>6, <1>7, <1>8, <1>9, <1>10
  DEF ReceiveEvent, OnNciCallback

\* cbReset, cbDiscover, cbDiscoverNtf and cbDeactivate with status OK are
\* called only when NfcNci is in the RF state they announce.
THEOREM SuccessIsAlwaysReal == Spec => []SuccessIsReal
<1>1. Init => SuccessIsReal
  BY DEF Init, SuccessIsReal, NoApi, ApiCall
<1>2. SuccessIsReal /\ [Next]_vars => SuccessIsReal'
  <2> SUFFICES ASSUME SuccessIsReal, [Next]_vars PROVE SuccessIsReal'
    OBVIOUS
  <2>1. CASE Command
    BY <2>1 DEF Command, CmdReset, CmdDiscover, CmdDeactivate, CmdDump, Rejected,
       Return, ApiCall, SuccessIsReal
  <2>2. CASE TagsHandleEvent
    <3>1. api'.fn = "none" \/ api'.status # "OK"
      BY <2>2, HandlersReportFailures
    <3> QED
      BY <3>1 DEF SuccessIsReal
  <2>3. CASE \E p \in Packets : ReceiveEvent(p)
    BY <2>3, ReceiveEventSuccess, PacketsAssumption
  <2>4. CASE Restart
    BY <2>4 DEF Restart, NoApi, ApiCall, SuccessIsReal
  <2>5. CASE UNCHANGED vars
    BY <2>5 DEF vars, nciVars, SuccessIsReal
  <2> QED
    BY <2>1, <2>2, <2>3, <2>4, <2>5 DEF Next
<1> QED
  BY <1>1, <1>2, PTL DEF Spec

\* A packet that is refused, malformed or carries a failure moves no state
\* machine: NfcNci's by NciEventEffect, the others' by the cases of the callback.
THEOREM RefusalIsInert == Spec => RefusedPacketChangesNothing
<1> DEFINE Inert == nciCb'.fn # "none" /\ nciCb'.status # "OK"
                      => UNCHANGED <<nciState, rfIntf, tagsState, tagsId, t2Vars>>
<1>1. [Next]_vars => [Inert]_vars
  <2> SUFFICES ASSUME Next PROVE Inert
    OBVIOUS
  <2>1. CASE Command
    <3>1. nciCb' = NoCall
      BY <2>1 DEF Command, CmdReset, CmdDiscover, CmdDeactivate, CmdDump, Rejected, Quiet
    <3> QED
      BY <3>1 DEF NoCall, Call
  <2>2. CASE TagsHandleEvent
    BY <2>2 DEF TagsHandleEvent, NoCall, Call
  <2>3. CASE \E p \in Packets : ReceiveEvent(p)
    <3>1. PICK p \in Packets : ReceiveEvent(p)
      BY <2>3
    <3>2. NciEffect
      BY <3>1, NciEventEffect, PacketsAssumption DEF ReceiveEvent
    <3>3. nciCb'.status # "OK" => UNCHANGED <<tagsState, tagsId, t2Vars>>
      BY <3>1, <3>2 DEF NciEffect, ReceiveEvent, OnNciCallback, CbCoreReset, CbCoreInit,
         CbRfDiscoverMap, CbRfDiscover, CbRfDiscoverNtf, CbRfDeactivate,
         CbRfDeactivateNtf, CbData, NoCallback, CalledBack, Progress, tagsVars
    <3> QED
      BY <3>2, <3>3 DEF NciEffect
  <2>4. CASE Restart
    BY <2>4 DEF Restart, NoCall, Call
  <2> QED
    BY <2>1, <2>2, <2>3, <2>4 DEF Next
<1> QED
  BY <1>1, PTL DEF Spec, RefusedPacketChangesNothing

-----------------------------------------------------------------------------
\* The pointer a callback carries is set by the message that causes it.
LEMMA NciEventData ==
  ASSUME NEW p \in PacketType, NciHandleEvent(p)
  PROVE  OkCallbackData'
<1> USE DEF OkCallbackData, Callback, Call, Advance, Checked
<1>1. \A status : status # "OK" /\ Error(status) => OkCallbackData'
  BY DEF Error
<1>2. Ignore => OkCallbackData'
  BY DEF Ignore, NoCall
<1>3. HandleDataEvent(p) => OkCallbackData'
  BY DEF HandleDataEvent
<1>4. RspCoreReset(p) => OkCallbackData'
  BY DEF RspCoreReset, RspStatus
<1>5. RspCoreInit(p) => OkCallbackData'
  BY DEF RspCoreInit, RspStatus
<1>6. RspRfDiscoverMap(p) => OkCallbackData'
  BY DEF RspRfDiscoverMap, RspStatus
<1>7. RspRfDiscover(p) => OkCallbackData'
  BY DEF RspRfDiscover, RspStatus
<1>8. RspRfDeactivate(p) => OkCallbackData'
  BY DEF RspRfDeactivate, RspStatus
<1>9. NtfRfIntfActivated(p) => OkCallbackData'
  BY DEF NtfRfIntfActivated
<1>10. NtfRfDeactivate(p) => OkCallbackData'
  BY DEF NtfRfDeactivate
<1>11. HandleCoreEvent(p) => OkCallbackData'
  BY <1>1, <1>2, <1>4, <1>5 DEF HandleCoreEvent
<1>12. HandleRfEvent(p) => OkCallbackData'
  BY <1>1, <1>6, <1>7, <1>8, <1>9, <1>10 DEF HandleRfEvent
<1> QED
  BY <1>1, <1>3, <1>11, <1>12 DEF NciHandleEvent

\* The one _data pointer never carries the structure of an earlier message
\* into a callback that reports a success.
THEOREM CallbackDataIsOwn == Spec => []OkCallbackData
<1>1. Init => OkCallbackData
  BY DEF Init, NciInit, NoCall, Call, OkCallbackData
<1>2. OkCallbackData /\ [Next]_vars => OkCallbackData'
  <2> SUFFICES ASSUME OkCallbackData, [Next]_vars PROVE OkCallbackData'
    OBVIOUS
  <2>1. CASE Command \/ TagsHandleEvent
    <3>1. nciCb' = NoCall
      BY <2>1 DEF Command, CmdReset, CmdDiscover, CmdDeactivate, CmdDump, Rejected, Quiet,
         TagsHandleEvent
    <3> QED
      BY <3>1 DEF NoCall, Call, OkCallbackData
  <2>2. CASE \E p \in Packets : ReceiveEvent(p)
    BY <2>2, NciEventData, PacketsAssumption DEF ReceiveEvent
  <2>3. CASE Restart
    BY <2>3 DEF Restart, NoCall, Call, OkCallbackData
  <2>4. CASE UNCHANGED vars
    BY <2>4 DEF vars, nciVars, OkCallbackData
  <2> QED
    BY <2>1, <2>2, <2>3, <2>4 DEF Next
<1> QED
  BY <1>1, <1>2, PTL DEF Spec

-----------------------------------------------------------------------------
\* Two multiples of a positive number that differ, differ by it at least.
LEMMA MultiplesApart ==
  ASSUME NEW k \in Nat \ {0}, NEW a \in Int, NEW b \in Int, k * a < k * b
  PROVE  k * a + k <= k * b
<1>1. a < b
  <2>1. CASE b <= a
    <3>1. PICK d \in Nat : a = b + d
      <4>1. a - b \in Nat /\ a = b + (a - b)
        BY <2>1
      <4> QED
        BY <4>1
    <3>2. k * a = k * b + k * d /\ k * d \in Nat
      BY <3>1
    <3> QED
      BY <3>2
  <2> QED
    BY <2>1
<1>2. PICK d \in Nat : b = a + 1 + d
  <2>1. b - a - 1 \in Nat /\ b = a + 1 + (b - a - 1)
    BY <1>1
  <2> QED
    BY <2>1
<1>3. k * b = k * a + k + k * d /\ k * d \in Nat
  BY <1>2
<1> QED
  BY <1>3

\* The READ after one that is not the last is within the memory, and the
\* uint8_t that holds its block does not wrap.
LEMMA NextReadInBounds ==
  ASSUME NEW block \in 0..255, block % ReadBlock = 0, block < LastRead
  PROVE  /\ (block + ReadBlock) % 256 = block + ReadBlock
         /\ block + ReadBlock <= LastRead
         /\ (block + ReadBlock) % ReadBlock = 0
<1>1. LastBlock \in 0..255 /\ ReadBlock \in Nat \ {0} /\ LastRead \in Int
  BY MemoryAssumption DEF LastRead
<1>2. PICK q \in Int : block = ReadBlock * q
  BY <1>1
<1>3. PICK m \in Int : LastBlock + 1 = ReadBlock * m
  BY <1>1, MemoryAssumption
<1>4. LastRead = ReadBlock * (m - 1)
  BY <1>1, <1>3 DEF LastRead
<1>5. block + ReadBlock <= LastRead
  BY <1>1, <1>2, <1>4, MultiplesApart
<1>6. (block + ReadBlock) % 256 = block + ReadBlock
  BY <1>1, <1>5 DEF LastRead
<1>7. (block + ReadBlock) % ReadBlock = 0
  BY <1>1
<1> QED
  BY <1>5, <1>6, <1>7

\* A command of NfcNci other than dataSend() sends no READ.
LEMMA CommandsSendNoData ==
  ASSUME NEW status, NEW type, NEW maps, NEW num,
         \/ CmdCoreReset(type, status)
         \/ CmdCoreInit(status)
         \/ CmdRfDiscoverMap(maps, status)
         \/ CmdRfDiscover(num, status)
         \/ CmdRfDeactivate(status)
  PROVE  tx'.cmd # "DATA"
BY DEF CmdCoreReset, CmdCoreInit, CmdRfDiscoverMap, CmdRfDiscover,
       CmdRfDeactivate, HwWrite, Refuse, NoCmd, Cmd

\* handleEvent() leaves _block where it is and sends a READ of no other block.
LEMMA HandleEventReads ==
  ASSUME TagsHandleEvent
  PROVE  t2Block' = t2Block /\ (tx'.cmd = "DATA" => tx'.block = t2Block)
<1>1. tx' = NoCmd => tx'.cmd # "DATA"
  BY DEF NoCmd, Cmd
<1>2. CASE HandleReset
  BY <1>1, <1>2, CommandsSendNoData DEF HandleReset, Wait, t2Vars
<1>3. CASE HandleDiscover
  BY <1>1, <1>3, CommandsSendNoData DEF HandleDiscover, Wait, t2Vars
<1>4. CASE HandleDeactivate
  BY <1>1, <1>4, CommandsSendNoData DEF HandleDeactivate, Wait, t2Vars
<1>5. CASE HandleDump
  <2>1. \A status : T2HandleDump(status) =>
          t2Block' = t2Block /\ (tx'.cmd = "DATA" => tx'.block = t2Block)
    BY <1>1 DEF T2HandleDump, DataSend, HwWrite, Refuse
  <2> QED
    BY <1>1, <1>5, <2>1 DEF HandleDump, t2Vars
<1>6. CASE HandleUnknown
  BY <1>1, <1>6 DEF HandleUnknown, t2Vars
<1> QED
  BY <1>2, <1>3, <1>4, <1>5, <1>6 DEF TagsHandleEvent

\* No step of the stack takes the dump out of the memory.
LEMMA NextReadsInBounds ==
  ASSUME TypeOK, DumpInBounds, [Next]_vars
  PROVE  DumpInBounds'
<1>1. LastRead' = LastRead
  BY DEF LastRead
<1>2. CASE Command
  <2>1. tx' = NoCmd
    BY <1>2 DEF Command, CmdReset, CmdDiscover, CmdDeactivate, CmdDump, Rejected, Quiet
  <2>2. t2Block' = t2Block \/ t2Block' = 0
    BY <1>2 DEF Command, CmdReset, CmdDiscover, CmdDeactivate, CmdDump, Rejected,
       IntfCmdDump, T2CmdDump, t2Vars
  <2> QED
    BY <1>1, <2>1, <2>2, MemoryAssumption DEF DumpInBounds, NoCmd, Cmd, LastRead
<1>3. CASE TagsHandleEvent
  BY <1>1, <1>3, HandleEventReads DEF DumpInBounds
<1>4. CASE \E p \in Packets : ReceiveEvent(p)
  <2>1. PICK p \in Packets : ReceiveEvent(p)
    BY <1>4
  <2>2. tx'.cmd # "DATA"
    BY <2>1 DEF ReceiveEvent, NciHandleEvent, NoCmd, Cmd
  <2>3. \/ t2Block' = t2Block
        \/ t2Block < LastRead /\ t2Block' = (t2Block + ReadBlock) % 256
    BY <2>1 DEF ReceiveEvent, OnNciCallback, CbCoreReset, CbCoreInit,
       CbRfDiscoverMap, CbRfDiscover, CbRfDiscoverNtf, CbRfDeactivate,
       CbRfDeactivateNtf, CbData, NoCallback, T2HandleDataDump, T2More, t2Vars
  <2>4. t2Block \in 0..255
    BY DEF TypeOK, T2TypeOK
  <2> QED
    BY <1>1, <2>2, <2>3, <2>4, NextReadInBounds DEF DumpInBounds
<1>5. CASE Restart
  BY <1>1, <1>5, MemoryAssumption DEF Restart, NoCmd, Cmd, DumpInBounds, LastRead
<1>6. CASE UNCHANGED vars
  BY <1>6 DEF vars, nciVars, t2Vars, DumpInBounds, LastRead
<1> QED
  BY <1>2, <1>3, <1>4, <1>5, <1>6 DEF Next

\* The dump of a type 2 tag never asks for a block outside its memory, however
\* many data packets come, at whatever time.
THEOREM DumpStaysInBounds == Spec => []DumpInBounds
<1>1. Init => DumpInBounds
  BY MemoryAssumption DEF Init, NciInit, T2Init, NoCmd, Cmd, DumpInBounds, LastRead
<1>2. TypeOK /\ DumpInBounds /\ [Next]_vars => DumpInBounds'
  BY NextReadsInBounds
<1> QED
  BY <1>1, <1>2, TypeCorrect, PTL DEF Spec
=============================================================================
