------------------------ MODULE NfcTagsSessionProofs -----------------------
(***************************************************************************)
(* NfcTags implements TagSession, for every controller, every client and   *)
(* every size of the memory of a tag.  The mapping is a function of the    *)
(* state, and the three invariants it needs are those of NfcTagsProofs.    *)
(***************************************************************************)
EXTENDS NfcTagsSession, NfcTagsProofs

\* A call across the client's interface other than a dump's data, as a
\* TagSession sees it.
LEMMA CallsSay ==
  ASSUME NEW fn, NEW status, NEW id, api' = ApiCall(fn, status, id)
  PROVE  Session!Says(fn, status, FALSE)
BY DEF ApiCall, Session!Says, ClientCall

\* No call is silence.
LEMMA NoCallSaysNothing ==
  ASSUME NoUpcall
  PROVE  Session!Silent
BY CallsSay DEF NoUpcall, NoApi, Session!Silent, Session!SaysOk

\* What a TagSession sees of the state is kept when its three parts are.
LEMMA SessionKept ==
  ASSUME UNCHANGED <<nciState, tagsState, t2Block>>
  PROVE  UNCHANGED <<Phase, Wanted, t2Block>>
BY DEF Phase, Wanted

\* A failure reported to the client, with the three parts kept, is a failure
\* of the session.
LEMMA FailureIsFail ==
  ASSUME UNCHANGED <<nciState, tagsState, t2Block>>,
         NEW fn \in {"cbReset", "cbDiscover", "cbDiscoverNtf", "cbDeactivate", "cbDump"},
         NEW status \in TagsStatus \ {"OK"}, NEW id,
         api' = ApiCall(fn, status, id)
  PROVE  Session!Fail
<1>1. Session!Says(fn, status, FALSE)
  BY CallsSay
<1>2. UNCHANGED <<Phase, Wanted, t2Block>>
  BY SessionKept
<1>3. Session!Refuse(fn, status)
  BY <1>1, <1>2 DEF Session!Refuse
<1> QED
  BY <1>3 DEF Session!Fail, Session!Callbacks, TagsStatus

\* The same for a call that is made only when there is a failure to report.
LEMMA NotifyIsFailOrQuiet ==
  ASSUME UNCHANGED <<nciState, tagsState, t2Block>>,
         NEW fn \in {"cbReset", "cbDiscover", "cbDiscoverNtf", "cbDeactivate", "cbDump"},
         NEW status, NEW id, Notify(fn, id, status)
  PROVE  Session!Fail \/ Session!Quiet
<1>1. CASE status = "OK"
  BY <1>1, NoCallSaysNothing, SessionKept DEF Notify, Session!Quiet
<1>2. CASE status # "OK"
  <2>1. TagsStatusOf(status) \in TagsStatus \ {"OK"}
    BY <1>2, TranslatedTypes, OkTranslatesOk
  <2> QED
    BY <1>2, <2>1, FailureIsFail DEF Notify, Upcall
<1> QED
  BY <1>1, <1>2

-----------------------------------------------------------------------------
\* Which phase an accepted command needs, in terms of the two states.
LEMMA Readiness ==
  ASSUME TypeOK, LayersAgree
  PROVE  /\ Session!CanDiscover <=> tagsState = "INIT_DONE"
         /\ Session!CanDeactivate <=> tagsState \in {"DISCOVER_ACTIVATED", "DUMP"}
         /\ Session!CanDump <=> tagsState = "DISCOVER_ACTIVATED"
<1>1. nciState \in NciStates
  BY DEF TypeOK, NciTypeOK
<1> QED
  BY <1>1 DEF NciStates, LayersAgree, StatesFor, Phase, Wanted, Session!CanDiscover,
     Session!CanDeactivate, Session!CanDump

\* A command that is refused is refused by the session.
LEMMA RejectedIsRefused ==
  ASSUME NEW fn, Rejected(fn)
  PROVE  Session!Refuse(fn, "REJECTED")
<1>1. Session!Says(fn, "REJECTED", FALSE)
  BY CallsSay DEF Rejected, Return
<1>2. UNCHANGED <<Phase, Wanted, t2Block>>
  BY SessionKept DEF Rejected, Quiet, tagsVars, t2Vars
<1> QED
  BY <1>1, <1>2 DEF Session!Refuse

\* A command that is accepted only changes what is wanted.
LEMMA CommandAccepted ==
  ASSUME NEW fn, NEW command, Return(fn, "OK"), UNCHANGED nciState, Wanted' = command
  PROVE  Session!Accept(fn, command)
<1>1. Session!SaysOk(fn)
  BY CallsSay DEF Return, Session!SaysOk
<1> QED
  BY <1>1 DEF Session!Accept, Phase

\* A command of the client is a request of the session, or is refused by it.
LEMMA CommandIsSession ==
  ASSUME TypeOK, LayersAgree, Command
  PROVE  Session!Next
<1>1. CASE CmdReset
  <2>1. Wanted' = "reset"
    BY <1>1 DEF CmdReset, Wanted
  <2>2. Session!Accept("cmdReset", "reset") /\ UNCHANGED t2Block
    BY <1>1, <2>1, CommandAccepted DEF CmdReset, Quiet, t2Vars
  <2> QED
    BY <2>2 DEF Session!Next, Session!Reset
<1>2. CASE CmdDiscover
  <2>1. CASE tagsState # "INIT_DONE"
    BY <1>2, <2>1, Readiness, RejectedIsRefused
    DEF CmdDiscover, Session!Discover, Session!Next
  <2>2. CASE tagsState = "INIT_DONE"
    <3>1. Wanted' = "discover"
      BY <1>2, <2>2 DEF CmdDiscover, Wanted
    <3>2. Session!Accept("cmdDiscover", "discover") /\ UNCHANGED t2Block
      BY <1>2, <2>2, <3>1, CommandAccepted DEF CmdDiscover, Quiet, t2Vars
    <3> QED
      BY <2>2, <3>2, Readiness DEF Session!Discover, Session!Next
  <2> QED
    BY <2>1, <2>2
<1>3. CASE CmdDeactivate
  <2>1. CASE tagsState \notin {"DISCOVER_ACTIVATED", "DUMP"}
    BY <1>3, <2>1, Readiness, RejectedIsRefused
    DEF CmdDeactivate, Session!Deactivate, Session!Next
  <2>2. CASE tagsState \in {"DISCOVER_ACTIVATED", "DUMP"}
    <3>1. Wanted' = "deactivate"
      BY <1>3, <2>2 DEF CmdDeactivate, Wanted
    <3>2. Session!Accept("cmdDeactivate", "deactivate") /\ UNCHANGED t2Block
      BY <1>3, <2>2, <3>1, CommandAccepted DEF CmdDeactivate, Quiet, t2Vars
    <3> QED
      BY <2>2, <3>2, Readiness DEF Session!Deactivate, Session!Next
  <2> QED
    BY <2>1, <2>2
<1>4. CASE CmdDump
  <2>1. CASE tagsState # "DISCOVER_ACTIVATED"
    BY <1>4, <2>1, Readiness, RejectedIsRefused DEF CmdDump, Session!Dump, Session!Next
  <2>2. CASE tagsState = "DISCOVER_ACTIVATED"
    <3>1. CASE Return("cmdDump", "FAILED") /\ UNCHANGED <<tagsState, t2Block>>
      <4>1. Session!Says("cmdDump", "FAILED", FALSE)
        BY <3>1, CallsSay DEF Return
      <4>2. UNCHANGED <<Phase, Wanted, t2Block>>
        BY <1>4, <2>2, <3>1, SessionKept DEF CmdDump, Quiet
      <4> QED
        BY <2>2, <4>1, <4>2, Readiness DEF Session!Refuse, Session!Dump, Session!Next
    <3>2. CASE Return("cmdDump", "OK") /\ tagsState' = "DUMP" /\ t2Block' = 0
      <4>1. Wanted' = "dump"
        BY <3>2 DEF Wanted
      <4>2. UNCHANGED nciState
        BY <1>4, <2>2 DEF CmdDump, Quiet
      <4>3. Session!Accept("cmdDump", "dump")
        BY <3>2, <4>1, <4>2, CommandAccepted
      <4> QED
        BY <2>2, <3>2, <4>3, Readiness DEF Session!Dump, Session!Next
    <3> QED
      BY <1>4, <2>2, <3>1, <3>2 DEF CmdDump, IntfCmdDump, T2CmdDump, t2Vars
  <2> QED
    BY <2>1, <2>2
<1> QED
  BY <1>1, <1>2, <1>3, <1>4 DEF Command

-----------------------------------------------------------------------------
\* A turn of NfcTags::handleEvent() moves nothing the client knows of.
LEMMA HandleEventIsSession ==
  ASSUME TagsHandleEvent
  PROVE  Session!Next
<1>1. UNCHANGED <<nciState, tagsState, t2Block>>
  BY HandleEventReads DEF TagsHandleEvent, HandleReset, HandleDiscover,
     HandleDeactivate, HandleDump, HandleUnknown, tagsVars
<1>2. Session!Fail \/ Session!Quiet
  <2>1. CASE HandleReset
    BY <1>1, <2>1, NotifyIsFailOrQuiet DEF HandleReset
  <2>2. CASE HandleDiscover
    BY <1>1, <2>2, NotifyIsFailOrQuiet DEF HandleDiscover
  <2>3. CASE HandleDeactivate
    BY <1>1, <2>3, NotifyIsFailOrQuiet DEF HandleDeactivate
  <2>4. NoUpcall => Session!Quiet
    BY <1>1, NoCallSaysNothing, SessionKept DEF Session!Quiet
  <2>5. CASE HandleDump
    BY <1>1, <2>4, <2>5, FailureIsFail DEF HandleDump, Upcall
  <2>6. CASE HandleUnknown
    BY <2>4, <2>6 DEF HandleUnknown
  <2> QED
    BY <2>1, <2>2, <2>3, <2>5, <2>6 DEF TagsHandleEvent
<1> QED
  BY <1>2 DEF Session!Next

-----------------------------------------------------------------------------
\* In which RF state NfcNci takes a message for what it is.
NciNeeds ==
  nciCb'.status = "OK" =>
    /\ nciCb'.fn = "cbCoreReset"       => nciState = "NONE"
    /\ nciCb'.fn = "cbCoreInit"        => nciState = "RFST_RESET"
    /\ nciCb'.fn = "cbRfDiscoverMap"   => nciState = "RFST_IDLE"
    /\ nciCb'.fn = "cbRfDiscover"      => nciState = "RFST_IDLE"
    /\ nciCb'.fn = "cbRfDiscoverNtf"   => nciState = "RFST_DISCOVERY"
    /\ nciCb'.fn = "cbRfDeactivate"    => nciState = "RFST_POLL_ACTIVE"
    /\ nciCb'.fn = "cbRfDeactivateNtf" => nciState = "RFST_DISCOVERY"

\* What a callback with status OK says of the packet and of the RF state.
LEMMA NciEventNeeds ==
  ASSUME NEW p \in PacketType, NciHandleEvent(p)
  PROVE  NciNeeds
<1> USE DEF NciNeeds, Callback, Call, Checked
<1>1. \A status : Error(status) => NciNeeds
  BY DEF Error
<1>2. Ignore => NciNeeds
  BY DEF Ignore, NoCall
<1>3. HandleDataEvent(p) => NciNeeds
  BY DEF HandleDataEvent
<1>4. RspCoreReset(p) => NciNeeds
  BY DEF RspCoreReset, RspStatus
<1>5. RspCoreInit(p) => NciNeeds
  BY DEF RspCoreInit, RspStatus
<1>6. RspRfDiscoverMap(p) => NciNeeds
  BY DEF RspRfDiscoverMap, RspStatus
<1>7. RspRfDiscover(p) => NciNeeds
  BY DEF RspRfDiscover, RspStatus
<1>8. RspRfDeactivate(p) => NciNeeds
  BY DEF RspRfDeactivate, RspStatus
<1>9. NtfRfIntfActivated(p) => NciNeeds
  BY DEF NtfRfIntfActivated
<1>10. NtfRfDeactivate(p) => NciNeeds
  BY DEF NtfRfDeactivate
<1>11. HandleCoreEvent(p) => NciNeeds
  BY <1>1, <1>2, <1>4, <1>5 DEF HandleCoreEvent
<1>12. HandleRfEvent(p) => NciNeeds
  BY <1>1, <1>6, <1>7, <1>8, <1>9, <1>10 DEF HandleRfEvent
<1> QED
  BY <1>1, <1>3, <1>11, <1>12 DEF NciHandleEvent

\* An answer that is a success is a step from phase to phase, and the client
\* hears of it in the callback of that step.
LEMMA SuccessIsAnswer ==
  ASSUME NEW p \in PacketType, ReceiveEvent(p), nciCb'.status = "OK",
         nciCb'.fn \notin {"cbData", "none", "cbError"}
  PROVE  Session!Answer
<1>1. NciEffect /\ NciNeeds
  BY NciEventEffect, NciEventNeeds DEF ReceiveEvent
<1>2. t2Block' = t2Block
  BY DEF ReceiveEvent, OnNciCallback, CbCoreReset, CbCoreInit, CbRfDiscoverMap,
     CbRfDiscover, CbRfDiscoverNtf, CbRfDeactivate, CbRfDeactivateNtf, CbData,
     NoCallback, CalledBack, t2Vars
<1>3. \A fn, id : api' = ApiCall(fn, "OK", id) => Session!SaysOk(fn)
  BY CallsSay DEF Session!SaysOk
<1>4. \A fn, id : Notify(fn, id, "OK") => Session!SaysOk("none")
  BY NoCallSaysNothing DEF Notify, Session!Silent
<1>5. TagsStatusOf("OK") = "OK"
  BY DEF TagsStatusOf
<1> USE <1>1, <1>2
    DEF NciEffect, NciNeeds, CalledBack, Progress, Phase, Wanted, Session!Answer,
        Session!Reach
<1>6. CASE CbCoreReset
  BY <1>4, <1>6 DEF CbCoreReset
<1>7. CASE CbCoreInit
  BY <1>3, <1>5, <1>7 DEF CbCoreInit, Upcall
<1>8. CASE CbRfDiscoverMap
  BY <1>4, <1>8 DEF CbRfDiscoverMap
<1>9. CASE CbRfDiscover
  BY <1>3, <1>5, <1>9 DEF CbRfDiscover, Upcall
<1>10. CASE CbRfDiscoverNtf
  BY <1>3, <1>5, <1>10 DEF CbRfDiscoverNtf, Upcall
<1>11. CASE CbRfDeactivate
  BY <1>4, <1>11 DEF CbRfDeactivate
<1>12. CASE CbRfDeactivateNtf
  BY <1>3, <1>5, <1>12 DEF CbRfDeactivateNtf, Upcall
<1>13. ~CbData(p) /\ ~NoCallback
  BY DEF CbData, NoCallback
<1> QED
  BY <1>6, <1>7, <1>8, <1>9, <1>10, <1>11, <1>12, <1>13 DEF ReceiveEvent, OnNciCallback

\* Anything but a success or data leaves the session where it is.
LEMMA RefusalIsFailOrQuiet ==
  ASSUME NEW p \in PacketType, ReceiveEvent(p),
         nciCb'.status # "OK" \/ nciCb'.fn \in {"none", "cbError"}
  PROVE  Session!Fail \/ Session!Quiet
<1>1. NciEffect
  BY NciEventEffect DEF ReceiveEvent
<1>2. UNCHANGED <<nciState, tagsState, t2Block>>
  BY <1>1 DEF NciEffect, ReceiveEvent, OnNciCallback, CbCoreReset, CbCoreInit,
     CbRfDiscoverMap, CbRfDiscover, CbRfDiscoverNtf, CbRfDeactivate,
     CbRfDeactivateNtf, CbData, NoCallback, CalledBack, Progress, tagsVars, t2Vars
<1>3. CASE NoCallback
  BY <1>2, <1>3, NoCallSaysNothing, SessionKept DEF NoCallback, Session!Quiet
<1>4. CASE ~NoCallback
  <2>1. ~CbData(p) /\ nciCb'.status # "OK"
    BY <1>1, <1>4 DEF NciEffect, CbData, CalledBack, ReceiveEvent, OnNciCallback,
       CbCoreReset, CbCoreInit, CbRfDiscoverMap, CbRfDiscover, CbRfDiscoverNtf,
       CbRfDeactivate, CbRfDeactivateNtf
  <2>2. TagsStatusOf(nciCb'.status) \in TagsStatus \ {"OK"}
    BY <2>1, TranslatedTypes, OkTranslatesOk
  <2>3. \A fn \in {"cbReset", "cbDiscover", "cbDiscoverNtf", "cbDeactivate"} : \A id :
          /\ Upcall(fn, TagsStatusOf(nciCb'.status), id) => Session!Fail
          /\ Notify(fn, id, nciCb'.status) => Session!Fail
    BY <1>2, <2>1, <2>2, FailureIsFail DEF Upcall, Notify
  <2> QED
    BY <1>4, <2>1, <2>3 DEF ReceiveEvent, OnNciCallback, CbCoreReset, CbCoreInit,
       CbRfDiscoverMap, CbRfDiscover, CbRfDiscoverNtf, CbRfDeactivate, CbRfDeactivateNtf
<1> QED
  BY <1>3, <1>4

\* Data moves a dump on to the next READ or ends it.
LEMMA DataIsData ==
  ASSUME TypeOK, DumpInBounds, NEW p \in PacketType, ReceiveEvent(p),
         nciCb'.fn = "cbData"
  PROVE  Session!Data \/ Session!Quiet
<1>1. NciEffect
  BY NciEventEffect DEF ReceiveEvent
<1>2. CbData(p)
  BY DEF ReceiveEvent, OnNciCallback, CbCoreReset, CbCoreInit, CbRfDiscoverMap,
     CbRfDiscover, CbRfDiscoverNtf, CbRfDeactivate, CbRfDeactivateNtf, NoCallback,
     CalledBack
<1>3. UNCHANGED <<nciState, tagsState>>
  BY <1>1, <1>2 DEF NciEffect, CbData, tagsVars
<1>4. UNCHANGED <<Phase, Wanted>>
  BY <1>3 DEF Phase, Wanted
<1>5. CASE ~(tagIntf = "T2" /\ t2Id = "DUMP")
  BY <1>2, <1>4, <1>5, NoCallSaysNothing DEF CbData, t2Vars, Session!Quiet
<1>6. CASE tagIntf = "T2" /\ t2Id = "DUMP"
  <2>1. Session!Says("cbDump", "OK", T2More(p))
    BY <1>2, <1>6 DEF CbData, DumpCall, Session!Says, ClientCall
  <2>2. CASE T2More(p)
    <3>1. t2Block < LastRead /\ T2More(p) = TRUE
      BY <2>2 DEF T2More, PacketType
    <3>2. t2Block' = t2Block + ReadBlock
      BY <1>2, <1>6, <2>2, <3>1, NextReadInBounds
      DEF CbData, T2HandleDataDump, TypeOK, T2TypeOK, DumpInBounds
    <3> QED
      BY <1>4, <2>1, <3>1, <3>2 DEF Session!Data
  <2>3. CASE ~T2More(p)
    <3>1. T2More(p) = FALSE
      BY <2>3 DEF T2More, PacketType
    <3>2. t2Block' = t2Block
      BY <1>2, <1>6, <2>3 DEF CbData, T2HandleDataDump
    <3> QED
      BY <1>4, <2>1, <3>1, <3>2 DEF Session!Data
  <2> QED
    BY <2>2, <2>3
<1> QED
  BY <1>5, <1>6

\* A restart is one of the session.
LEMMA RestartIsSession ==
  ASSUME Restart
  PROVE  Session!Restart
<1>1. Session!Silent
  BY CallsSay DEF Restart, NoApi, Session!Silent, Session!SaysOk
<1> QED
  BY <1>1 DEF Restart, Phase, Wanted, Session!Restart

-----------------------------------------------------------------------------
\* The stack below the client is a TagSession.
THEOREM ImplementsSession == Spec => SessionSpec
<1>1. Init => Session!Init
  BY DEF Init, NciInit, T2Init, NoApi, ApiCall, Phase, Wanted, ClientCall, Session!Init
<1>2. TypeOK /\ LayersAgree /\ DumpInBounds /\ [Next]_vars
        => [Session!Next]_Session!sessionVars
  <2> SUFFICES ASSUME TypeOK, LayersAgree, DumpInBounds, [Next]_vars
               PROVE  [Session!Next]_Session!sessionVars
    OBVIOUS
  <2>1. CASE Command
    BY <2>1, CommandIsSession
  <2>2. CASE TagsHandleEvent
    BY <2>2, HandleEventIsSession
  <2>3. CASE \E p \in Packets : ReceiveEvent(p)
    <3>1. PICK p \in PacketType : ReceiveEvent(p)
      BY <2>3, PacketsAssumption
    <3>2. CASE nciCb'.fn = "cbData"
      BY <3>1, <3>2, DataIsData DEF Session!Next
    <3>3. CASE nciCb'.status # "OK" \/ nciCb'.fn \in {"none", "cbError"}
      BY <3>1, <3>3, RefusalIsFailOrQuiet DEF Session!Next
    <3>4. CASE nciCb'.status = "OK" /\ nciCb'.fn \notin {"cbData", "none", "cbError"}
      BY <3>1, <3>4, SuccessIsAnswer DEF Session!Next
    <3> QED
      BY <3>2, <3>3, <3>4
  <2>4. CASE Restart
    BY <2>4, RestartIsSession DEF Session!Next
  <2>5. CASE UNCHANGED vars
    BY <2>5, SessionKept DEF vars, nciVars, t2Vars, tagsVars, ClientCall,
       Session!sessionVars
  <2> QED
    BY <2>1, <2>2, <2>3, <2>4, <2>5 DEF Next
<1> QED
  BY <1>1, <1>2, TypeCorrect, LayersInStep, DumpStaysInBounds, PTL
  DEF Spec, SessionSpec, Session!Spec
=============================================================================
