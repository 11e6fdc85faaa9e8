------------------------------ MODULE NfcNci -------------------------------
(***************************************************************************)
(* The NCI layer, src/src/nci/NfcNci.cpp: commands are written only in the *)
(* RF state that allows them, every packet read from the controller is     *)
(* parsed, checked against the RF state, and handed to the client in       *)
(* exactly one callback (or none).                                         *)
(*                                                                         *)
(* Each method is an action; a method that returns a status takes it as    *)
(* its last parameter and constrains it.  A caller in a higher layer       *)
(* conjoins the action with its own.  tx and nciCb are the layer's         *)
(* outputs in the last step: the command frame written to NfcHw, and the   *)
(* call made on the NfcNciCb object.                                       *)
(***************************************************************************)
EXTENDS NciDefs

VARIABLES
  nciState,  \* _state
  nciData,   \* _data: the member (or the receive buffer) it points at
  rfIntf,    \* _rf_intf.specific
  tx,        \* the command written to the controller in this step
  nciCb      \* the callback made in this step

nciVars == <<nciState, nciData, rfIntf, tx, nciCb>>

NciStates ==
  {"NONE", "RFST_RESET", "RFST_IDLE", "RFST_DISCOVERY", "RFST_POLL_ACTIVE"}

Pointers == {"NULL", "reset", "rfIntf", "deactivate", "rxBuf"}

Callbacks == {"cbCoreReset", "cbCoreInit", "cbRfDiscoverMap", "cbRfDiscover",
              "cbRfDiscoverNtf", "cbRfDeactivate", "cbRfDeactivateNtf",
              "cbData", "cbError"}

Call(fn, status, data) == [fn |-> fn, status |-> status, data |-> data]
NoCall == Call("none", "OK", "NULL")

NciTypeOK ==
  /\ nciState \in NciStates
  /\ nciData \in Pointers
  /\ rfIntf \in RfParams
  /\ tx \in Frame
  /\ nciCb \in [fn : Callbacks \cup {"none"}, status : NciStatus, data : Pointers]

\* After setup(): the callback object is registered, nothing was exchanged.
\* The objects are globals, so _rf_intf starts out zeroed.
NciInit ==
  /\ nciState = "NONE"
  /\ nciData = "NULL"
  /\ rfIntf = ZeroRf
  /\ tx = NoCmd
  /\ nciCb = NoCall

-----------------------------------------------------------------------------
\* Commands.  None of them changes the RF state: only the answer does.

\* Hand a frame to NfcHw::write; a short write is reported as FAILED.
HwWrite(frame, status) ==
  /\ status \in WriteResults
  /\ tx' = IF status = "OK" THEN frame ELSE NoCmd

Refuse(reason, status) ==
  /\ status = reason
  /\ tx' = NoCmd

CmdCoreReset(type, status) ==
  IF nciState # "NONE" THEN Refuse("REJECTED", status)
  ELSE IF type \notin {"KEEP_CFG", "RESET_CFG"} THEN Refuse("INVALID_PARAM", status)
  ELSE HwWrite(Cmd("CORE_RESET"), status)

CmdCoreInit(status) ==
  IF nciState # "RFST_RESET" THEN Refuse("REJECTED", status)
  ELSE HwWrite(Cmd("CORE_INIT"), status)

CmdRfDiscoverMap(maps, status) ==
  IF nciState # "RFST_IDLE" THEN Refuse("REJECTED", status)
  ELSE IF maps = "NULL" THEN Refuse("INVALID_PARAM", status)
  ELSE HwWrite(Cmd("RF_DISCOVER_MAP"), status)

CmdRfDiscover(num, status) ==
  IF nciState # "RFST_IDLE" THEN Refuse("REJECTED", status)
  ELSE IF num = 0 THEN Refuse("INVALID_PARAM", status)
  ELSE HwWrite(Cmd("RF_DISCOVER"), status)

CmdRfDeactivate(status) ==
  IF nciState # "RFST_POLL_ACTIVE" THEN Refuse("REJECTED", status)
  ELSE HwWrite(Cmd("RF_DEACTIVATE"), status)

\* The only payload the stack sends is the two bytes of a READ command.
DataSend(block, status) ==
  IF nciState # "RFST_POLL_ACTIVE" THEN Refuse("REJECTED", status)
  ELSE HwWrite([cmd |-> "DATA", block |-> block], status)

-----------------------------------------------------------------------------
\* Responses and notifications.  The callback gets _data as it stands when
\* the handler returns, whether or not the handler has set it.

Callback(fn, status) == nciCb' = Call(fn, status, nciData')

\* cbError passes a NULL pointer; the RF state is left alone.
Error(status) ==
  /\ nciCb' = Call("cbError", status, "NULL")
  /\ UNCHANGED <<nciState, nciData, rfIntf>>

\* The two checks every handler starts with: the RF state, then the length.
Checked(p, required) ==
  IF nciState # required THEN "REJECTED"
  ELSE IF p.len # "GOOD" THEN "SYNTAX_ERROR"
  ELSE "OK"

\* A response handler goes on to the status byte.
RspStatus(p, required) ==
  IF Checked(p, required) = "OK" THEN p.status ELSE Checked(p, required)

\* On success, and only then, move to a state and publish a structure.
Advance(status, state, data) ==
  IF status = "OK" THEN nciState' = state /\ nciData' = data
                   ELSE UNCHANGED <<nciState, nciData>>

RspCoreReset(p) ==
  LET status == RspStatus(p, "NONE") IN
  /\ Advance(status, "RFST_RESET", "reset")
  /\ Callback("cbCoreReset", status)
  /\ UNCHANGED rfIntf

\* Mutant of RspCoreInit: _data is not cleared.
RspCoreInitKeepsData(p) ==
  LET status == RspStatus(p, "RFST_RESET") IN
  /\ Advance(status, "RFST_IDLE", nciData)
  /\ Callback("cbCoreInit", status)
  /\ UNCHANGED rfIntf

RspCoreInit(p) ==
  LET status == RspStatus(p, "RFST_RESET") IN
  /\ Advance(status, "RFST_IDLE", "NULL")
  /\ Callback("cbCoreInit", status)
  /\ UNCHANGED rfIntf

\* The one response that clears _data whatever its status byte says.
RspRfDiscoverMap(p) ==
  /\ nciData' = IF Checked(p, "RFST_IDLE") = "OK" THEN "NULL" ELSE nciData
  /\ Callback("cbRfDiscoverMap", RspStatus(p, "RFST_IDLE"))
  /\ UNCHANGED <<nciState, rfIntf>>

RspRfDiscover(p) ==
  LET status == RspStatus(p, "RFST_IDLE") IN
  /\ Advance(status, "RFST_DISCOVERY", "NULL")
  /\ Callback("cbRfDiscover", status)
  /\ UNCHANGED rfIntf

\* Mutant of RspRfDeactivate: to IDLE, as after a deactivation of another type.
RspRfDeactivateToIdle(p) ==
  LET status == RspStatus(p, "RFST_POLL_ACTIVE") IN
  /\ Advance(status, "RFST_IDLE", "NULL")
  /\ Callback("cbRfDeactivate", status)
  /\ UNCHANGED rfIntf

RspRfDeactivate(p) ==
  LET status == RspStatus(p, "RFST_POLL_ACTIVE") IN
  /\ Advance(status, "RFST_DISCOVERY", "NULL")
  /\ Callback("cbRfDeactivate", status)
  /\ UNCHANGED rfIntf

\* Fields the packet does not carry keep the value of an earlier tag: all of
\* them without technology parameters, all but the type in a mode other than
\* POLL_A, and sel_res when its length is 0.  The code copies as many bytes of
\* NFCID as the packet says; the lengths of RfParams are those that fit.
SetRfTechSpecParams(old, p) ==
  IF ~p.tech THEN old
  ELSE IF p.rf.type # "POLL_A" THEN [old EXCEPT !.type = p.rf.type]
  ELSE IF p.rf.selResLen = 0 THEN [p.rf EXCEPT !.mifare = old.mifare]
  ELSE p.rf

\* Mutant of NtfRfIntfActivated: _rf_intf is filled before the length is checked.
NtfRfIntfActivatedFillsFirst(p) ==
  LET status == Checked(p, "RFST_DISCOVERY") IN
  /\ Advance(status, "RFST_POLL_ACTIVE", "rfIntf")
  /\ rfIntf' = IF nciState = "RFST_DISCOVERY" THEN SetRfTechSpecParams(rfIntf, p)
                                              ELSE rfIntf
  /\ Callback("cbRfDiscoverNtf", status)

NtfRfIntfActivated(p) ==
  LET status == Checked(p, "RFST_DISCOVERY") IN
  /\ Advance(status, "RFST_POLL_ACTIVE", "rfIntf")
  /\ rfIntf' = IF status = "OK" THEN SetRfTechSpecParams(rfIntf, p) ELSE rfIntf
  /\ Callback("cbRfDiscoverNtf", status)

\* Mutant of NtfRfDeactivate: the RF state is not checked.
NtfRfDeactivateAnyState(p) ==
  LET status == Checked(p, nciState) IN
  /\ Advance(status, nciState, "deactivate")
  /\ Callback("cbRfDeactivateNtf", status)
  /\ UNCHANGED rfIntf

NtfRfDeactivate(p) ==
  LET status == Checked(p, "RFST_DISCOVERY") IN
  /\ Advance(status, nciState, "deactivate")
  /\ Callback("cbRfDeactivateNtf", status)
  /\ UNCHANGED rfIntf

\* Data is handed on in whatever RF state it comes.
HandleDataEvent(p) ==
  /\ nciData' = "rxBuf"
  /\ Callback("cbData", "OK")
  /\ UNCHANGED <<nciState, rfIntf>>

\* Not an error and not a message of interest: no callback at all.
Ignore ==
  /\ nciCb' = NoCall
  /\ UNCHANGED <<nciState, nciData, rfIntf>>

\* Credits are ignored, and so is a CORE packet that is neither a response
\* nor a notification (the switch on mt has no default).
HandleCoreEvent(p) ==
  CASE p.mt = "RSP" /\ p.oid = "CORE_RESET"   -> RspCoreReset(p)
    [] p.mt = "RSP" /\ p.oid = "CORE_INIT"    -> RspCoreInit(p)
    [] p.mt = "NTF" /\ p.oid = "CONN_CREDITS" -> Ignore
    [] p.mt = "CMD"                           -> Ignore
    [] OTHER                                  -> Error("UNKNOWN_OID")

HandleRfEvent(p) ==
  CASE p.mt = "RSP" /\ p.oid = "RF_DISCOVER_MAP"   -> RspRfDiscoverMap(p)
    [] p.mt = "RSP" /\ p.oid = "RF_DISCOVER"       -> RspRfDiscover(p)
    [] p.mt = "RSP" /\ p.oid = "RF_DEACTIVATE"     -> RspRfDeactivate(p)
    [] p.mt = "NTF" /\ p.oid = "RF_INTF_ACTIVATED" -> NtfRfIntfActivated(p)
    [] p.mt = "NTF" /\ p.oid = "RF_DEACTIVATE"     -> NtfRfDeactivate(p)
    [] p.mt = "CMD"                                -> Error("SYNTAX_ERROR")
    [] OTHER                                       -> Error("UNKNOWN_OID")

\* One call of handleEvent() that finds packet p: an empty payload reads as
\* a null event, a segmented message is refused before it is dispatched.
NciHandleEvent(p) ==
  /\ tx' = NoCmd
  /\ CASE p.len = "NONE" -> Error("FAILED")
       [] p.len # "NONE" /\ p.frag -> Error("SYNTAX_ERROR")
       [] OTHER ->
            CASE p.mt = "DATA" -> HandleDataEvent(p)
              [] p.mt # "DATA" /\ p.gid = "CORE" -> HandleCoreEvent(p)
              [] p.mt # "DATA" /\ p.gid = "RF_MANAGE" -> HandleRfEvent(p)
              [] OTHER -> Error("UNKNOWN_GID")
=============================================================================
