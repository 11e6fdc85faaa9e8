------------------------------ MODULE NfcTags ------------------------------
(***************************************************************************)
(* The tag layer, src/src/tags/NfcTags.cpp: it turns the four commands of  *)
(* its client (reset, discover, deactivate, dump) into sequences of NCI    *)
(* commands, follows the answers through the callbacks of NfcNci, and      *)
(* reports to the client through the callbacks of NfcTagsCb.               *)
(*                                                                         *)
(* The program is a single thread and every callback is a plain call, so a *)
(* packet read by NfcNci::handleEvent(), the callback it makes here, and   *)
(* the callback made to the client in turn are one step.  In the state     *)
(* machine of this module the client issues any command at any time, and   *)
(* the controller sends any packet at any time.                            *)
(***************************************************************************)
EXTENDS NfcTagsIntfType2

VARIABLES
  tagsState,  \* _state
  tagsId,     \* _id
  tagIntf,    \* _p_tagIntf
  rfPtr,      \* _p_rf of _tag2 and of _tagMifare
  api         \* the call across the client's interface in this step

tagsVars == <<tagsState, tagsId, tagIntf, rfPtr>>

vars == <<nciVars, t2Vars, tagsVars, api>>

TagsStates ==
  {"NONE", "INIT_RESET", "INIT_INIT", "INIT_DONE", "DISCOVER_MAP", "DISCOVER",
   "DISCOVER_NTF", "DISCOVER_ACTIVATED", "DEACTIVATE", "DEACTIVATE_RSP",
   "DEACTIVATE_NTF", "DUMP", "DUMP_RSP"}

TagsIds == {"NONE", "RESET", "DISCOVER", "DISCOVER_ACTIVATED", "DEACTIVATE", "DUMP"}

TagIntfs == {"T2", "MIFARE"}

\* A command that returned a status, or a callback to the client.  dump says
\* whether a tTAGS_DUMP came with it; block is the block its buf holds.
NoBlock == -1

ApiCalls ==
  [fn : {"none", "cmdReset", "cmdDiscover", "cmdDeactivate", "cmdDump",
         "cbReset", "cbDiscover", "cbDiscoverNtf", "cbDeactivate", "cbDump"},
   status : TagsStatus, id : TagsIds,
   dump : BOOLEAN, block : Int, more : BOOLEAN]

ApiCall(fn, status, id) ==
  [fn |-> fn, status |-> status, id |-> id,
   dump |-> FALSE, block |-> NoBlock, more |-> FALSE]

NoApi == ApiCall("none", "OK", "NONE")

Return(fn, status) == api' = ApiCall(fn, status, "NONE")
Upcall(fn, status, id) == api' = ApiCall(fn, status, id)
NoUpcall == api' = NoApi

\* Types of every variable of the stack.
TypeOK ==
  /\ NciTypeOK
  /\ T2TypeOK
  /\ tagsState \in TagsStates
  /\ tagsId \in TagsIds
  /\ tagIntf \in TagIntfs \cup {"NULL"}
  /\ rfPtr \in [TagIntfs -> Pointers]
  /\ api \in ApiCalls

Init ==
  /\ NciInit
  /\ T2Init
  /\ tagsState = "NONE"
  /\ tagsId = "NONE"
  /\ tagIntf = "NULL"
  /\ rfPtr = [i \in TagIntfs |-> "NULL"]
  /\ api = NoApi

\* Mutant of TagsStatusOf: the status is passed on as it is.
Untranslated(nciStatus) == nciStatus

\* NfcTags::translateNciStatus, which knows two statuses.
TagsStatusOf(nciStatus) ==
  IF nciStatus \in {"OK", "REJECTED"} THEN nciStatus ELSE "FAILED"

-----------------------------------------------------------------------------
\* The client's commands: they prepare the state machine and return at once.

\* Nothing is exchanged with the controller while a command is prepared.
Quiet ==
  /\ tx' = NoCmd
  /\ nciCb' = NoCall
  /\ UNCHANGED <<nciState, nciData, rfIntf>>

CmdReset ==
  /\ tagsState' = "INIT_RESET"
  /\ tagsId' = "RESET"
  /\ tagIntf' = "NULL"
  /\ Return("cmdReset", "OK")
  /\ Quiet
  /\ UNCHANGED <<rfPtr, t2Vars>>

Rejected(fn) ==
  /\ Return(fn, "REJECTED")
  /\ Quiet
  /\ UNCHANGED <<tagsVars, t2Vars>>

CmdDiscover ==
  IF tagsState # "INIT_DONE" THEN Rejected("cmdDiscover")
  ELSE /\ tagsState' = "DISCOVER_MAP"
       /\ tagsId' = "DISCOVER"
       /\ Return("cmdDiscover", "OK")
       /\ Quiet
       /\ UNCHANGED <<tagIntf, rfPtr, t2Vars>>

\* Mutant of CmdDeactivate: _p_tagIntf is kept.
CmdDeactivateKeepsIntf ==
  IF tagsState \notin {"DISCOVER_ACTIVATED", "DUMP"} THEN Rejected("cmdDeactivate")
  ELSE /\ tagsState' = "DEACTIVATE"
       /\ tagsId' = "DEACTIVATE"
       /\ Return("cmdDeactivate", "OK")
       /\ Quiet
       /\ UNCHANGED <<tagIntf, rfPtr, t2Vars>>

CmdDeactivate ==
  IF tagsState \notin {"DISCOVER_ACTIVATED", "DUMP"} THEN Rejected("cmdDeactivate")
  ELSE /\ tagsState' = "DEACTIVATE"
       /\ tagsId' = "DEACTIVATE"
       /\ tagIntf' = "NULL"
       /\ Return("cmdDeactivate", "OK")
       /\ Quiet
       /\ UNCHANGED <<rfPtr, t2Vars>>

\* NfcTagsIntfMifare refuses every dump.
IntfCmdDump(status) ==
  IF tagIntf = "T2" THEN T2CmdDump(status)
  ELSE status = "REJECTED" /\ UNCHANGED t2Vars

CmdDump ==
  IF tagsState # "DISCOVER_ACTIVATED" THEN Rejected("cmdDump")
  ELSE /\ IF tagIntf = "NULL"
          THEN /\ Return("cmdDump", "FAILED")
               /\ UNCHANGED <<tagsState, tagsId, t2Vars>>
          ELSE \E status \in TagsStatus :
                 /\ IntfCmdDump(status)
                 /\ IF status = "OK"
                    THEN /\ tagsState' = "DUMP"
                         /\ tagsId' = "DUMP"
                         /\ Return("cmdDump", "OK")
                    ELSE /\ Return("cmdDump", "FAILED")
                         /\ UNCHANGED <<tagsState, tagsId>>
       /\ Quiet
       /\ UNCHANGED <<tagIntf, rfPtr>>

-----------------------------------------------------------------------------
\* NfcTags::handleEvent(): send the NCI command of the current state, if any.

\* Only a failure to send is reported to the client.
Notify(fn, id, status) ==
  IF status = "OK" THEN NoUpcall ELSE Upcall(fn, TagsStatusOf(status), id)

\* The state is one that sends nothing and waits, or one this command does
\* not know.
Wait(states, status) ==
  /\ status = IF tagsState \in states THEN "OK" ELSE "REJECTED"
  /\ tx' = NoCmd

HandleReset ==
  /\ tagsId = "RESET"
  /\ \E status \in NciStatus :
       /\ CASE tagsState = "INIT_RESET" -> CmdCoreReset("KEEP_CFG", status)
            [] tagsState = "INIT_INIT"  -> CmdCoreInit(status)
            [] OTHER                    -> Wait({"INIT_DONE"}, status)
       /\ Notify("cbReset", "RESET", status)
  /\ UNCHANGED <<tagsVars, t2Vars>>

\* discover_maps has three entries and discover_confs two.
HandleDiscover ==
  /\ tagsId = "DISCOVER"
  /\ \E status \in NciStatus :
       /\ CASE tagsState = "DISCOVER_MAP" -> CmdRfDiscoverMap("discover_maps", status)
            [] tagsState = "DISCOVER"     -> CmdRfDiscover(2, status)
            [] OTHER -> Wait({"DISCOVER_NTF", "DISCOVER_ACTIVATED"}, status)
       /\ Notify("cbDiscover", "DISCOVER", status)
  /\ UNCHANGED <<tagsVars, t2Vars>>

\* No code assigns DEACTIVATE_NTF, so its case is never taken.
HandleDeactivate ==
  /\ tagsId = "DEACTIVATE"
  /\ \E status \in NciStatus :
       /\ CASE tagsState = "DEACTIVATE" -> CmdRfDeactivate(status)
            [] OTHER -> Wait({"DEACTIVATE_RSP"}, status)
       /\ Notify("cbDeactivate", "DEACTIVATE", status)
  /\ UNCHANGED <<tagsVars, t2Vars>>

HandleDump ==
  /\ tagsId = "DUMP"
  /\ \E status \in TagsStatus :
       /\ IF tagsState = "DUMP" /\ tagIntf = "T2"
          THEN T2HandleDump(status)
          ELSE /\ status = IF tagsState = "DUMP" /\ tagIntf = "NULL"
                           THEN "FAILED" ELSE "REJECTED"
               /\ tx' = NoCmd
               /\ UNCHANGED t2Vars
       /\ IF status = "OK" THEN NoUpcall ELSE Upcall("cbDump", status, "DUMP")
  /\ UNCHANGED tagsVars

\* Any other _id only writes a log message.
HandleUnknown ==
  /\ tagsId \notin {"RESET", "DISCOVER", "DEACTIVATE", "DUMP"}
  /\ tx' = NoCmd
  /\ NoUpcall
  /\ UNCHANGED <<tagsVars, t2Vars>>

TagsHandleEvent ==
  /\ \/ HandleReset \/ HandleDiscover \/ HandleDeactivate \/ HandleDump
     \/ HandleUnknown
  /\ nciCb' = NoCall
  /\ UNCHANGED <<nciState, nciData, rfIntf>>

-----------------------------------------------------------------------------
\* The callbacks of NfcNciCb, each conjoined with the NCI event that makes it.
\* (Each also compares the id it is given with the one it is always called
\* with, and keeps a copy of its arguments nobody reads.)

CalledBack(fn) == nciCb'.fn = fn

\* Mutant of Progress: the status is not checked.
ProgressUnchecked(state) == tagsState' = state

Progress(state) ==
  IF nciCb'.status = "OK" THEN tagsState' = state ELSE UNCHANGED tagsState

\* A failed response is reported through cbDeactivate().
CbCoreReset ==
  /\ CalledBack("cbCoreReset")
  /\ Progress("INIT_INIT")
  /\ Notify("cbDeactivate", "RESET", nciCb'.status)
  /\ UNCHANGED <<tagsId, tagIntf, rfPtr, t2Vars>>

CbCoreInit ==
  /\ CalledBack("cbCoreInit")
  /\ Progress("INIT_DONE")
  /\ Upcall("cbReset", TagsStatusOf(nciCb'.status), "RESET")
  /\ UNCHANGED <<tagsId, tagIntf, rfPtr, t2Vars>>

\* A failed response is reported through cbDeactivate().
CbRfDiscoverMap ==
  /\ CalledBack("cbRfDiscoverMap")
  /\ Progress("DISCOVER")
  /\ Notify("cbDeactivate", "DISCOVER", nciCb'.status)
  /\ UNCHANGED <<tagsId, tagIntf, rfPtr, t2Vars>>

CbRfDiscover ==
  /\ CalledBack("cbRfDiscover")
  /\ Progress("DISCOVER_NTF")
  /\ Upcall("cbDiscover", TagsStatusOf(nciCb'.status), "DISCOVER")
  /\ UNCHANGED <<tagsId, tagIntf, rfPtr, t2Vars>>

UidSizeDouble == 7

\* The interface for a tag, or KEEP: a POLL_A tag that is neither an
\* Ultralight nor a Mifare Classic leaves that of the previous tag in place.
TagKind(rf) ==
  CASE rf.type # "POLL_A" -> "NULL"
    [] rf.type = "POLL_A" /\ rf.nfcidLen = UidSizeDouble ->
         IF rf.nxp THEN "T2" ELSE "KEEP"
    [] OTHER -> IF rf.selResLen = 1 /\ rf.mifare THEN "MIFARE" ELSE "KEEP"

\* The pointer is taken for one to a tNCI_RF_INTF.  Behind _reset lies _rf_intf,
\* zeroed still when _data points there: a POLL_A tag of no known kind.  What
\* the receive buffer holds, and what lies behind _deactivate, packets do not
\* say here, so it may be read as any kind.
KindsAt(ptr) ==
  CASE ptr = "NULL"   -> {"KEEP"}
    [] ptr = "rfIntf" -> {TagKind(rfIntf')}
    [] ptr = "reset"  -> {"KEEP"}
    [] OTHER          -> TagIntfs \cup {"NULL", "KEEP"}

IdentifyTag(ptr) ==
  \E kind \in KindsAt(ptr) :
    /\ tagIntf' = IF kind = "KEEP" THEN tagIntf ELSE kind
    /\ rfPtr' = [i \in TagIntfs |-> IF i = kind THEN ptr ELSE rfPtr[i]]

\* The tag is identified whatever the status of the notification.
CbRfDiscoverNtf ==
  /\ CalledBack("cbRfDiscoverNtf")
  /\ Progress("DISCOVER_ACTIVATED")
  /\ IdentifyTag(nciCb'.data)
  /\ Upcall("cbDiscoverNtf", TagsStatusOf(nciCb'.status), "DISCOVER_ACTIVATED")
  /\ UNCHANGED <<tagsId, t2Vars>>

\* Mutant of CbRfDeactivate: the response is taken for the notification.
CbRfDeactivateSkipsNtf ==
  /\ CalledBack("cbRfDeactivate")
  /\ Progress("DISCOVER_NTF")
  /\ Notify("cbDeactivate", "DEACTIVATE", nciCb'.status)
  /\ UNCHANGED <<tagsId, tagIntf, rfPtr, t2Vars>>

CbRfDeactivate ==
  /\ CalledBack("cbRfDeactivate")
  /\ Progress("DEACTIVATE_RSP")
  /\ Notify("cbDeactivate", "DEACTIVATE", nciCb'.status)
  /\ UNCHANGED <<tagsId, tagIntf, rfPtr, t2Vars>>

\* Mutants of CbRfDeactivateNtf: _id, or _state, is not switched to discovery.
CbRfDeactivateNtfKeepsId ==
  /\ CalledBack("cbRfDeactivateNtf")
  /\ Progress("DISCOVER_NTF")
  /\ Upcall("cbDeactivate", TagsStatusOf(nciCb'.status), "DEACTIVATE")
  /\ UNCHANGED <<tagsId, tagIntf, rfPtr, t2Vars>>

CbRfDeactivateNtfKeepsState ==
  /\ CalledBack("cbRfDeactivateNtf")
  /\ tagsId' = IF nciCb'.status = "OK" THEN "DISCOVER" ELSE tagsId
  /\ Upcall("cbDeactivate", TagsStatusOf(nciCb'.status), "DEACTIVATE")
  /\ UNCHANGED <<tagsState, tagIntf, rfPtr, t2Vars>>

\* The discovery loop goes on by itself: back to waiting for a tag.
CbRfDeactivateNtf ==
  /\ CalledBack("cbRfDeactivateNtf")
  /\ Progress("DISCOVER_NTF")
  /\ tagsId' = IF nciCb'.status = "OK" THEN "DISCOVER" ELSE tagsId
  /\ Upcall("cbDeactivate", TagsStatusOf(nciCb'.status), "DEACTIVATE")
  /\ UNCHANGED <<tagIntf, rfPtr, t2Vars>>

\* A data packet goes to the tag interface of the moment.  That of type 2
\* reports it even when it is no READ answer, with status OK and no buffer;
\* that of Mifare drops it.
DumpCall(p) ==
  [fn |-> "cbDump", status |-> "OK", id |-> "DUMP", dump |-> TRUE,
   block |-> IF p.valid THEN p.block ELSE NoBlock, more |-> T2More(p)]

CbData(p) ==
  /\ CalledBack("cbData")
  /\ IF tagIntf = "T2" /\ t2Id = "DUMP"
     THEN /\ T2HandleDataDump(p)
          /\ api' = DumpCall(p)
     ELSE UNCHANGED t2Vars /\ NoUpcall
  /\ UNCHANGED tagsVars

\* cbError() only writes a log message; some packets cause no callback.
NoCallback ==
  /\ nciCb'.fn \in {"cbError", "none"}
  /\ NoUpcall
  /\ UNCHANGED <<tagsVars, t2Vars>>

OnNciCallback(p) ==
  \/ CbCoreReset \/ CbCoreInit
  \/ CbRfDiscoverMap \/ CbRfDiscover \/ CbRfDiscoverNtf
  \/ CbRfDeactivate \/ CbRfDeactivateNtf
  \/ CbData(p) \/ NoCallback

\* One call of NfcNci::handleEvent() that reads packet p, with the callbacks
\* it makes.
ReceiveEvent(p) == NciHandleEvent(p) /\ OnNciCallback(p)

-----------------------------------------------------------------------------
Command == CmdReset \/ CmdDiscover \/ CmdDeactivate \/ CmdDump

\* The board is reset: the constructors and setup() run again, and every object
\* is as it was after power-on.
Restart ==
  /\ nciState' = "NONE" /\ nciData' = "NULL" /\ rfIntf' = ZeroRf
  /\ tx' = NoCmd /\ nciCb' = NoCall
  /\ t2State' = "NONE" /\ t2Id' = "NONE" /\ t2Block' = 0
  /\ tagsState' = "NONE" /\ tagsId' = "NONE" /\ tagIntf' = "NULL"
  /\ rfPtr' = [i \in TagIntfs |-> "NULL"]
  /\ api' = NoApi

Next ==
  \/ Command
  \/ TagsHandleEvent
  \/ \E p \in Packets : ReceiveEvent(p)
  \/ Restart

Spec == Init /\ [][Next]_vars

-----------------------------------------------------------------------------
\* Properties, for every client and every controller.

\* The two state machines stay in step although each keeps its own state and
\* they meet only in callbacks: whatever packets come and in whatever order
\* the client calls, the tag layer's state is one that belongs to the RF
\* state, so that the command its handler sends next is one NfcNci accepts.
\* INIT_RESET belongs to every RF state, because cmdReset() enters it without
\* a word to NfcNci.
StatesFor(rfState) ==
  CASE rfState = "NONE"             -> {"NONE"}
    [] rfState = "RFST_RESET"       -> {"INIT_INIT"}
    [] rfState = "RFST_IDLE"        -> {"INIT_DONE", "DISCOVER_MAP", "DISCOVER"}
    [] rfState = "RFST_DISCOVERY"   -> {"DISCOVER_NTF", "DEACTIVATE_RSP"}
    [] rfState = "RFST_POLL_ACTIVE" -> {"DISCOVER_ACTIVATED", "DEACTIVATE", "DUMP"}

LayersAgree == tagsState \in StatesFor(nciState) \cup {"INIT_RESET"}

\* However many answers come, wanted or not, the dump of a type 2 tag reads
\* whole groups of blocks and never past the last block (handleDump and
\* handleDataDump each test the bound).
DumpInBounds ==
  /\ t2Block <= LastRead
  /\ t2Block % ReadBlock = 0
  /\ tx.cmd = "DATA" => tx.block = t2Block

\* A success reported to the client means what the client will rely on: the
\* controller has reached the RF state that the command was for.
SuccessIsReal ==
  api.status = "OK" =>
    /\ api.fn = "cbReset"       => nciState = "RFST_IDLE"
    /\ api.fn = "cbDiscover"    => nciState = "RFST_DISCOVERY"
    /\ api.fn = "cbDiscoverNtf" => nciState = "RFST_POLL_ACTIVE"
    /\ api.fn = "cbDeactivate"  => nciState = "RFST_DISCOVERY"

\* A callback of NfcNci with status OK carries the structure of its own
\* message, or none; _data is one pointer shared by every message and no
\* handler may leave that of an earlier one in it.
OkCallbackData ==
  nciCb.status = "OK" =>
    nciCb.data = CASE nciCb.fn = "cbCoreReset"       -> "reset"
                   [] nciCb.fn = "cbRfDiscoverNtf"   -> "rfIntf"
                   [] nciCb.fn = "cbRfDeactivateNtf" -> "deactivate"
                   [] nciCb.fn = "cbData"            -> "rxBuf"
                   [] OTHER                          -> "NULL"

\* A packet that is refused - malformed, out of state, of an unknown kind, or
\* carrying a failure status - moves no state machine of any layer.
RefusedPacketChangesNothing ==
  [][nciCb'.fn # "none" /\ nciCb'.status # "OK"
       => UNCHANGED <<nciState, rfIntf, tagsState, tagsId, t2Vars>>]_vars
=============================================================================
