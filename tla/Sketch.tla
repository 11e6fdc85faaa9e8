------------------------------- MODULE Sketch -------------------------------
(***************************************************************************)
(* What the two sketches of src/examples have in common as clients of the  *)
(* stack: an object NfcApps whose machine issues a command, waits for its  *)
(* callback, and goes on or enters an error state.                         *)
(***************************************************************************)
EXTENDS NfcSystem

VARIABLES
  app,    \* _state of NfcApps, without its prefix STATE_
  shown,  \* history: what was printed of the last tag when it was detected
  dumped  \* history: the blocks printed of it since

sketchVars == <<sysVars, app, shown, dumped>>

AppStates ==
  {"RESET", "RESET_RESPONSE", "DISCOVER", "DISCOVER_RESPONSE", "DISCOVERING",
   "DUMP", "DUMP_RESPONSE", "DEACTIVATE", "DEACTIVATE_RESPONSE", "ERROR"}

\* The type and the length of the NFCID, or that the tag is of no known type.
Labels == [intf : TagIntfs \cup {"NULL", "UNREAD"}, nfcidLen : {0, 4, 7, 10}]
Unread == [intf |-> "UNREAD", nfcidLen |-> 0]
UnknownTag == [intf |-> "NULL", nfcidLen |-> 0]

SketchTypeOK ==
  /\ SysTypeOK
  /\ app \in AppStates
  /\ shown \in Labels
  /\ dumped \in Seq(NoBlock..LastBlock)

SketchInit == SysInit /\ app = "RESET" /\ shown = Unread /\ dumped = <<>>

\* One state of NfcApps::handleEvent() that issues a command.
Issue(state, command, response) ==
  /\ app = state
  /\ command
  /\ app' = IF api'.status = "OK" THEN response ELSE "ERROR"

\* In the other states the sketch waits; in ERROR for any callback with a good
\* status, since the callbacks do not look at the state.
AppWaits ==
  /\ app \notin {"RESET", "DISCOVER", "DUMP", "DEACTIVATE"}
  /\ UNCHANGED <<vars, app>>

AppTurn(handleEvent) ==
  /\ pc = "app" /\ pc' = "tags"
  /\ handleEvent
  /\ UNCHANGED <<nfccVars, restarts, shown, dumped>>

-----------------------------------------------------------------------------
\* The callbacks: each decides the next state from its arguments alone.

Expect(call, id, next) ==
  IF call.status = "OK" /\ call.id = id THEN next ELSE "ERROR"

\* getNfcidLen() of either interface, through its pointer.  Of an object that
\* is no tNCI_RF_INTF it returns whatever byte is there.
NfcidLens(intf) ==
  CASE rfPtr'[intf] = "NULL"   -> {0}
    [] rfPtr'[intf] = "rfIntf" -> {rfIntf'.nfcidLen}
    [] OTHER                   -> {0, 4, 7, 10}

\* cbDiscoverNtf() prints what getInterface() returns of an accepted tag.
Detected(call) == call.fn = "cbDiscoverNtf" /\ call.status = "OK"

ShowTag(call) ==
  shown' \in IF ~Detected(call) THEN {shown}
             ELSE IF tagIntf' = "NULL" THEN {UnknownTag}
             ELSE [intf : {tagIntf'}, nfcidLen : NfcidLens(tagIntf')]

\* The callbacks both sketches treat alike.
AppAfter(call) ==
  CASE call.fn = "cbReset"      -> Expect(call, "RESET", "DISCOVER")
    [] call.fn = "cbDiscover"   -> Expect(call, "DISCOVER", "DISCOVERING")
    [] call.fn = "cbDeactivate" -> Expect(call, "DEACTIVATE", "DISCOVERING")
    [] OTHER                    -> app

\* The constructor of NfcApps; what the sketch printed before is history.
SketchReboot ==
  /\ Reboot
  /\ app' = "RESET" /\ shown' = Unread /\ dumped' = <<>>

SketchEnvironment == Environment /\ UNCHANGED <<app, shown, dumped>>
=============================================================================
