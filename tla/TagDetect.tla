------------------------------ MODULE TagDetect ----------------------------
(***************************************************************************)
(* The sketch src/examples/TagDetect/TagDetect.ino: reset, start           *)
(* discovery, and then for ever: wait for a tag, print its NFCID, and      *)
(* deactivate it.                                                          *)
(***************************************************************************)
EXTENDS Sketch

DetectTurn ==
  AppTurn(\/ Issue("RESET", CmdReset, "RESET_RESPONSE")
          \/ Issue("DISCOVER", CmdDiscover, "DISCOVER_RESPONSE")
          \/ Issue("DEACTIVATE", CmdDeactivate, "DEACTIVATE_RESPONSE")
          \/ AppWaits)

\* The error state that a refused activation leads to is overwritten.
DetectCbDiscoverNtf == "DEACTIVATE"

\* Mutant of DetectCallbacks: the tag is not let go of.
DetectCallbacksKeepTag ==
  /\ app' = IF api'.fn = "cbDump" THEN app ELSE AppAfter(api')
  /\ ShowTag(api')
  /\ dumped' = IF api'.fn = "cbDiscoverNtf" THEN <<>> ELSE dumped

\* cbDump() is empty.
DetectCallbacks ==
  /\ app' = CASE api'.fn = "cbDiscoverNtf" -> DetectCbDiscoverNtf
              [] api'.fn = "cbDump"        -> app
              [] OTHER                     -> AppAfter(api')
  /\ ShowTag(api')
  /\ dumped' = IF api'.fn = "cbDiscoverNtf" THEN <<>> ELSE dumped

DetectLoop == DetectTurn \/ ((TagsTurn \/ NciTurn) /\ DetectCallbacks)
=============================================================================
