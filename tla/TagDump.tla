------------------------------- MODULE TagDump -----------------------------
(***************************************************************************)
(* The sketch src/examples/TagDump/TagDump.ino: reset, start discovery,    *)
(* and then for ever: wait for a tag, dump it if it is of type 2, and      *)
(* deactivate it.                                                          *)
(***************************************************************************)
EXTENDS Sketch

DumpTurn ==
  AppTurn(\/ Issue("RESET", CmdReset, "RESET_RESPONSE")
          \/ Issue("DISCOVER", CmdDiscover, "DISCOVER_RESPONSE")
          \/ Issue("DUMP", CmdDump, "DUMP_RESPONSE")
          \/ Issue("DEACTIVATE", CmdDeactivate, "DEACTIVATE_RESPONSE")
          \/ AppWaits)

\* A tag of type 2 is dumped; any other is left.
DumpCbDiscoverNtf(call) ==
  Expect(call, "DISCOVER_ACTIVATED", IF tagIntf' = "T2" THEN "DUMP" ELSE "DEACTIVATE")

\* Mutant of DumpCbDump: the end of the dump is not noticed.
DumpCbDumpIgnoresMore(call) ==
  IF ~call.dump THEN "ERROR" ELSE Expect(call, "DUMP", "DUMP_RESPONSE")

DumpCbDump(call) ==
  IF ~call.dump THEN "ERROR"
  ELSE Expect(call, "DUMP", IF call.more THEN "DUMP_RESPONSE" ELSE "DEACTIVATE")

\* What each callback does to the sketch's state, and what it prints.
DumpCallbacks ==
  /\ app' = CASE api'.fn = "cbDiscoverNtf" -> DumpCbDiscoverNtf(api')
              [] api'.fn = "cbDump"        -> DumpCbDump(api')
              [] OTHER                     -> AppAfter(api')
  /\ ShowTag(api')
  /\ dumped' = CASE api'.fn = "cbDiscoverNtf"         -> <<>>
                 [] api'.fn = "cbDump" /\ api'.dump   -> Append(dumped, api'.block)
                 [] OTHER                             -> dumped

DumpLoop == DumpTurn \/ ((TagsTurn \/ NciTurn) /\ DumpCallbacks)
=============================================================================
