----------------------------- MODULE TagSession ----------------------------
(***************************************************************************)
(* What the tag interface promises a client, whatever the client calls and *)
(* whatever the controller sends: a reset, a discovery and then sessions   *)
(* of one tag each; at most one command wanted at a time; a command is     *)
(* accepted exactly when its phase has been reached and it has to wait for *)
(* no other; a success is reported only by the step that reaches the       *)
(* phase; a failure moves nothing; a dump asks for the blocks one READ     *)
(* after the other and never beyond the last.                              *)
(***************************************************************************)
EXTENDS Integers

CONSTANTS
  LastRead,   \* the block of the last READ of a dump
  ReadBlock   \* the blocks of one READ

VARIABLES
  phase,   \* what has been reached: none, reset, idle, searching, found
  wanted,  \* the command that is to be answered, if any
  next,    \* the block of the READ a dump has come to
  call     \* the call across the client's interface in this step

sessionVars == <<phase, wanted, next, call>>

Says(fn, status, more) == call' = [fn |-> fn, status |-> status, more |-> more]
SaysOk(fn) == Says(fn, "OK", FALSE)
Silent == SaysOk("none")

Init ==
  /\ phase = "none" /\ wanted = "none" /\ next = 0
  /\ call = [fn |-> "none", status |-> "OK", more |-> FALSE]

\* A command accepted is wanted from now on; one refused is forgotten.
Accept(fn, command) ==
  /\ wanted' = command
  /\ SaysOk(fn)
  /\ UNCHANGED phase

Refuse(fn, status) ==
  /\ Says(fn, status, FALSE)
  /\ UNCHANGED <<phase, wanted, next>>

Reset == Accept("cmdReset", "reset") /\ UNCHANGED next

CanDiscover == phase = "idle" /\ wanted = "none"

Discover ==
  \/ CanDiscover /\ Accept("cmdDiscover", "discover") /\ UNCHANGED next
  \/ ~CanDiscover /\ Refuse("cmdDiscover", "REJECTED")

CanDeactivate == phase = "found" /\ wanted \in {"none", "dump"}

Deactivate ==
  \/ CanDeactivate /\ Accept("cmdDeactivate", "deactivate") /\ UNCHANGED next
  \/ ~CanDeactivate /\ Refuse("cmdDeactivate", "REJECTED")

\* A dump may also fail for a reason of the tag's.
CanDump == phase = "found" /\ wanted = "none"

Dump ==
  \/ CanDump /\ Accept("cmdDump", "dump") /\ next' = 0
  \/ CanDump /\ Refuse("cmdDump", "FAILED")
  \/ ~CanDump /\ Refuse("cmdDump", "REJECTED")

\* An answer of the controller leads from a phase to a phase; fn tells the
\* client, if it is one the client hears of.
Reach(from, to, command, fn) ==
  /\ phase = from
  /\ phase' = to
  /\ wanted' = command
  /\ SaysOk(fn)
  /\ UNCHANGED next

Answer ==
  \/ Reach("none", "reset", "reset", "none")
  \/ Reach("reset", "idle", "none", "cbReset")
  \/ Reach("idle", "idle", "discover", "none")
  \/ Reach("idle", "searching", "none", "cbDiscover")
  \/ Reach("searching", "found", "none", "cbDiscoverNtf")
  \/ Reach("found", "searching", "deactivate", "none")
  \/ Reach("searching", "searching", "none", "cbDeactivate")

\* Data of the tag: there is more exactly when another READ is to follow.
Data ==
  /\ \/ Says("cbDump", "OK", TRUE) /\ next < LastRead /\ next' = next + ReadBlock
     \/ Says("cbDump", "OK", FALSE) /\ UNCHANGED next
  /\ UNCHANGED <<phase, wanted>>

Callbacks == {"cbReset", "cbDiscover", "cbDiscoverNtf", "cbDeactivate", "cbDump"}

Fail ==
  \E fn \in Callbacks, status \in {"REJECTED", "FAILED", "MESSAGE_CORRUPTED"} :
    Refuse(fn, status)

Quiet == Silent /\ UNCHANGED <<phase, wanted, next>>

Restart == phase' = "none" /\ wanted' = "none" /\ next' = 0 /\ Silent

Next ==
  \/ Reset \/ Discover \/ Deactivate \/ Dump
  \/ Answer \/ Data \/ Fail \/ Quiet \/ Restart

Spec == Init /\ [][Next]_sessionVars
=============================================================================
