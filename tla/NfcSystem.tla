----------------------------- MODULE NfcSystem -----------------------------
(***************************************************************************)
(* The whole stack against a controller: the loop() of the sketches, which *)
(* gives the client, NfcTags and NfcNci one turn each.  NfcNci's turn ends *)
(* when it has read one packet; there is no other way to wait in the       *)
(* program.  The client of this module calls any command in its turn;      *)
(* TagDump and TagDetect replace it by a sketch.                           *)
(***************************************************************************)
EXTENDS NfcTags, Nfcc

CONSTANT MaxRestarts  \* bound: the restarts of the board in a behaviour

ASSUME RestartsAssumption == MaxRestarts \in Nat

\* The stack is ready for whatever the controller may send.
ASSUME NfccAssumption == NfccPackets \subseteq Packets

VARIABLES
  pc,       \* whose turn it is: "app", "tags" or "nci"
  restarts  \* how many times the board has been restarted

sysVars == <<vars, nfccVars, pc, restarts>>

SysTypeOK ==
  /\ TypeOK
  /\ NfccTypeOK
  /\ toHost \in Seq(Packets)
  /\ pc \in {"app", "tags", "nci"}
  /\ restarts \in 0..MaxRestarts

SysInit == Init /\ NfccInit /\ pc = "app" /\ restarts = 0

\* In its turn the client may call a command or none.
ClientTurn ==
  /\ pc = "app" /\ pc' = "tags"
  /\ Command \/ UNCHANGED vars
  /\ UNCHANGED <<nfccVars, restarts>>

\* write() does not look at what the controller acknowledged: a frame that is
\* lost counts as sent.
TagsTurn ==
  /\ pc = "tags" /\ pc' = "nci"
  /\ TagsHandleEvent
  /\ toNfcc' \in OnTheLine(tx')
  /\ UNCHANGED <<nfcc, active, field, toHost, restarts>>

\* A packet is read in two parts, its header and its payload, and each read
\* waits for the interrupt line, which is high while there is something to
\* read: an empty payload makes the second one wait for the next packet.
PacketRead ==
  /\ toHost # <<>>
  /\ Head(toHost).len = "NONE" => Len(toHost) > 1
  /\ toHost' = Tail(toHost)

NciTurn ==
  /\ pc = "nci" /\ pc' = "app"
  /\ PacketRead
  /\ ReceiveEvent(Head(toHost))
  /\ UNCHANGED <<nfcc, active, field, toNfcc, restarts>>

Environment == (NfccStep \/ FieldStep) /\ UNCHANGED <<vars, pc, restarts>>

\* The button is pressed at any time, whatever is on the lines.
Reboot ==
  /\ restarts < MaxRestarts
  /\ restarts' = restarts + 1
  /\ pc' = "app"
  /\ Restart
  /\ NfccRestart

SysNext == ClientTurn \/ TagsTurn \/ NciTurn \/ Environment \/ Reboot

SysSpec == SysInit /\ [][SysNext]_sysVars

-----------------------------------------------------------------------------
\* NfcNci never asks the controller for its state; it infers it from the
\* answers.  Whenever nothing is in flight, it is right, whatever frames were
\* lost and commands refused or sent twice; after a restart of the board, with
\* answers to the session before it read in this one, either it is right or it
\* has yet to be reset.
RfStateOf ==
  CASE nfcc = "ON"        -> "NONE"
    [] nfcc = "RESET"     -> "RFST_RESET"
    [] nfcc = "IDLE"      -> "RFST_IDLE"
    [] nfcc = "DISCOVERY" -> "RFST_DISCOVERY"
    [] nfcc = "ACTIVE"    -> "RFST_POLL_ACTIVE"

HostInStep ==
  toNfcc = <<>> /\ toHost = <<>> =>
    nciState = RfStateOf \/ (restarts > 0 /\ nciState = "NONE")

\* "only one request sent at a time" (NfcNci.cpp:169): a command or a READ is
\* written only when the previous one has been answered and the answer read.
IsAnswer(p) == p.mt \in {"RSP", "DATA"} \/ p = InterfaceError

Outstanding ==
  {<<"asked", i>> : i \in DOMAIN toNfcc}
    \cup {<<"answered", i>> : i \in {j \in DOMAIN toHost : IsAnswer(toHost[j])}}

OneRequest == \A r, q \in Outstanding : r = q

\* The interface the client gets from getInterface(), and that cmdDump() and
\* incoming data go to, is the one for the tag that is activated now.  It is
\* set on an activation, kept over other events and cleared by the commands,
\* while the tag comes and goes on its own.
InterfaceIsTheTag ==
  tagIntf # "NULL" =>
    /\ active # {}
    /\ \A rf \in active : TagKind(rf) = tagIntf
    /\ rfPtr[tagIntf] = "rfIntf"

\* The comment at NfcTags.cpp:169 says a reset may be sent at any time, so its
\* handler never finds it refused.
ResetAtAnyTime == ~(api.fn = "cbReset" /\ api.status = "REJECTED")

\* cmdDump() is the command "to dump an activated (found) tag" (NfcTags.h:56):
\* with a type 2 tag activated and identified it is accepted.
ActivatedTagCanBeDumped ==
  [][api' # api /\ api'.fn = "cmdDump" /\ tagsState = "DISCOVER_ACTIVATED" /\ tagIntf = "T2"
       => api'.status = "OK"]_sysVars

\* The dump handler of the type 2 interface has no case for its state NONE and
\* would return an uninitialized status there: the loop never gets to it while
\* a dump is the command in progress.
DumpStatusInitialized ==
  pc = "tags" /\ tagsState = "DUMP" /\ tagIntf = "T2" => t2State # "NONE"
=============================================================================
