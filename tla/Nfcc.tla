-------------------------------- MODULE Nfcc -------------------------------
(***************************************************************************)
(* The NFC controller (an NXP PN7120) and the tags in its field, as the    *)
(* stack relies on them: external to the program, and what the program has *)
(* to live with.  It answers commands in order, sends a notification when  *)
(* it has activated a tag, and passes a READ on to the tag.  The two lines *)
(* between it and the host deliver in order, and lose what Faults allows.  *)
(***************************************************************************)
EXTENDS NciDefs, Sequences

CONSTANTS
  Tags,   \* the parameters of the tags that may come into the field
  Faults, \* what may go wrong: a subset of AllFaults
  MaxLine \* bound: the controller goes on while fewer packets wait to be read

\* RSP_FAILED: a command is refused for a reason of the controller's own.
\* READ_ERROR: the answer of the tag to a READ is corrupted.
\* LATE_CREDITS: the credits notification follows the answer it could precede.
\* TAG_LOST: a tag may leave the field while it is activated.
\* EMPTY_ANSWER: the answer of the tag to a READ has no payload.
\* FRAME_LOST: the controller does not acknowledge a frame of the host.
AllFaults == {"RSP_FAILED", "READ_ERROR", "LATE_CREDITS", "TAG_LOST",
              "EMPTY_ANSWER", "FRAME_LOST"}

ASSUME TagsAssumption == Tags \subseteq RfParams

ASSUME FaultsAssumption == Faults \subseteq AllFaults

ASSUME LineAssumption == MaxLine \in Nat \ {0}

VARIABLES
  nfcc,    \* the RF state of the controller
  active,  \* the tag it has activated, if any
  field,   \* the tag in the field, if any
  toNfcc,  \* frames on their way to the controller
  toHost   \* packets on their way to the host

nfccVars == <<nfcc, active, field, toNfcc, toHost>>

AtMostOne(S) == {{}} \cup {{x} : x \in S}

Credits == Packet("NTF", "CORE", "CONN_CREDITS")
Deactivated == Packet("NTF", "RF_MANAGE", "RF_DEACTIVATE")
InterfaceError == Packet("NTF", "CORE", "OTHER")
EmptyAnswer == [DataPacket(FALSE, 0) EXCEPT !.len = "NONE"]

Reply(cmd, status) ==
  RspPacket(IF cmd \in {"CORE_RESET", "CORE_INIT"} THEN "CORE" ELSE "RF_MANAGE",
            cmd, status)

\* Every packet the controller can send.
NfccPackets ==
  {Reply(cmd, status) : cmd \in Commands \ {"DATA"}, status \in {"OK", "FAILED"}}
    \cup {ActivatedPacket(rf) : rf \in Tags}
    \cup {DataPacket(valid, block) : valid \in BOOLEAN, block \in 0..LastBlock}
    \cup {Credits, Deactivated, InterfaceError, EmptyAnswer}

NfccTypeOK ==
  /\ nfcc \in {"ON", "RESET", "IDLE", "DISCOVERY", "ACTIVE"}
  /\ active \in AtMostOne(Tags)
  /\ field \in AtMostOne(Tags)
  /\ toNfcc \in Seq(Frame)
  /\ toHost \in Seq(NfccPackets)

NfccInit ==
  /\ nfcc = "ON"
  /\ active = {}
  /\ field = {}
  /\ toNfcc = <<>>
  /\ toHost = <<>>

\* What may become of the line when NfcHw_pn7120::write() has sent a frame: the
\* transfer may fail, and write() does not look at its result.
OnTheLine(frame) ==
  (IF frame = NoCmd THEN {toNfcc} ELSE {Append(toNfcc, frame)})
    \cup (IF "FRAME_LOST" \in Faults THEN {toNfcc} ELSE {})

Send(packets) ==
  /\ toNfcc' = Tail(toNfcc)
  /\ toHost' = toHost \o packets

\* A command accepted in state from leads to state to, and one that comes in
\* another state is refused.
Answer(cmd, from, to, notification) ==
  /\ toNfcc # <<>> /\ Head(toNfcc).cmd = cmd
  /\ \/ /\ nfcc \in from
        /\ nfcc' = to
        /\ Send(<<Reply(cmd, "OK")>> \o notification)
     \/ /\ nfcc \notin from \/ "RSP_FAILED" \in Faults
        /\ Send(<<Reply(cmd, "FAILED")>>)
        /\ UNCHANGED nfcc
  /\ active' = IF nfcc' = "ACTIVE" THEN active ELSE {}
  /\ UNCHANGED field

AnswerReset == Answer("CORE_RESET", {"ON", "RESET", "IDLE", "DISCOVERY", "ACTIVE"},
                      "RESET", <<>>)
AnswerInit == Answer("CORE_INIT", {"RESET"}, "IDLE", <<>>)
AnswerDiscoverMap == Answer("RF_DISCOVER_MAP", {"IDLE"}, "IDLE", <<>>)
AnswerDiscover == Answer("RF_DISCOVER", {"IDLE"}, "DISCOVERY", <<>>)
AnswerDeactivate ==
  Answer("RF_DEACTIVATE", {"ACTIVE"}, "DISCOVERY", <<Deactivated>>)

\* What comes back from the tag for a READ.
TagAnswers(block) ==
  IF field = active
  THEN {DataPacket(TRUE, block)}
         \cup (IF "READ_ERROR" \in Faults THEN {DataPacket(FALSE, block)} ELSE {})
         \cup (IF "EMPTY_ANSWER" \in Faults THEN {EmptyAnswer} ELSE {})
  ELSE {InterfaceError}

\* A READ gives back its credit when it is sent to the tag.
AnswerRead ==
  /\ toNfcc # <<>> /\ Head(toNfcc).cmd = "DATA"
  /\ \/ nfcc # "ACTIVE" /\ Send(<<InterfaceError>>)
     \/ /\ nfcc = "ACTIVE"
        /\ \E answer \in TagAnswers(Head(toNfcc).block) :
             \/ Send(<<Credits, answer>>)
             \/ "LATE_CREDITS" \in Faults /\ Send(<<answer, Credits>>)
  /\ UNCHANGED <<nfcc, active, field>>

Activate ==
  /\ nfcc = "DISCOVERY"
  /\ \E rf \in field : toHost' = Append(toHost, ActivatedPacket(rf))
  /\ nfcc' = "ACTIVE"
  /\ active' = field
  /\ UNCHANGED <<field, toNfcc>>

NfccStep ==
  /\ Len(toHost) < MaxLine
  /\ \/ AnswerReset \/ AnswerInit \/ AnswerDiscoverMap \/ AnswerDiscover
     \/ AnswerDeactivate \/ AnswerRead \/ Activate

\* On a restart of the board NfcHw_pn7120::init() drives the reset pin high and
\* never low; a controller that takes the pin floating before that for a reset
\* starts again.
NfccRestart ==
  \/ UNCHANGED nfccVars
  \/ /\ nfcc' = "ON"
     /\ active' = {}
     /\ toNfcc' = <<>>
     /\ toHost' = <<>>
     /\ UNCHANGED field

TagEnters ==
  /\ field = {}
  /\ \E rf \in Tags : field' = {rf}
  /\ UNCHANGED <<nfcc, active, toNfcc, toHost>>

TagLeaves ==
  /\ field # {}
  /\ active = {} \/ "TAG_LOST" \in Faults
  /\ field' = {}
  /\ UNCHANGED <<nfcc, active, toNfcc, toHost>>

FieldStep == TagEnters \/ TagLeaves
=============================================================================
