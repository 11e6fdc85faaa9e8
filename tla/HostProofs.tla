----------------------------- MODULE HostProofs ----------------------------
(***************************************************************************)
(* NfcNci's RF state is the controller's whenever nothing is in flight,    *)
(* whatever fails, as long as the board has not been restarted.  What is   *)
(* inductive is stronger: the packets on the line lead, one after the      *)
(* other, from the state NfcNci is in to the state the controller is in.   *)
(***************************************************************************)
EXTENDS SystemProofs

\* What reading a packet of the controller does to the RF state.  A success
\* or an activation is only ever read in the state it belongs to.
Leads(from, p, to) ==
  CASE p.mt = "RSP" /\ p.status = "OK" /\ p.oid = "CORE_RESET" ->
         from = "NONE" /\ to = "RFST_RESET"
    [] p.mt = "RSP" /\ p.status = "OK" /\ p.oid = "CORE_INIT" ->
         from = "RFST_RESET" /\ to = "RFST_IDLE"
    [] p.mt = "RSP" /\ p.status = "OK" /\ p.oid = "RF_DISCOVER" ->
         from = "RFST_IDLE" /\ to = "RFST_DISCOVERY"
    [] p.mt = "RSP" /\ p.status = "OK" /\ p.oid = "RF_DEACTIVATE" ->
         from = "RFST_POLL_ACTIVE" /\ to = "RFST_DISCOVERY"
    [] p.oid = "RF_INTF_ACTIVATED" ->
         from = "RFST_DISCOVERY" /\ to = "RFST_POLL_ACTIVE"
    [] OTHER -> from = to

\* The packets of a line lead from one state to another.
Path(from, line, to) ==
  \E path \in [0..Len(line) -> NciStates] :
    /\ path[0] = from
    /\ path[Len(line)] = to
    /\ \A i \in 1..Len(line) : Leads(path[i - 1], line[i], path[i])

\* Before the first answer to a reset there is at most that reset in flight,
\* and none is sent afterwards: a controller that took a second one would go
\* back to a state of which NfcNci does not hear.
ResetAlone ==
  /\ nciState = "NONE" =>
       Len(toNfcc) + Len(toHost) <= (IF pc = "nci" THEN 1 ELSE 0)
  /\ nciState # "NONE" => \A i \in DOMAIN toNfcc : toNfcc[i].cmd # "CORE_RESET"

HostFollows == Path(nciState, toHost, RfStateOf) /\ ResetAlone

\* The inductive invariant: it says nothing once the board has been restarted.
HostInv == restarts = 0 => HostFollows

-----------------------------------------------------------------------------
\* Lemmas about paths: of an empty line, of a line with one more packet, and
\* of a line without its first.

\* An empty line leads nowhere else.
LEMMA EmptyPath ==
  ASSUME NEW state \in NciStates, NEW to
  PROVE  Path(state, <<>>, to) <=> to = state
<1>1. ASSUME Path(state, <<>>, to) PROVE to = state
  BY <1>1 DEF Path
<1>2. ASSUME to = state PROVE Path(state, <<>>, to)
  <2> DEFINE path == [i \in 0..0 |-> state]
  <2>1. Len(<<>>) = 0
    OBVIOUS
  <2>2. path \in [0..0 -> NciStates] /\ path[0] = state
    OBVIOUS
  <2>3. \A i \in 1..0 : Leads(path[i - 1], <<>>[i], path[i])
    OBVIOUS
  <2> HIDE DEF path
  <2>4. \E q \in [0..0 -> NciStates] :
          /\ q[0] = state
          /\ q[0] = to
          /\ \A i \in 1..0 : Leads(q[i - 1], <<>>[i], q[i])
    BY <1>2, <2>2, <2>3
  <2> QED
    BY <2>1, <2>4 DEF Path
<1> QED
  BY <1>1, <1>2

\* A packet put at the end of a line takes its path one step further.
LEMMA LongerPath ==
  ASSUME NEW S, NEW line \in Seq(S), NEW p \in S,
         NEW from, NEW mid, NEW to \in NciStates,
         Path(from, line, mid), Leads(mid, p, to)
  PROVE  Path(from, Append(line, p), to)
<1>1. PICK path \in [0..Len(line) -> NciStates] :
        /\ path[0] = from /\ path[Len(line)] = mid
        /\ \A i \in 1..Len(line) : Leads(path[i - 1], line[i], path[i])
  BY DEF Path
<1> DEFINE longer == [i \in 0..(Len(line) + 1) |-> IF i = Len(line) + 1 THEN to ELSE path[i]]
<1>2. /\ Len(line) \in Nat
      /\ Len(Append(line, p)) = Len(line) + 1
      /\ \A i \in 1..Len(line) : Append(line, p)[i] = line[i]
      /\ Append(line, p)[Len(line) + 1] = p
  BY AppendProperties
<1>3. longer \in [0..Len(Append(line, p)) -> NciStates]
  BY <1>2
<1>4. longer[0] = from /\ longer[Len(Append(line, p))] = to
  BY <1>1, <1>2
<1>5. ASSUME NEW i \in 1..Len(Append(line, p))
      PROVE  Leads(longer[i - 1], Append(line, p)[i], longer[i])
  <2>1. CASE i \in 1..Len(line)
    <3>1. longer[i - 1] = path[i - 1] /\ longer[i] = path[i] /\ Append(line, p)[i] = line[i]
      BY <1>2, <2>1
    <3> QED
      BY <1>1, <2>1, <3>1
  <2>2. CASE i = Len(line) + 1
    <3>1. longer[i - 1] = mid /\ longer[i] = to /\ Append(line, p)[i] = p
      BY <1>1, <1>2, <2>2
    <3> QED
      BY <3>1
  <2> QED
    BY <1>2, <2>1, <2>2
<1> HIDE DEF longer
<1> QED
  BY <1>3, <1>4, <1>5 DEF Path

\* The packet at the head of a line leads to where the path of the rest starts.
LEMMA ShorterPath ==
  ASSUME NEW S, NEW line \in Seq(S), line # <<>>, NEW from, NEW to,
         Path(from, line, to)
  PROVE  \E mid \in NciStates : Leads(from, Head(line), mid) /\ Path(mid, Tail(line), to)
<1>1. PICK path \in [0..Len(line) -> NciStates] :
        /\ path[0] = from /\ path[Len(line)] = to
        /\ \A i \in 1..Len(line) : Leads(path[i - 1], line[i], path[i])
  BY DEF Path
<1> DEFINE shorter == [i \in 0..(Len(line) - 1) |-> path[i + 1]]
<1>2. /\ Len(line) \in Nat \ {0}
      /\ Tail(line) \in Seq(S)
      /\ Len(Tail(line)) = Len(line) - 1
      /\ \A i \in 1..Len(Tail(line)) : Tail(line)[i] = line[i + 1]
      /\ Head(line) = line[1]
  BY HeadTailProperties, EmptySeq
<1>3. shorter \in [0..Len(Tail(line)) -> NciStates]
  BY <1>2
<1>4. shorter[0] = path[1] /\ shorter[Len(Tail(line))] = to
  BY <1>1, <1>2
<1>5. ASSUME NEW i \in 1..Len(Tail(line))
      PROVE  Leads(shorter[i - 1], Tail(line)[i], shorter[i])
  <2>1. i + 1 \in 1..Len(line) /\ (i + 1) - 1 = i
    BY <1>2
  <2>2. Leads(path[i], line[i + 1], path[i + 1])
    BY <1>1, <2>1
  <2>3. shorter[i - 1] = path[i] /\ shorter[i] = path[i + 1]
    BY <1>2, <2>1
  <2> QED
    BY <1>2, <2>2, <2>3
<1>6. Leads(from, Head(line), path[1])
  <2>1. 1 \in 1..Len(line) /\ 1 - 1 = 0
    BY <1>2
  <2> QED
    BY <1>1, <1>2, <2>1
<1>7. path[1] \in NciStates
  BY <1>2
<1> HIDE DEF shorter
<1>8. Path(path[1], Tail(line), to)
  BY <1>3, <1>4, <1>5 DEF Path
<1> QED
  BY <1>6, <1>7, <1>8

-----------------------------------------------------------------------------
\* Lemmas about packets.

\* What NfcNci sees of the packets of this controller.
LEMMA RepliesSeen ==
  ASSUME NEW cmd \in Commands \ {"DATA"}, NEW status \in {"OK", "FAILED"},
         NEW p, p = Reply(cmd, status)
  PROVE  /\ p.frag = FALSE /\ p.len = "GOOD" /\ p.mt = "RSP"
         /\ p.gid = IF cmd \in {"CORE_RESET", "CORE_INIT"} THEN "CORE" ELSE "RF_MANAGE"
         /\ p.oid = cmd
         /\ p.status = status
BY DEF Reply, RspPacket, Packet

\* The notification of an activation, whatever the tag.
LEMMA ActivationSeen ==
  ASSUME NEW rf \in Tags
  PROVE  LET p == ActivatedPacket(rf) IN
         /\ p.frag = FALSE /\ p.len = "GOOD" /\ p.mt = "NTF"
         /\ p.gid = "RF_MANAGE" /\ p.oid = "RF_INTF_ACTIVATED"
BY DEF ActivatedPacket, Packet

\* The answers of a tag, the empty one included.
LEMMA DataSeen ==
  ASSUME NEW p,
         \/ p = EmptyAnswer
         \/ \E valid \in BOOLEAN, block \in 0..LastBlock : p = DataPacket(valid, block)
  PROVE  /\ p.mt = "DATA" /\ p.oid = "OTHER"
         /\ p.len = "NONE" \/ (p.frag = FALSE /\ p.len = "GOOD")
BY DEF DataPacket, EmptyAnswer, Packet

\* The notifications without a meaning to the RF state.
LEMMA NoticesSeen ==
  \A p \in {Credits, Deactivated, InterfaceError} :
    /\ p.frag = FALSE /\ p.len = "GOOD" /\ p.mt = "NTF"
    /\ \/ p.gid = "CORE" /\ p.oid \in {"CONN_CREDITS", "OTHER"}
       \/ p.gid = "RF_MANAGE" /\ p.oid = "RF_DEACTIVATE"
BY DEF Credits, Deactivated, InterfaceError, Packet

\* Reading a packet moves the RF state where the packet leads.
LEMMA ReadLeads ==
  ASSUME NEW p \in NfccPackets, NciHandleEvent(p), NEW to, Leads(nciState, p, to)
  PROVE  nciState' = to
<1>1. ASSUME NEW cmd \in Commands \ {"DATA"}, NEW status \in {"OK", "FAILED"},
             p = Reply(cmd, status)
      PROVE  nciState' = to
  <2>1. /\ p.frag = FALSE /\ p.len = "GOOD" /\ p.mt = "RSP"
        /\ p.gid = IF cmd \in {"CORE_RESET", "CORE_INIT"} THEN "CORE" ELSE "RF_MANAGE"
        /\ p.oid = cmd
        /\ p.status = status
    BY <1>1 DEF Reply, RspPacket, Packet
  <2>2. CASE cmd \in {"CORE_RESET", "CORE_INIT"}
    <3>1. HandleCoreEvent(p)
      BY <2>1, <2>2 DEF NciHandleEvent
    <3>2. CASE cmd = "CORE_RESET"
      BY <2>1, <3>1, <3>2
      DEF Leads, HandleCoreEvent, RspCoreReset, Advance, RspStatus, Checked
    <3>3. CASE cmd = "CORE_INIT"
      BY <2>1, <3>1, <3>3
      DEF Leads, HandleCoreEvent, RspCoreInit, Advance, RspStatus, Checked
    <3> QED
      BY <2>2, <3>2, <3>3
  <2>3. CASE cmd \in {"RF_DISCOVER_MAP", "RF_DISCOVER", "RF_DEACTIVATE"}
    <3>1. HandleRfEvent(p)
      BY <2>1, <2>3 DEF NciHandleEvent
    <3>2. CASE cmd = "RF_DISCOVER_MAP"
      BY <2>1, <3>1, <3>2 DEF Leads, HandleRfEvent, RspRfDiscoverMap
    <3>3. CASE cmd = "RF_DISCOVER"
      BY <2>1, <3>1, <3>3
      DEF Leads, HandleRfEvent, RspRfDiscover, Advance, RspStatus, Checked
    <3>4. CASE cmd = "RF_DEACTIVATE"
      BY <2>1, <3>1, <3>4
      DEF Leads, HandleRfEvent, RspRfDeactivate, Advance, RspStatus, Checked
    <3> QED
      BY <2>3, <3>2, <3>3, <3>4
  <2> QED
    BY <2>2, <2>3 DEF Commands
<1>2. ASSUME NEW rf \in Tags, p = ActivatedPacket(rf)
      PROVE  nciState' = to
  <2>1. /\ p.frag = FALSE /\ p.len = "GOOD" /\ p.mt = "NTF"
        /\ p.gid = "RF_MANAGE" /\ p.oid = "RF_INTF_ACTIVATED"
    BY <1>2, ActivationSeen
  <2>2. NtfRfIntfActivated(p)
    BY <2>1 DEF NciHandleEvent, HandleRfEvent
  <2> QED
    BY <2>1, <2>2 DEF Leads, NtfRfIntfActivated, Advance, Checked
<1>3. CASE \/ p = EmptyAnswer
           \/ \E valid \in BOOLEAN, block \in 0..LastBlock : p = DataPacket(valid, block)
  <2>1. /\ p.mt = "DATA" /\ p.oid = "OTHER"
        /\ p.len = "NONE" \/ (p.frag = FALSE /\ p.len = "GOOD")
    BY <1>3, DataSeen
  <2>2. UNCHANGED nciState
    BY <2>1 DEF NciHandleEvent, Error, HandleDataEvent
  <2> QED
    BY <2>1, <2>2 DEF Leads
<1>4. CASE p \in {Credits, Deactivated, InterfaceError}
  <2>1. /\ p.frag = FALSE /\ p.len = "GOOD" /\ p.mt = "NTF"
        /\ \/ p.gid = "CORE" /\ p.oid \in {"CONN_CREDITS", "OTHER"}
           \/ p.gid = "RF_MANAGE" /\ p.oid = "RF_DEACTIVATE"
    BY <1>4, NoticesSeen
  <2>2. to = nciState
    BY <2>1 DEF Leads
  <2>3. CASE p.gid = "CORE"
    <3>1. Ignore \/ Error("UNKNOWN_OID")
      BY <2>1, <2>3 DEF NciHandleEvent, HandleCoreEvent
    <3> QED
      BY <2>2, <3>1 DEF Ignore, Error
  <2>4. CASE p.gid = "RF_MANAGE"
    <3>1. NtfRfDeactivate(p)
      BY <2>1, <2>4 DEF NciHandleEvent, HandleRfEvent
    <3> QED
      BY <2>2, <3>1 DEF NtfRfDeactivate, Advance
  <2> QED
    BY <2>1, <2>3, <2>4
<1> QED
  BY <1>1, <1>2, <1>3, <1>4 DEF NfccPackets

\* The RF state of the controller is one of NfcNci's.
LEMMA RfStateTypes ==
  ASSUME NfccTypeOK
  PROVE  RfStateOf \in NciStates
BY DEF NfccTypeOK, RfStateOf, NciStates

\* One packet leads nowhere from NONE but to RESET.
LEMMA FirstAnswer ==
  ASSUME NEW p, NEW to, Leads("NONE", p, to)
  PROVE  to \in {"NONE", "RFST_RESET"}
BY DEF Leads

\* A line of at most one packet leads no further either.
LEMMA ShortPath ==
  ASSUME NEW S, NEW line \in Seq(S), Len(line) <= 1, NEW to, Path("NONE", line, to)
  PROVE  to \in {"NONE", "RFST_RESET"}
<1>1. CASE line = <<>>
  <2>1. "NONE" \in NciStates
    BY DEF NciStates
  <2> QED
    BY <1>1, <2>1, EmptyPath
<1>2. CASE line # <<>>
  <2>1. PICK mid \in NciStates : Leads("NONE", Head(line), mid) /\ Path(mid, Tail(line), to)
    BY <1>2, ShorterPath
  <2>2. Tail(line) = <<>>
    <3>1. Len(line) \in Nat /\ Len(line) # 0 /\ Tail(line) \in Seq(S)
          /\ Len(Tail(line)) = Len(line) - 1
      BY <1>2, HeadTailProperties, EmptySeq
    <3>2. Len(Tail(line)) = 0
      BY <3>1
    <3> QED
      BY <3>1, <3>2, EmptySeq
  <2>3. to = mid
    BY <2>1, <2>2, EmptyPath
  <2> QED
    BY <2>1, <2>3, FirstAnswer
<1> QED
  BY <1>1, <1>2

-----------------------------------------------------------------------------
\* The steps, as long as the board is not restarted.
\* The tag layer's turn leaves the packets alone and sends at most one frame,
\* a reset only in state NONE.
LEMMA TagsTurnFollows ==
  ASSUME SysInv, HostFollows, TagsTurn
  PROVE  HostFollows'
<1>1. UNCHANGED <<nciState, toHost, nfcc>> /\ pc = "tags" /\ pc' = "nci"
  BY DEF TagsTurn, TagsHandleEvent
<1>2. toNfcc \in Seq(Frame) /\ toHost \in Seq(Packets)
  BY DEF SysInv, SysTypeOK, NfccTypeOK
<1>3. tx' \in Frame
  BY SysStepIsNext, FrameWritten DEF SysInv, SysTypeOK, TagsTurn, SysNext
<1>4. toNfcc' = toNfcc \/ toNfcc' = Append(toNfcc, tx')
  BY DEF TagsTurn, OnTheLine
<1>5. nciState # "NONE" => tx'.cmd # "CORE_RESET"
  BY DEF TagsTurn, TagsHandleEvent, HandleReset, HandleDiscover, HandleDeactivate,
     HandleDump, HandleUnknown, Wait, T2HandleDump, DataSend, CmdCoreReset, CmdCoreInit,
     CmdRfDiscoverMap, CmdRfDiscover, CmdRfDeactivate, HwWrite, Refuse, NoCmd, Cmd
<1>6. Path(nciState, toHost, RfStateOf)'
  BY <1>1 DEF HostFollows, RfStateOf
<1>7. ASSUME nciState = "NONE"
      PROVE  Len(toNfcc') + Len(toHost) <= 1
  <2>1. Len(toNfcc) + Len(toHost) <= 0 /\ Len(toNfcc) \in Nat /\ Len(toHost) \in Nat
    BY <1>1, <1>2, <1>7 DEF HostFollows, ResetAlone
  <2>2. Len(toNfcc') = Len(toNfcc) \/ Len(toNfcc') = Len(toNfcc) + 1
    BY <1>2, <1>3, <1>4, AppendProperties
  <2> QED
    BY <2>1, <2>2
<1>8. ASSUME nciState # "NONE", NEW i \in DOMAIN toNfcc'
      PROVE  toNfcc'[i].cmd # "CORE_RESET"
  <2>1. toNfcc'[i] = tx' \/ (i \in DOMAIN toNfcc /\ toNfcc'[i] = toNfcc[i])
    BY <1>2, <1>3, <1>4, <1>8, AppendedFrame
  <2> QED
    BY <1>5, <1>8, <2>1 DEF HostFollows, ResetAlone
<1> QED
  BY <1>1, <1>6, <1>7, <1>8 DEF HostFollows, ResetAlone

\* Reading a packet goes one step along the path.
LEMMA NciTurnFollows ==
  ASSUME SysInv, HostFollows, NciTurn
  PROVE  HostFollows'
<1>1. toHost \in Seq(NfccPackets) /\ toNfcc \in Seq(Frame) /\ nciState \in NciStates
  BY DEF SysInv, SysTypeOK, NfccTypeOK, TypeOK, NciTypeOK
<1>2. toHost # <<>> /\ toHost' = Tail(toHost) /\ UNCHANGED <<toNfcc, nfcc>>
      /\ pc = "nci" /\ pc' = "app" /\ NciHandleEvent(Head(toHost))
  BY DEF NciTurn, PacketRead, ReceiveEvent
<1>3. PICK mid \in NciStates :
        Leads(nciState, Head(toHost), mid) /\ Path(mid, Tail(toHost), RfStateOf)
  BY <1>1, <1>2, ShorterPath DEF HostFollows
<1>4. nciState' = mid
  BY <1>1, <1>2, <1>3, ReadLeads
<1>5. Path(nciState, toHost, RfStateOf)'
  BY <1>2, <1>3, <1>4 DEF RfStateOf
<1>6. /\ Len(toHost') \in Nat /\ Len(toNfcc) \in Nat /\ Len(toHost) \in Nat
      /\ Len(toHost') = Len(toHost) - 1
  BY <1>1, <1>2, HeadTailProperties
<1>7. nciState = "NONE" => Len(toNfcc) = 0 /\ Len(toHost') = 0
  BY <1>2, <1>6 DEF HostFollows, ResetAlone
<1>8. nciState' = "NONE" => nciState = "NONE"
  BY <1>1, <1>3, <1>4 DEF Leads
<1>9. ResetAlone'
  <2>1. CASE nciState = "NONE"
    <3>1. toNfcc = <<>>
      BY <1>1, <1>7, <2>1, EmptySeq
    <3>2. Len(toHost') = 0 /\ Len(toNfcc') = 0
      BY <1>2, <1>7, <2>1
    <3>3. Len(toNfcc') + Len(toHost') <= 0
      BY <3>2
    <3> QED
      BY <1>2, <3>1, <3>3 DEF ResetAlone
  <2>2. CASE nciState # "NONE"
    BY <1>2, <1>8, <2>2 DEF HostFollows, ResetAlone
  <2> QED
    BY <2>1, <2>2
<1> QED
  BY <1>5, <1>9 DEF HostFollows

\* Before the first answer, the controller is reset by the one frame there is.
LEMMA ControllerUntouched ==
  ASSUME SysInv, HostFollows, nciState = "NONE", toNfcc # <<>>
  PROVE  nfcc = "ON" /\ toHost = <<>> /\ Len(toNfcc) = 1
<1>1. toNfcc \in Seq(Frame) /\ toHost \in Seq(Packets)
  BY DEF SysInv, SysTypeOK, NfccTypeOK
<1>2. Len(toNfcc) \in Nat /\ Len(toHost) \in Nat /\ Len(toNfcc) # 0
  BY <1>1, EmptySeq
<1>3. Len(toNfcc) = 1 /\ Len(toHost) = 0
  <2>1. Len(toNfcc) + Len(toHost) <= (IF pc = "nci" THEN 1 ELSE 0)
    BY DEF HostFollows, ResetAlone
  <2>2. Len(toNfcc) + Len(toHost) <= 1
    BY <1>2, <2>1
  <2>3. \A m, n \in Nat : m # 0 /\ m + n <= 1 => m = 1 /\ n = 0
    OBVIOUS
  <2> QED
    BY <1>2, <2>2, <2>3
<1>4. toHost = <<>>
  BY <1>1, <1>3, EmptySeq
<1>5. RfStateOf = "NONE"
  BY <1>4, EmptyPath DEF HostFollows, NciStates
<1>6. nfcc = "ON"
  BY <1>5 DEF RfStateOf, SysInv, SysTypeOK, NfccTypeOK
<1> QED
  BY <1>3, <1>4, <1>6

\* The controller takes a frame off its line and puts one packet, or two when
\* the host has had its first answer, at the end of the other.
LEMMA FrameTaken ==
  ASSUME SysInv, HostFollows, toNfcc # <<>>, toNfcc' = Tail(toNfcc),
         UNCHANGED <<nciState, pc>>,
         NEW packets \in Seq(NfccPackets), toHost' = toHost \o packets,
         nciState = "NONE" => Len(packets) = 1
  PROVE  ResetAlone'
<1>1. toNfcc \in Seq(Frame) /\ toHost \in Seq(NfccPackets)
  BY DEF SysInv, SysTypeOK, NfccTypeOK
<1>2. CASE nciState = "NONE"
  <2>1. toHost = <<>> /\ Len(toNfcc) = 1 /\ pc = "nci"
    <3>1. toHost = <<>> /\ Len(toNfcc) = 1
      BY <1>2, ControllerUntouched
    <3>2. pc = "nci"
      BY <1>2, <3>1 DEF HostFollows, ResetAlone
    <3> QED
      BY <3>1, <3>2
  <2>2. Len(toNfcc') = 0 /\ Len(toHost') = 1
    <3>1. Len(Tail(toNfcc)) = Len(toNfcc) - 1
      BY <1>1, HeadTailProperties
    <3>2. toHost' = packets
      BY <2>1
    <3> QED
      BY <1>2, <2>1, <3>1, <3>2
  <2> QED
    BY <1>2, <2>1, <2>2 DEF ResetAlone
<1>3. CASE nciState # "NONE"
  <2>1. ASSUME NEW i \in DOMAIN toNfcc'
        PROVE  toNfcc'[i].cmd # "CORE_RESET"
    <3>1. /\ Len(Tail(toNfcc)) = Len(toNfcc) - 1 /\ Tail(toNfcc) \in Seq(Frame)
          /\ \A k \in 1..Len(Tail(toNfcc)) : Tail(toNfcc)[k] = toNfcc[k + 1]
      BY <1>1, HeadTailProperties
    <3>2. Len(toNfcc) \in Nat /\ i \in 1..(Len(toNfcc) - 1) /\ DOMAIN toNfcc = 1..Len(toNfcc)
      BY <1>1, <3>1
    <3>3. i + 1 \in DOMAIN toNfcc /\ toNfcc'[i] = toNfcc[i + 1]
      BY <3>1, <3>2
    <3> QED
      BY <1>3, <3>3 DEF HostFollows, ResetAlone
  <2> QED
    BY <1>3, <2>1 DEF ResetAlone
<1> QED
  BY <1>2, <1>3

\* A line with one more packet, and with two.
LEMMA PathGrows ==
  ASSUME NEW line \in Seq(NfccPackets), NEW p \in NfccPackets,
         NEW from, NEW mid, NEW to \in NciStates,
         Path(from, line, mid), Leads(mid, p, to)
  PROVE  /\ Path(from, line \o <<p>>, to)
         /\ \A q \in NfccPackets : Leads(to, q, to) => Path(from, line \o <<p, q>>, to)
<1>1. line \o <<p>> = Append(line, p) /\ Append(line, p) \in Seq(NfccPackets)
  OBVIOUS
<1>2. Path(from, Append(line, p), to)
  BY LongerPath
<1>3. ASSUME NEW q \in NfccPackets, Leads(to, q, to)
      PROVE  Path(from, line \o <<p, q>>, to)
  <2>1. line \o <<p, q>> = Append(Append(line, p), q)
    OBVIOUS
  <2>2. Path(from, Append(Append(line, p), q), to)
    BY <1>1, <1>2, <1>3, LongerPath
  <2> QED
    BY <2>1, <2>2
<1> QED
  BY <1>1, <1>2, <1>3

\* Two packets sent one after the other are a line of two.
LEMMA TwoPackets ==
  ASSUME NEW S, NEW x \in S, NEW y \in S
  PROVE  <<x>> \o <<y>> = <<x, y>>
<1>1. <<x>> \in Seq(S) /\ <<y>> \in Seq(S) /\ <<x, y>> \in Seq(S)
  OBVIOUS
<1>2. /\ Len(<<x>>) = 1 /\ Len(<<y>>) = 1 /\ Len(<<x, y>>) = 2
      /\ <<x>>[1] = x /\ <<y>>[1] = y /\ <<x, y>>[1] = x /\ <<x, y>>[2] = y
  OBVIOUS
<1>3. /\ Len(<<x>> \o <<y>>) = 2 /\ <<x>> \o <<y>> \in Seq(S)
      /\ (<<x>> \o <<y>>)[1] = x /\ (<<x>> \o <<y>>)[2] = y
  BY <1>1, <1>2, ConcatProperties
<1>4. \A i \in 1..2 : (<<x>> \o <<y>>)[i] = <<x, y>>[i]
  BY <1>2, <1>3
<1> QED
  BY <1>1, <1>2, <1>3, <1>4, SeqEqual

\* A refused command and a notice lead from a state to itself.
LEMMA Inert ==
  ASSUME NEW state
  PROVE  /\ \A cmd \in Commands \ {"DATA"} : Leads(state, Reply(cmd, "FAILED"), state)
         /\ \A p \in {Credits, Deactivated, InterfaceError, EmptyAnswer} :
              Leads(state, p, state)
         /\ \A valid \in BOOLEAN, block \in 0..LastBlock :
              Leads(state, DataPacket(valid, block), state)
<1>1. ASSUME NEW cmd \in Commands \ {"DATA"}
      PROVE  Leads(state, Reply(cmd, "FAILED"), state)
  <2>1. Reply(cmd, "FAILED").oid = cmd /\ Reply(cmd, "FAILED").status = "FAILED"
    BY DEF Reply, RspPacket, Packet
  <2> QED
    BY <2>1 DEF Leads, Commands
<1>2. ASSUME NEW p \in {Credits, Deactivated, InterfaceError, EmptyAnswer}
      PROVE  Leads(state, p, state)
  <2>1. CASE p = EmptyAnswer
    <3>1. p.mt = "DATA" /\ p.oid = "OTHER"
      BY <2>1, DataSeen
    <3> QED
      BY <3>1 DEF Leads
  <2>2. CASE p \in {Credits, Deactivated, InterfaceError}
    <3>1. p.mt = "NTF" /\ p.oid # "RF_INTF_ACTIVATED"
      BY <2>2, NoticesSeen
    <3> QED
      BY <3>1 DEF Leads
  <2> QED
    BY <2>1, <2>2
<1>3. ASSUME NEW valid \in BOOLEAN, NEW block \in 0..LastBlock
      PROVE  Leads(state, DataPacket(valid, block), state)
  <2>1. DataPacket(valid, block).mt = "DATA" /\ DataPacket(valid, block).oid = "OTHER"
    BY DEF DataPacket, Packet
  <2> QED
    BY <2>1 DEF Leads
<1> QED
  BY <1>1, <1>2, <1>3

\* An answer to a command keeps the path, if it leads where the controller goes.
LEMMA AnswerFollows ==
  ASSUME SysInv, HostFollows, UNCHANGED <<nciState, pc>>,
         NEW cmd \in Commands \ {"DATA"}, NEW from,
         NEW to \in {"ON", "RESET", "IDLE", "DISCOVERY", "ACTIVE"},
         NEW notification \in {<<>>, <<Deactivated>>},
         Answer(cmd, from, to, notification),
         nciState = "NONE" /\ nfcc \in from => notification = <<>>,
         nfcc \in from /\ nfcc' = to => Leads(RfStateOf, Reply(cmd, "OK"), RfStateOf')
  PROVE  HostFollows'
<1> DEFINE refused == Reply(cmd, "FAILED")
           accepted == Reply(cmd, "OK")
<1>1. refused \in NfccPackets /\ accepted \in NfccPackets /\ Deactivated \in NfccPackets
  BY PacketsMade
<1>2. toHost \in Seq(NfccPackets) /\ toNfcc # <<>> /\ toNfcc' = Tail(toNfcc)
  BY DEF SysInv, SysTypeOK, NfccTypeOK, Answer, Send
<1>3. RfStateOf \in NciStates /\ RfStateOf' \in NciStates
  BY DEF SysInv, SysTypeOK, NfccTypeOK, Answer, RfStateOf, NciStates
<1>4. Path(nciState, toHost, RfStateOf)
  BY DEF HostFollows
<1>5. CASE nfcc' = nfcc /\ toHost' = toHost \o <<refused>>
  <2>1. RfStateOf' = RfStateOf
    BY <1>5 DEF RfStateOf
  <2>2. Path(nciState, toHost \o <<refused>>, RfStateOf)
    BY <1>1, <1>2, <1>3, <1>4, Inert, PathGrows
  <2>3. <<refused>> \in Seq(NfccPackets) /\ Len(<<refused>>) = 1
    BY <1>1
  <2>4. ResetAlone'
    BY <1>2, <1>5, <2>3, FrameTaken
  <2> QED
    BY <1>5, <2>1, <2>2, <2>4 DEF HostFollows
<1>6. CASE nfcc \in from /\ nfcc' = to /\ toHost' = toHost \o (<<accepted>> \o notification)
  <2>1. Leads(RfStateOf, accepted, RfStateOf')
    BY <1>6
  <2>2. Leads(RfStateOf', Deactivated, RfStateOf')
    BY Inert
  <2>3. /\ Path(nciState, toHost \o <<accepted>>, RfStateOf')
        /\ Path(nciState, toHost \o <<accepted, Deactivated>>, RfStateOf')
    BY <1>1, <1>2, <1>3, <1>4, <2>1, <2>2, PathGrows
  <2>4. \/ /\ notification = <<>> /\ <<accepted>> \o notification = <<accepted>>
        \/ /\ nciState # "NONE"
           /\ <<accepted>> \o notification = <<accepted, Deactivated>>
    <3>1. CASE notification = <<>>
      BY <1>1, <3>1
    <3>2. CASE notification = <<Deactivated>>
      <4>1. nciState # "NONE"
        <5>1. notification # <<>>
          BY <3>2
        <5> QED
          BY <1>6, <5>1
      <4>2. <<accepted>> \o <<Deactivated>> = <<accepted, Deactivated>>
        BY <1>1, TwoPackets
      <4> QED
        BY <3>2, <4>1, <4>2
    <3> QED
      BY <3>1, <3>2
  <2>5. /\ <<accepted>> \in Seq(NfccPackets) /\ Len(<<accepted>>) = 1
        /\ <<accepted, Deactivated>> \in Seq(NfccPackets)
    BY <1>1
  <2>6. ResetAlone'
    BY <1>2, <1>6, <2>4, <2>5, FrameTaken
  <2> QED
    BY <1>6, <2>3, <2>4, <2>6 DEF HostFollows
<1> QED
  BY <1>5, <1>6 DEF Answer, Send

\* The controller keeps the path, whatever it answers.
LEMMA NfccStepFollows ==
  ASSUME SysInv, HostFollows, NfccStep, UNCHANGED <<nciState, pc>>
  PROVE  HostFollows'
<1>1. CASE AnswerReset
  <2>1. toNfcc # <<>> /\ Head(toNfcc).cmd = "CORE_RESET"
    BY <1>1 DEF AnswerReset, Answer
  <2>2. nciState = "NONE"
    <3>1. 1 \in DOMAIN toNfcc /\ Head(toNfcc) = toNfcc[1]
      BY <2>1 DEF SysInv, SysTypeOK, NfccTypeOK
    <3> QED
      BY <2>1, <3>1 DEF HostFollows, ResetAlone
  <2>3. RfStateOf = "NONE"
    BY <2>1, <2>2, ControllerUntouched DEF RfStateOf
  <2>4. nfcc' = "RESET" => Leads(RfStateOf, Reply("CORE_RESET", "OK"), RfStateOf')
    <3>1. /\ Reply("CORE_RESET", "OK").mt = "RSP" /\ Reply("CORE_RESET", "OK").status = "OK"
          /\ Reply("CORE_RESET", "OK").oid = "CORE_RESET"
      BY DEF Reply, RspPacket, Packet
    <3> QED
      BY <2>3, <3>1 DEF Leads, RfStateOf
  <2> QED
    BY <1>1, <2>4, AnswerFollows DEF AnswerReset, Commands
<1>2. CASE AnswerInit
  <2>1. nfcc \in {"RESET"} /\ nfcc' = "IDLE" => Leads(RfStateOf, Reply("CORE_INIT", "OK"), RfStateOf')
    <3>1. /\ Reply("CORE_INIT", "OK").mt = "RSP" /\ Reply("CORE_INIT", "OK").status = "OK"
          /\ Reply("CORE_INIT", "OK").oid = "CORE_INIT"
      BY DEF Reply, RspPacket, Packet
    <3> QED
      BY <3>1 DEF Leads, RfStateOf
  <2> QED
    BY <1>2, <2>1, AnswerFollows DEF AnswerInit, Commands
<1>3. CASE AnswerDiscoverMap
  <2>1. nfcc \in {"IDLE"} /\ nfcc' = "IDLE" =>
          Leads(RfStateOf, Reply("RF_DISCOVER_MAP", "OK"), RfStateOf')
    <3>1. Reply("RF_DISCOVER_MAP", "OK").oid = "RF_DISCOVER_MAP"
      BY DEF Reply, RspPacket, Packet
    <3> QED
      BY <3>1 DEF Leads, RfStateOf
  <2> QED
    BY <1>3, <2>1, AnswerFollows DEF AnswerDiscoverMap, Commands
<1>4. CASE AnswerDiscover
  <2>1. nfcc \in {"IDLE"} /\ nfcc' = "DISCOVERY" =>
          Leads(RfStateOf, Reply("RF_DISCOVER", "OK"), RfStateOf')
    <3>1. /\ Reply("RF_DISCOVER", "OK").mt = "RSP" /\ Reply("RF_DISCOVER", "OK").status = "OK"
          /\ Reply("RF_DISCOVER", "OK").oid = "RF_DISCOVER"
      BY DEF Reply, RspPacket, Packet
    <3> QED
      BY <3>1 DEF Leads, RfStateOf
  <2> QED
    BY <1>4, <2>1, AnswerFollows DEF AnswerDiscover, Commands
<1>5. CASE AnswerDeactivate
  <2>1. nfcc \in {"ACTIVE"} /\ nfcc' = "DISCOVERY" =>
          Leads(RfStateOf, Reply("RF_DEACTIVATE", "OK"), RfStateOf')
    <3>1. /\ Reply("RF_DEACTIVATE", "OK").mt = "RSP" /\ Reply("RF_DEACTIVATE", "OK").status = "OK"
          /\ Reply("RF_DEACTIVATE", "OK").oid = "RF_DEACTIVATE"
      BY DEF Reply, RspPacket, Packet
    <3> QED
      BY <3>1 DEF Leads, RfStateOf
  <2>2. nciState = "NONE" => nfcc \notin {"ACTIVE"}
    BY <1>5, ControllerUntouched DEF AnswerDeactivate, Answer
  <2> QED
    BY <1>5, <2>1, <2>2, AnswerFollows DEF AnswerDeactivate, Commands
<1>6. CASE AnswerRead
  <2>1. /\ toHost \in Seq(NfccPackets) /\ toNfcc # <<>> /\ toNfcc' = Tail(toNfcc)
        /\ UNCHANGED nfcc
    BY <1>6 DEF AnswerRead, Send, SysInv, SysTypeOK, NfccTypeOK
  <2>2. RfStateOf \in NciStates /\ RfStateOf' = RfStateOf
    BY <2>1, RfStateTypes DEF RfStateOf, SysInv, SysTypeOK
  <2>3. Path(nciState, toHost, RfStateOf)
    BY DEF HostFollows
  <2>4. CASE Send(<<InterfaceError>>)
    <3>1. <<InterfaceError>> \in Seq(NfccPackets) /\ Len(<<InterfaceError>>) = 1
      BY PacketsMade
    <3>2. Path(nciState, toHost \o <<InterfaceError>>, RfStateOf)
      BY <2>1, <2>2, <2>3, Inert, PacketsMade, PathGrows
    <3>3. ResetAlone'
      BY <2>1, <2>4, <3>1, FrameTaken DEF Send
    <3> QED
      BY <2>2, <2>4, <3>2, <3>3 DEF HostFollows, Send
  <2>5. ASSUME nfcc = "ACTIVE", NEW answer \in TagAnswers(Head(toNfcc).block),
               NEW first \in {Credits, answer}, NEW second \in {Credits, answer},
               Send(<<first, second>>)
        PROVE  HostFollows'
    <3>1. Head(toNfcc).block \in 0..LastBlock
      BY <2>1 DEF SysInv, SysTypeOK, NfccTypeOK, FramesInMemory
    <3>2. answer \in NfccPackets /\ \A state : Leads(state, answer, state)
      BY <3>1, Inert, PacketsMade DEF TagAnswers
    <3>3. first \in NfccPackets /\ second \in NfccPackets
          /\ Leads(RfStateOf, first, RfStateOf) /\ Leads(RfStateOf, second, RfStateOf)
      BY <3>2, Inert, PacketsMade
    <3>4. Path(nciState, toHost \o <<first, second>>, RfStateOf)
      BY <2>1, <2>2, <2>3, <3>3, PathGrows
    <3>5. <<first, second>> \in Seq(NfccPackets)
      BY <3>3
    <3>6. nciState # "NONE"
      BY <2>1, <2>5, ControllerUntouched
    <3>7. ResetAlone'
      BY <2>1, <2>5, <3>5, <3>6, FrameTaken DEF Send
    <3> QED
      BY <2>2, <2>5, <3>4, <3>7 DEF HostFollows, Send
  <2> QED
    BY <1>6, <2>4, <2>5 DEF AnswerRead
<1>7. CASE Activate
  <2>1. PICK rf \in Tags : toHost' = Append(toHost, ActivatedPacket(rf))
    BY <1>7 DEF Activate, SysInv, SysTypeOK, NfccTypeOK, AtMostOne
  <2>2. /\ toHost \in Seq(NfccPackets) /\ nfcc = "DISCOVERY" /\ nfcc' = "ACTIVE"
        /\ UNCHANGED toNfcc
    BY <1>7 DEF Activate, SysInv, SysTypeOK, NfccTypeOK
  <2>3. RfStateOf = "RFST_DISCOVERY" /\ RfStateOf' = "RFST_POLL_ACTIVE"
    BY <2>2 DEF RfStateOf
  <2>4. ActivatedPacket(rf) \in NfccPackets
    BY PacketsMade
  <2>5. Leads(RfStateOf, ActivatedPacket(rf), RfStateOf')
    <3>1. /\ ActivatedPacket(rf).mt = "NTF"
          /\ ActivatedPacket(rf).oid = "RF_INTF_ACTIVATED"
      BY DEF ActivatedPacket, Packet
    <3> QED
      BY <2>3, <3>1 DEF Leads
  <2>6. Path(nciState, toHost', RfStateOf')
    BY <2>1, <2>2, <2>3, <2>4, <2>5, LongerPath DEF HostFollows, NciStates
  <2>7. nciState # "NONE"
    <3>1. SUFFICES ASSUME nciState = "NONE" PROVE FALSE
      OBVIOUS
    <3>2. Len(toNfcc) \in Nat /\ Len(toHost) \in Nat
      BY <2>2 DEF SysInv, SysTypeOK, NfccTypeOK
    <3>3. Len(toNfcc) + Len(toHost) <= (IF pc = "nci" THEN 1 ELSE 0)
      BY <3>1 DEF HostFollows, ResetAlone
    <3>4. Len(toHost) <= 1
      BY <3>2, <3>3
    <3>5. Path("NONE", toHost, "RFST_DISCOVERY")
      BY <2>3, <3>1 DEF HostFollows
    <3> QED
      BY <2>2, <3>4, <3>5, ShortPath
  <2>8. ResetAlone'
    BY <2>2, <2>7 DEF HostFollows, ResetAlone
  <2> QED
    BY <2>6, <2>8 DEF HostFollows
<1> QED
  BY <1>1, <1>2, <1>3, <1>4, <1>5, <1>6, <1>7 DEF NfccStep

-----------------------------------------------------------------------------
\* HostInv holds at power-on.
LEMMA HostInitInv ==
  ASSUME SysInit
  PROVE  HostInv
<1>1. toHost = <<>> /\ toNfcc = <<>> /\ nciState = "NONE" /\ RfStateOf = "NONE" /\ pc = "app"
  BY DEF SysInit, Init, NciInit, NfccInit, RfStateOf
<1>2. Path(nciState, toHost, RfStateOf)
  BY <1>1, EmptyPath DEF NciStates
<1>3. ResetAlone
  <2>1. Len(<<>>) = 0 /\ Len(<<>>) + Len(<<>>) <= 0
    OBVIOUS
  <2> QED
    BY <1>1, <2>1 DEF ResetAlone
<1> QED
  BY <1>2, <1>3 DEF HostInv, HostFollows

\* HostInv is inductive: each step but a restart keeps it, and after a restart
\* it says nothing.
LEMMA HostStepInv ==
  ASSUME SysInv, HostInv, [SysNext]_sysVars
  PROVE  HostInv'
<1>1. SUFFICES ASSUME restarts' = 0 PROVE HostFollows'
  BY DEF HostInv, HostFollows
<1>2. restarts = 0 /\ ~Reboot
  BY <1>1, RestartsAssumption
  DEF SysNext, sysVars, ClientTurn, TagsTurn, NciTurn, Environment, Reboot, SysInv, SysTypeOK
<1>3. HostFollows
  BY <1>2 DEF HostInv, HostFollows
<1>4. CASE ClientTurn
  <2>1. UNCHANGED <<nciState, toHost, toNfcc, nfcc>> /\ pc = "app" /\ pc' = "tags"
    BY <1>4 DEF ClientTurn, Command, CmdReset, CmdDiscover, CmdDeactivate, CmdDump,
       Rejected, Quiet, vars, nciVars, nfccVars
  <2> QED
    BY <1>3, <2>1 DEF HostFollows, ResetAlone, RfStateOf
<1>5. CASE TagsTurn
  BY <1>3, <1>5, TagsTurnFollows
<1>6. CASE NciTurn
  BY <1>3, <1>6, NciTurnFollows
<1>7. CASE Environment
  <2>1. UNCHANGED <<nciState, pc>>
    BY <1>7 DEF Environment, vars, nciVars
  <2>2. CASE NfccStep
    BY <1>3, <2>1, <2>2, NfccStepFollows
  <2>3. CASE FieldStep
    BY <1>3, <2>1, <2>3 DEF FieldStep, TagEnters, TagLeaves, HostFollows, ResetAlone, RfStateOf
  <2> QED
    BY <1>7, <2>2, <2>3 DEF Environment
<1>8. CASE UNCHANGED sysVars
  BY <1>3, <1>8 DEF sysVars, vars, nciVars, nfccVars, HostFollows, ResetAlone, RfStateOf
<1> QED
  BY <1>2, <1>4, <1>5, <1>6, <1>7, <1>8 DEF SysNext

\* NfcNci's view of the controller is right whenever nothing is in flight, for
\* any tags, any faults and any client that calls what it likes, as long as
\* the board is not restarted.
THEOREM HostKnowsController == SysSpec => [](restarts = 0 => HostInStep)
<1>1. SysInit => HostInv
  BY HostInitInv
<1>2. SysInv /\ HostInv /\ [SysNext]_sysVars => HostInv'
  BY HostStepInv
<1>3. SysInv /\ HostInv => (restarts = 0 => HostInStep)
  <2> SUFFICES ASSUME SysInv, HostInv, restarts = 0, toHost = <<>>
               PROVE  nciState = RfStateOf
    BY DEF HostInStep
  <2>1. nciState \in NciStates
    BY DEF SysInv, SysTypeOK, TypeOK, NciTypeOK
  <2> QED
    BY <2>1, EmptyPath DEF HostInv, HostFollows
<1> QED
  BY <1>1, <1>2, <1>3, SysInvariant, PTL DEF SysSpec
=============================================================================
