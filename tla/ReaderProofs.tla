---------------------------- MODULE ReaderProofs ---------------------------
(***************************************************************************)
(* What the sketches do to each tag, for any tags and any memory: they     *)
(* know it for what it is and, the dump sketch, print its memory in order  *)
(* and whole; in short, they are a TagReader, whatever fails but the       *)
(* answers of the tag.                                                     *)
(***************************************************************************)
EXTENDS SketchProofs

-----------------------------------------------------------------------------
\* The memory as a sequence of READs.

\* The READs of a whole memory, and where each one starts.
LEMMA MemoryInReads ==
  LET reads == (LastBlock + 1) \div ReadBlock
  IN  /\ reads \in Nat \ {0} /\ reads * ReadBlock = LastBlock + 1
      /\ AllBlocks \in Seq(Int) /\ Len(AllBlocks) = reads
      /\ \A i \in 1..reads : AllBlocks[i] = (i - 1) * ReadBlock
<1> DEFINE reads == (LastBlock + 1) \div ReadBlock
<1>1. LastBlock \in Nat /\ ReadBlock \in Nat \ {0} /\ ReadBlock <= LastBlock + 1
      /\ (LastBlock + 1) % ReadBlock = 0
  BY MemoryAssumption
<1>2. reads \in Int /\ LastBlock + 1 = (ReadBlock * reads) + ((LastBlock + 1) % ReadBlock)
  BY <1>1
<1>3. reads * ReadBlock = LastBlock + 1
  BY <1>1, <1>2
<1>4. reads \in Nat \ {0}
  <2>1. CASE reads <= 0
    <3>1. PICK d \in Nat : d = -reads
      BY <1>2, <2>1
    <3>2. reads * ReadBlock = -(d * ReadBlock) /\ d * ReadBlock \in Nat
      BY <1>1, <1>2, <3>1
    <3> QED
      BY <1>1, <1>3, <3>2
  <2> QED
    BY <1>2, <2>1
<1> HIDE DEF reads
<1>5. AllBlocks = [i \in 1..reads |-> (i - 1) * ReadBlock]
  BY DEF AllBlocks, reads
<1>6. AllBlocks \in Seq(Int) /\ Len(AllBlocks) = reads
  <2>1. AllBlocks \in [1..reads -> Int]
    BY <1>1, <1>4, <1>5
  <2> QED
    BY <1>4, <2>1
<1> QED
  BY <1>3, <1>4, <1>5, <1>6 DEF reads

\* A READ no later than the last is one of them, and the last one is the last.
LEMMA ReadOfMemory ==
  ASSUME NEW k \in Nat, k * ReadBlock <= LastRead
  PROVE  /\ k + 1 \in 1..Len(AllBlocks)
         /\ AllBlocks[k + 1] = k * ReadBlock
         /\ k * ReadBlock = LastRead => k + 1 = Len(AllBlocks)
<1> DEFINE reads == Len(AllBlocks)
<1>1. /\ reads \in Nat \ {0} /\ reads * ReadBlock = LastBlock + 1
      /\ \A i \in 1..reads : AllBlocks[i] = (i - 1) * ReadBlock
  BY MemoryInReads
<1> HIDE DEF reads
<1>2. LastBlock \in Nat /\ ReadBlock \in Nat \ {0} /\ LastRead = LastBlock + 1 - ReadBlock
  BY MemoryAssumption DEF LastRead
<1>3. (k + 1) * ReadBlock = k * ReadBlock + ReadBlock /\ k * ReadBlock \in Nat
  BY <1>2
<1>4. (k + 1) * ReadBlock <= reads * ReadBlock
  BY <1>1, <1>2, <1>3
<1>5. ASSUME reads < k + 1 PROVE FALSE
  <2>1. PICK d \in Nat : k + 1 = reads + 1 + d
    <3>1. k - reads \in Nat /\ k + 1 = reads + 1 + (k - reads)
      BY <1>1, <1>5
    <3> QED
      BY <3>1
  <2>2. (k + 1) * ReadBlock = reads * ReadBlock + ReadBlock + d * ReadBlock
        /\ d * ReadBlock \in Nat /\ reads * ReadBlock \in Nat
    BY <1>1, <1>2, <2>1
  <2> QED
    BY <1>2, <1>4, <2>2
<1>6. ASSUME k * ReadBlock = LastRead, k + 1 < reads PROVE FALSE
  <2>1. PICK d \in Nat : reads = k + 1 + 1 + d
    <3>1. reads - k - 2 \in Nat /\ reads = k + 1 + 1 + (reads - k - 2)
      BY <1>1, <1>6
    <3> QED
      BY <3>1
  <2>2. reads * ReadBlock = (k + 1) * ReadBlock + ReadBlock + d * ReadBlock
        /\ d * ReadBlock \in Nat
    BY <1>2, <2>1
  <2> QED
    BY <1>1, <1>2, <1>3, <1>6, <2>2
<1>7. k + 1 \in 1..reads
  BY <1>1, <1>5
<1>8. AllBlocks[k + 1] = k * ReadBlock
  <2>1. AllBlocks[k + 1] = (k + 1 - 1) * ReadBlock /\ k + 1 - 1 = k
    BY <1>1, <1>7
  <2> QED
    BY <2>1
<1>9. k * ReadBlock = LastRead => k + 1 = reads
  BY <1>1, <1>6, <1>7
<1> QED
  BY <1>7, <1>8, <1>9 DEF reads

\* With one more READ printed, the next is the one to print, or all have been.
LEMMA PrintNext ==
  ASSUME dumped \in Seq(NoBlock..LastBlock), NEW block \in Nat, block <= LastRead,
         PrintedUpTo(block)
  PROVE  /\ DumpInOrder
         /\ dumped # AllBlocks
         /\ AllBlocks[Len(dumped) + 1] = block
         /\ dumped' = Append(dumped, block) =>
              /\ DumpInOrder'
              /\ Len(dumped') * ReadBlock = block + ReadBlock
              /\ \A i \in DOMAIN dumped' : dumped'[i] = (i - 1) * ReadBlock
              /\ block = LastRead => dumped' = AllBlocks
         /\ dumped' = Append(dumped, NoBlock) => DumpInOrder'
<1> DEFINE k == Len(dumped)
<1>1. /\ k \in Nat /\ DOMAIN dumped = 1..k /\ k * ReadBlock = block
      /\ \A i \in 1..k : dumped[i] = (i - 1) * ReadBlock
  BY DEF PrintedUpTo
<1>2. /\ k + 1 \in 1..Len(AllBlocks) /\ AllBlocks[k + 1] = block
      /\ block = LastRead => k + 1 = Len(AllBlocks)
  BY <1>1, ReadOfMemory
<1>3. /\ AllBlocks \in Seq(Int) /\ DOMAIN AllBlocks = 1..Len(AllBlocks)
      /\ Len(AllBlocks) \in Nat
      /\ \A i \in 1..Len(AllBlocks) : AllBlocks[i] = (i - 1) * ReadBlock
  BY MemoryInReads
<1>4. \A i \in 1..k : i \in DOMAIN AllBlocks /\ dumped[i] = AllBlocks[i]
  <2>1. Len(AllBlocks) \in Nat
    BY <1>3
  <2>2. \A i \in 1..k : i \in 1..Len(AllBlocks)
    <3>1. k \in Nat /\ k + 1 \in 1..Len(AllBlocks)
      BY <1>1, <1>2
    <3> QED
      BY <2>1, <3>1
  <2> QED
    BY <1>1, <1>3, <2>2
<1>5. DumpInOrder
  BY <1>1, <1>4 DEF DumpInOrder
<1>6. dumped # AllBlocks
  BY <1>1, <1>2
<1>7. ASSUME NEW b, dumped' = Append(dumped, b)
      PROVE  /\ Len(dumped') = k + 1 /\ DOMAIN dumped' = 1..(k + 1)
             /\ dumped'[k + 1] = b
             /\ \A i \in 1..k : dumped'[i] = dumped[i]
  <2> DEFINE S == (NoBlock..LastBlock) \cup {b}
  <2>1. dumped \in Seq(S) /\ b \in S
    <3> DEFINE B == NoBlock..LastBlock
    <3>1. B \subseteq S /\ b \in S /\ dumped \in Seq(B)
      OBVIOUS
    <3> HIDE DEF S, B
    <3> QED
      BY <3>1
  <2> HIDE DEF S
  <2>2. /\ Append(dumped, b) \in Seq(S) /\ Len(Append(dumped, b)) = k + 1
        /\ Append(dumped, b)[k + 1] = b
        /\ \A i \in 1..k : Append(dumped, b)[i] = dumped[i]
    BY <2>1, AppendProperties
  <2>3. DOMAIN Append(dumped, b) = 1..(k + 1)
    BY <2>2
  <2> QED
    BY <1>7, <2>2, <2>3
<1>8. ASSUME dumped' = Append(dumped, NoBlock) PROVE DumpInOrder'
  <2>1. \A i \in DOMAIN dumped' : i \in 1..k \/ i = k + 1
    BY <1>1, <1>7, <1>8
  <2> QED
    BY <1>4, <1>7, <1>8, <2>1 DEF DumpInOrder, AllBlocks
<1>9. ASSUME dumped' = Append(dumped, block)
      PROVE  /\ DumpInOrder'
             /\ Len(dumped') * ReadBlock = block + ReadBlock
             /\ \A i \in DOMAIN dumped' : dumped'[i] = (i - 1) * ReadBlock
             /\ block = LastRead => dumped' = AllBlocks
  <2>1. \A i \in DOMAIN dumped' : i \in DOMAIN AllBlocks /\ dumped'[i] = AllBlocks[i]
    <3>1. \A i \in DOMAIN dumped' : i \in 1..k \/ i = k + 1
      BY <1>1, <1>7, <1>9
    <3>2. \A i \in 1..k : dumped'[i] = dumped[i]
      BY <1>7, <1>9
    <3>3. dumped'[k + 1] = block
      BY <1>7, <1>9
    <3>4. k + 1 \in DOMAIN AllBlocks
      BY <1>2, <1>3
    <3> QED
      BY <1>2, <1>4, <3>1, <3>2, <3>3, <3>4
  <2>2. DumpInOrder'
    BY <2>1 DEF DumpInOrder, AllBlocks
  <2>3. (k + 1) * ReadBlock = k * ReadBlock + ReadBlock
    BY <1>1, MemoryAssumption
  <2>4. \A i \in DOMAIN dumped' : dumped'[i] = (i - 1) * ReadBlock
    BY <1>3, <2>1
  <2>5. ASSUME block = LastRead PROVE dumped' = AllBlocks
    <3>1. Len(AllBlocks) = k + 1
      BY <1>2, <2>5
    <3>2. dumped' \in Seq(Int)
      <4>1. dumped \in Seq(Int) /\ block \in Int
        <5> DEFINE B == NoBlock..LastBlock
                   Z == Int
        <5>1. B \subseteq Z /\ dumped \in Seq(B) /\ block \in Z
          OBVIOUS
        <5> HIDE DEF B, Z
        <5>2. dumped \in Seq(Z)
          BY <5>1, SeqMonotonic
        <5> QED
          BY <5>1, <5>2 DEF Z
      <4> QED
        BY <1>9, <4>1
    <3> QED
      BY <1>3, <1>7, <1>9, <2>1, <3>1, <3>2, SeqEqual
  <2> QED
    BY <1>1, <1>7, <1>9, <2>2, <2>3, <2>4, <2>5
<1> QED
  BY <1>2, <1>5, <1>6, <1>8, <1>9

-----------------------------------------------------------------------------
\* What an activation says of a tag.

\* What the one structure keeps of an earlier tag does not change the kind of
\* the new one, nor the length of an NFCID that is printed.
LEMMA KindKept ==
  ASSUME NEW old \in RfParams, NEW rf \in RfParams
  PROVE  LET new == SetRfTechSpecParams(old, ActivatedPacket(rf))
         IN  /\ TagKind(new) = TagKind(rf)
             /\ TagKind(rf) \in TagIntfs => new.nfcidLen = rf.nfcidLen
<1> DEFINE p == ActivatedPacket(rf)
<1>1. p.tech = TRUE /\ p.rf = rf
  BY DEF ActivatedPacket, Packet
<1> HIDE DEF p
<1>2. CASE rf.type # "POLL_A"
  BY <1>1, <1>2 DEF SetRfTechSpecParams, TagKind, TagIntfs, RfParams, p
<1>3. CASE rf.type = "POLL_A" /\ rf.selResLen = 0
  BY <1>1, <1>3 DEF SetRfTechSpecParams, TagKind, RfParams, p
<1>4. CASE rf.type = "POLL_A" /\ rf.selResLen # 0
  BY <1>1, <1>4 DEF SetRfTechSpecParams, p
<1> QED
  BY <1>2, <1>3, <1>4

\* The label of a tag, as the stack and the sketch have it.
LEMMA Labelled ==
  ASSUME NEW rf
  PROVE  /\ LabelOf(rf) # Unread
         /\ LabelOf(rf).intf = IF TagKind(rf) \in TagIntfs THEN TagKind(rf) ELSE "NULL"
         /\ TagKind(rf) \in TagIntfs => LabelOf(rf).nfcidLen = rf.nfcidLen
         /\ TagKind(rf) \in TagIntfs \cup {"NULL", "KEEP"}
<1>1. TagKind(rf) \in TagIntfs \cup {"NULL", "KEEP"}
  BY DEF TagKind, TagIntfs
<1>2. TagIntfs = {"T2", "MIFARE"} /\ Unread.intf = "UNREAD" /\ UnknownTag.intf = "NULL"
  BY DEF TagIntfs, Unread, UnknownTag
<1> QED
  BY <1>1, <1>2 DEF LabelOf

\* An activation that is awaited has the tag known and shown for what it is, and
\* nothing printed of it yet.
LEMMA TagIdentified ==
  ASSUME NEW rf \in Tags, rfIntf \in RfParams, ReceiveEvent(ActivatedPacket(rf)),
         nciState = "RFST_DISCOVERY", tagIntf = "NULL", SketchCallbacks
  PROVE  /\ tagsState' = "DISCOVER_ACTIVATED" /\ tagIntf' = LabelOf(rf).intf
         /\ tagIntf' # "NULL" => rfPtr'[tagIntf'] = "rfIntf"
         /\ shown' = LabelOf(rf) /\ dumped' = <<>>
         /\ app' = IF sketch = "TagDump" /\ tagIntf' = "T2" THEN "DUMP" ELSE "DEACTIVATE"
<1>1. /\ tagsState' = "DISCOVER_ACTIVATED"
      /\ api' = ApiCall("cbDiscoverNtf", "OK", "DISCOVER_ACTIVATED")
      /\ rfIntf' = SetRfTechSpecParams(rfIntf, ActivatedPacket(rf))
      /\ tagIntf' = IF TagKind(rfIntf') = "KEEP" THEN "NULL" ELSE TagKind(rfIntf')
      /\ rfPtr' = [i \in TagIntfs |-> IF i = TagKind(rfIntf') THEN "rfIntf" ELSE rfPtr[i]]
  BY ActivationRead
<1>2. /\ TagKind(rfIntf') = TagKind(rf)
      /\ TagKind(rf) \in TagIntfs => rfIntf'.nfcidLen = rf.nfcidLen
  BY <1>1, KindKept, TagsAssumption
<1>3. /\ LabelOf(rf).intf = IF TagKind(rf) \in TagIntfs THEN TagKind(rf) ELSE "NULL"
      /\ TagKind(rf) \in TagIntfs \cup {"NULL", "KEEP"}
  BY Labelled
<1>4. "NULL" \notin TagIntfs /\ "KEEP" \notin TagIntfs
  BY DEF TagIntfs
<1>5. tagIntf' = LabelOf(rf).intf
  BY <1>1, <1>2, <1>3, <1>4
<1>6. tagIntf' # "NULL" =>
        /\ tagIntf' = TagKind(rf) /\ TagKind(rf) \in TagIntfs /\ rfPtr'[tagIntf'] = "rfIntf"
  BY <1>1, <1>2, <1>3, <1>4, <1>5
<1>7. api'.fn = "cbDiscoverNtf" /\ api'.status = "OK"
  BY <1>1 DEF ApiCall
<1>8. ShowTag(api') /\ dumped' = <<>>
  BY <1>7 DEF SketchCallbacks, DumpCallbacks, DetectCallbacks
<1>9. shown' = LabelOf(rf)
  <2>1. CASE tagIntf' = "NULL"
    <3>1. TagKind(rf) \notin TagIntfs
      BY <1>3, <1>4, <1>5, <2>1
    <3> QED
      BY <1>7, <1>8, <2>1, <3>1 DEF ShowTag, Detected, LabelOf
  <2>2. CASE tagIntf' # "NULL"
    <3>1. NfcidLens(tagIntf') = {rf.nfcidLen}
      BY <1>2, <1>6, <2>2 DEF NfcidLens
    <3>2. shown' \in [intf : {tagIntf'}, nfcidLen : {rf.nfcidLen}]
      BY <1>7, <1>8, <2>2, <3>1 DEF ShowTag, Detected
    <3>3. shown' = [intf |-> tagIntf', nfcidLen |-> rf.nfcidLen]
      BY <3>2
    <3> QED
      BY <1>6, <2>2, <3>3 DEF LabelOf
  <2> QED
    BY <2>1, <2>2
<1> QED
  BY <1>1, <1>5, <1>6, <1>8, <1>9, Heard

-----------------------------------------------------------------------------
\* What is unread.

\* Only the packets that come or go tell whether an activation is unread.
LEMMA UnreadKept ==
  ASSUME NEW S, toHost \in Seq(S)
  PROVE  /\ toHost # <<>> /\ Head(toHost).oid # "RF_INTF_ACTIVATED" /\ toHost' = Tail(toHost) =>
              (ActivationUnread' <=> ActivationUnread)
         /\ \A packets \in Seq(S) :
              /\ \A i \in DOMAIN packets : packets[i].oid # "RF_INTF_ACTIVATED"
              /\ toHost' = toHost \o packets
              => (ActivationUnread' <=> ActivationUnread)
<1>1. ASSUME toHost # <<>>, Head(toHost).oid # "RF_INTF_ACTIVATED", toHost' = Tail(toHost)
      PROVE  ActivationUnread' <=> ActivationUnread
  <2>1. /\ Len(toHost) \in Nat \ {0} /\ DOMAIN toHost = 1..Len(toHost)
        /\ DOMAIN toHost' = 1..(Len(toHost) - 1)
        /\ \A i \in 1..(Len(toHost) - 1) : toHost'[i] = toHost[i + 1]
        /\ toHost[1].oid # "RF_INTF_ACTIVATED"
    BY <1>1, HeadTailProperties, EmptySeq
  <2>2. ASSUME ActivationUnread' PROVE ActivationUnread
    <3>1. PICK i \in 1..(Len(toHost) - 1) : toHost'[i].oid = "RF_INTF_ACTIVATED"
      BY <2>1, <2>2 DEF ActivationUnread
    <3>2. i + 1 \in DOMAIN toHost /\ toHost[i + 1].oid = "RF_INTF_ACTIVATED"
      BY <2>1, <3>1
    <3> QED
      BY <3>2 DEF ActivationUnread
  <2>3. ASSUME ActivationUnread PROVE ActivationUnread'
    <3>1. PICK i \in 1..Len(toHost) : toHost[i].oid = "RF_INTF_ACTIVATED"
      BY <2>1, <2>3 DEF ActivationUnread
    <3>2. i # 1
      BY <2>1, <3>1
    <3>3. i - 1 \in 1..(Len(toHost) - 1) /\ (i - 1) + 1 = i
      BY <2>1, <3>1, <3>2
    <3>4. i - 1 \in DOMAIN toHost' /\ toHost'[i - 1].oid = "RF_INTF_ACTIVATED"
      BY <2>1, <3>1, <3>3
    <3> QED
      BY <3>4 DEF ActivationUnread
  <2> QED
    BY <2>2, <2>3
<1>2. ASSUME NEW packets \in Seq(S), toHost' = toHost \o packets,
             \A i \in DOMAIN packets : packets[i].oid # "RF_INTF_ACTIVATED"
      PROVE  ActivationUnread' <=> ActivationUnread
  <2> DEFINE m == Len(toHost)
             n == Len(packets)
  <2>1. /\ m \in Nat /\ n \in Nat /\ DOMAIN toHost = 1..m /\ DOMAIN packets = 1..n
        /\ DOMAIN toHost' = 1..(m + n)
        /\ \A i \in 1..(m + n) :
             toHost'[i] = IF i <= m THEN toHost[i] ELSE packets[i - m]
    BY <1>2, ConcatProperties
  <2> HIDE DEF m, n
  <2>2. ASSUME ActivationUnread' PROVE ActivationUnread
    <3>1. PICK i \in 1..(m + n) : toHost'[i].oid = "RF_INTF_ACTIVATED"
      BY <2>1, <2>2 DEF ActivationUnread
    <3>2. CASE i <= m
      <4>1. i \in DOMAIN toHost /\ toHost[i].oid = "RF_INTF_ACTIVATED"
        BY <2>1, <3>1, <3>2
      <4> QED
        BY <4>1 DEF ActivationUnread
    <3>3. CASE ~(i <= m)
      <4>1. i - m \in 1..n
        BY <2>1, <3>1, <3>3
      <4> QED
        BY <1>2, <2>1, <3>1, <3>3, <4>1
    <3> QED
      BY <3>2, <3>3
  <2>3. ASSUME ActivationUnread PROVE ActivationUnread'
    <3>1. PICK i \in 1..m : toHost[i].oid = "RF_INTF_ACTIVATED"
      BY <2>1, <2>3 DEF ActivationUnread
    <3>2. i \in 1..(m + n) /\ i <= m
      BY <2>1, <3>1
    <3>3. i \in DOMAIN toHost' /\ toHost'[i].oid = "RF_INTF_ACTIVATED"
      BY <2>1, <3>1, <3>2
    <3> QED
      BY <3>3 DEF ActivationUnread
  <2> QED
    BY <2>2, <2>3
<1> QED
  BY <1>1, <1>2

-----------------------------------------------------------------------------
\* What a turn of NfcNci reads.

\* What the packets of the controller say they are.
LEMMA PacketOids ==
  /\ \A cmd, status : Reply(cmd, status).oid = cmd
  /\ \A rf : ActivatedPacket(rf).oid = "RF_INTF_ACTIVATED"
  /\ \A valid, block : DataPacket(valid, block).oid = "OTHER"
  /\ Credits.oid = "CONN_CREDITS" /\ Deactivated.oid = "RF_DEACTIVATE"
  /\ InterfaceError.oid = "OTHER" /\ EmptyAnswer.oid = "OTHER"
BY DEF Reply, RspPacket, ActivatedPacket, DataPacket, Credits, Deactivated, InterfaceError,
   EmptyAnswer, Packet

\* No activation is among what a READ may bring.
LEMMA AnswerOids ==
  ASSUME NEW block, NEW answer \in Answers(block)
  PROVE  answer.oid = "OTHER"
<1>1. \/ answer = DataPacket(TRUE, block) \/ answer = DataPacket(FALSE, block)
      \/ answer = EmptyAnswer \/ answer = InterfaceError
  BY DEF Answers
<1>2. \A valid : DataPacket(valid, block).oid = "OTHER"
  BY PacketOids
<1>3. EmptyAnswer.oid = "OTHER" /\ InterfaceError.oid = "OTHER"
  BY PacketOids
<1> QED
  BY <1>1, <1>2, <1>3

\* A line without an activation, of up to two packets.
LEMMA NoneUnread ==
  /\ toHost = <<>> => ~ActivationUnread
  /\ \A p : toHost = <<p>> => (ActivationUnread <=> p.oid = "RF_INTF_ACTIVATED")
  /\ \A p, q : toHost = <<p, q>> =>
       (ActivationUnread <=> p.oid = "RF_INTF_ACTIVATED" \/ q.oid = "RF_INTF_ACTIVATED")
<1>1. ASSUME toHost = <<>> PROVE ~ActivationUnread
  <2>1. DOMAIN toHost = {}
    BY <1>1
  <2> QED
    BY <2>1 DEF ActivationUnread
<1>2. ASSUME NEW p, toHost = <<p>>
      PROVE  ActivationUnread <=> p.oid = "RF_INTF_ACTIVATED"
  <2>1. DOMAIN toHost = {1} /\ toHost[1] = p
    BY <1>2
  <2> QED
    BY <2>1 DEF ActivationUnread
<1>3. ASSUME NEW p, NEW q, toHost = <<p, q>>
      PROVE  ActivationUnread <=> p.oid = "RF_INTF_ACTIVATED" \/ q.oid = "RF_INTF_ACTIVATED"
  <2>1. DOMAIN toHost = {1, 2} /\ toHost[1] = p /\ toHost[2] = q
    BY <1>3
  <2> QED
    BY <2>1 DEF ActivationUnread
<1> QED
  BY <1>1, <1>2, <1>3

\* An activation is read only where it is awaited.
LEMMA ActivationAwaited ==
  ASSUME Talking, NciTurn
  PROVE  /\ tagsState # "DISCOVER_NTF" => Head(toHost).oid # "RF_INTF_ACTIVATED"
         /\ tagsState = "DISCOVER_NTF" => \E rf \in active : toHost = <<ActivatedPacket(rf)>>
         /\ tagsState \notin {"NONE", "INIT_DONE", "DISCOVER_ACTIVATED"}
<1>1. pc = "nci" /\ toHost # <<>>
  BY DEF NciTurn, PacketRead
<1>2. tagsState \in TagsStates /\ t2State \in {"NONE", "DUMP", "DUMP_RSP"}
  BY DEF Talking, SysInv, SysTypeOK, TypeOK, T2TypeOK
<1>3. tagsState \notin {"NONE", "INIT_DONE", "DISCOVER_ACTIVATED"}
  BY <1>1 DEF Talking, Talk, HasTag
<1>4. ASSUME NEW cmd \in Commands \ {"DATA"}, NEW from, NEW to,
             Asks(cmd, from) \/ Grants(cmd, to)
      PROVE  Head(toHost).oid # "RF_INTF_ACTIVATED"
  <2>1. \E status : toHost = <<Reply(cmd, status)>>
    BY <1>1, <1>4 DEF Asks, Grants, LinesIdle
  <2>2. Head(toHost).oid = cmd
    BY <2>1, LineRead, PacketOids
  <2> QED
    BY <2>2 DEF Commands
<1>5. ASSUME NEW p, NEW q, p.oid # "RF_INTF_ACTIVATED",
             Searches(<<p>>) \/ Searches(<<p, q>>)
      PROVE  Head(toHost).oid # "RF_INTF_ACTIVATED"
  <2>1. \A a : Append(<<p>>, a) = <<p, a>> /\ Append(<<p, q>>, a) = <<p, q, a>>
    BY ShortLines
  <2>2. \A a : Head(<<p>>) = p /\ Head(<<p, q>>) = p /\ Head(<<p, a>>) = p
               /\ Head(<<p, q, a>>) = p
    BY LineRead
  <2>3. Head(toHost) = p
    BY <1>5, <2>1, <2>2 DEF Searches
  <2> QED
    BY <1>5, <2>3
<1>6. CASE tagsState \in {"INIT_RESET", "INIT_INIT", "DISCOVER_MAP"}
  BY <1>3, <1>4, <1>6 DEF Talking, Talk, Commands
<1>7. CASE tagsState = "DISCOVER"
  <2>1. Reply("RF_DISCOVER", "OK").oid # "RF_INTF_ACTIVATED"
    BY PacketOids
  <2>2. Asks("RF_DISCOVER", "IDLE") \/ Searches(<<Reply("RF_DISCOVER", "OK")>>)
    BY <1>7 DEF Talking, Talk
  <2> QED
    BY <1>4, <1>5, <1>7, <2>1, <2>2 DEF Commands
<1>8. CASE tagsState \in {"DEACTIVATE", "DEACTIVATE_RSP"}
  <2>1. Reply("RF_DEACTIVATE", "OK").oid # "RF_INTF_ACTIVATED"
        /\ Deactivated.oid # "RF_INTF_ACTIVATED"
    BY PacketOids
  <2>2. \/ Asks("RF_DEACTIVATE", "ACTIVE")
        \/ Searches(<<Reply("RF_DEACTIVATE", "OK"), Deactivated>>)
        \/ Searches(<<Deactivated>>)
    BY <1>8 DEF Talking, Talk
  <2> QED
    BY <1>4, <1>5, <1>8, <2>1, <2>2 DEF Commands
<1>9. CASE tagsState = "DUMP"
  <2>1. LinesIdle \/ Reads(t2Block)
    BY <1>2, <1>9 DEF Talking, Talk, Dumps
  <2>2. PICK answer \in Answers(t2Block) : toHost \in {<<Credits, answer>>, <<answer>>}
    BY <1>1, <2>1 DEF Reads, LinesIdle
  <2>3. Head(toHost) \in {Credits, answer}
    BY <2>2, LineRead
  <2> QED
    BY <1>9, <2>3, PacketOids, AnswerOids
<1>10. CASE tagsState = "DISCOVER_NTF"
  BY <1>1, <1>10, ShortLines DEF Talking, Talk, Searches
<1> QED
  BY <1>2, <1>3, <1>6, <1>7, <1>8, <1>9, <1>10 DEF TagsStates, Talking, Talk

\* Where no activation is awaited and no dump is going on, nothing is printed,
\* and the state that NfcTags comes to is none of those.
LEMMA OtherRead ==
  ASSUME Talking, NciTurn, SketchCallbacks, tagsState \notin {"DISCOVER_NTF", "DUMP"}
  PROVE  /\ UNCHANGED <<active, shown, dumped>>
         /\ ActivationUnread' <=> ActivationUnread
         /\ tagsState' \notin {"DISCOVER_ACTIVATED", "DUMP"}
         /\ tagsState' = "DEACTIVATE" => tagsState = "DEACTIVATE"
<1> DEFINE p == Head(toHost)
<1>1. /\ toHost # <<>> /\ toHost' = Tail(toHost) /\ UNCHANGED active
      /\ NciHandleEvent(p) /\ OnNciCallback(p)
  BY DEF NciTurn, PacketRead, ReceiveEvent
<1>2. p.oid # "RF_INTF_ACTIVATED" /\ tagsState # "DISCOVER_ACTIVATED"
  BY ActivationAwaited
<1>3. ActivationUnread' <=> ActivationUnread
  <2>1. toHost \in Seq(Packets)
    BY DEF Talking, SysInv, SysTypeOK
  <2> QED
    BY <1>1, <1>2, <2>1, UnreadKept
<1> HIDE DEF p
<1>4. tagIntf = "NULL"
  BY <1>2 DEF Talking, Kept
<1>5. nciCb'.fn # "cbRfDiscoverNtf"
  BY <1>1, <1>2 DEF NciHandleEvent, HandleCoreEvent, HandleRfEvent, HandleDataEvent, Ignore,
     Error, RspCoreReset, RspCoreInit, RspRfDiscoverMap, RspRfDiscover, RspRfDeactivate,
     NtfRfDeactivate, Callback, Call, NoCall
<1>6. /\ api'.fn # "cbDiscoverNtf" /\ api'.dump = FALSE
      /\ tagsState' \in {tagsState, "INIT_INIT", "INIT_DONE", "DISCOVER", "DISCOVER_NTF",
                         "DEACTIVATE_RSP"}
  <2> USE DEF Progress, Notify, Upcall, NoUpcall, NoApi, ApiCall
  <2>1. CASE CbCoreReset \/ CbCoreInit \/ CbRfDiscoverMap \/ CbRfDiscover
    BY <2>1 DEF CbCoreReset, CbCoreInit, CbRfDiscoverMap, CbRfDiscover
  <2>2. CASE CbRfDeactivate \/ CbRfDeactivateNtf
    BY <2>2 DEF CbRfDeactivate, CbRfDeactivateNtf
  <2>3. CASE CbData(p) \/ NoCallback
    BY <1>4, <2>3 DEF CbData, NoCallback, tagsVars
  <2> QED
    BY <1>1, <1>5, <2>1, <2>2, <2>3 DEF OnNciCallback, CbRfDiscoverNtf, CalledBack
<1>7. UNCHANGED <<shown, dumped>>
  BY <1>6 DEF SketchCallbacks, DumpCallbacks, DetectCallbacks, ShowTag, Detected
<1> QED
  BY <1>1, <1>2, <1>3, <1>6, <1>7

\* During a dump the credits or the error of the interface are read, which change
\* nothing, or an answer that is printed and moves the dump on.
LEMMA DumpRead ==
  ASSUME Talking, NciTurn, SketchCallbacks, tagsState = "DUMP"
  PROVE  /\ UNCHANGED <<active, shown, tagsVars>>
         /\ ~ActivationUnread /\ ~ActivationUnread'
         /\ sketch = "TagDump" /\ tagIntf = "T2" /\ t2State = "DUMP_RSP"
         /\ \/ UNCHANGED <<t2Vars, app, dumped>>
            \/ \E valid \in BOOLEAN :
                 /\ valid \/ "READ_ERROR" \in Faults
                 /\ t2State' = IF valid /\ t2Block < LastRead THEN "DUMP" ELSE "NONE"
                 /\ t2Block' = IF valid /\ t2Block < LastRead THEN (t2Block + ReadBlock) % 256
                                                              ELSE t2Block
                 /\ dumped' = Append(dumped, IF valid THEN t2Block ELSE NoBlock)
<1>1. /\ pc = "nci" /\ toHost # <<>> /\ toHost' = Tail(toHost)
      /\ Head(toHost).len = "NONE" => Len(toHost) > 1
      /\ ReceiveEvent(Head(toHost)) /\ UNCHANGED active
  BY DEF NciTurn, PacketRead
<1>2. Dumps
  BY DEF Talking, Talk
<1>3. /\ t2State = "DUMP_RSP" /\ Reads(t2Block) /\ tagIntf = "T2" /\ t2Id = "DUMP"
      /\ sketch = "TagDump"
  BY <1>1, <1>2 DEF Dumps, LinesIdle, Talking, SysInv, SysTypeOK, TypeOK, T2TypeOK
<1>4. PICK answer \in Answers(t2Block) : toHost \in {<<Credits, answer>>, <<answer>>}
  BY <1>1, <1>3 DEF Reads, LinesIdle
<1>5. /\ Credits.oid # "RF_INTF_ACTIVATED" /\ answer.oid # "RF_INTF_ACTIVATED"
  BY PacketOids, AnswerOids
<1>6. ~ActivationUnread /\ ~ActivationUnread'
  <2>1. ~ActivationUnread
    BY <1>4, <1>5, NoneUnread
  <2>2. Head(toHost).oid # "RF_INTF_ACTIVATED"
    BY <1>4, <1>5, LineRead
  <2>3. toHost \in Seq(Packets)
    BY DEF Talking, SysInv, SysTypeOK
  <2> QED
    BY <1>1, <2>1, <2>2, <2>3, UnreadKept
<1>7. ASSUME NEW p \in {Credits, InterfaceError}, Head(toHost) = p
      PROVE  UNCHANGED <<shown, tagsVars, t2Vars, app, dumped>>
  BY <1>1, <1>7, NoticeRead, Heard DEF Still
<1>8. ASSUME NEW valid \in BOOLEAN, toHost = <<DataPacket(valid, t2Block)>>
      PROVE  /\ UNCHANGED <<shown, tagsVars>>
             /\ t2State' = IF valid /\ t2Block < LastRead THEN "DUMP" ELSE "NONE"
             /\ t2Block' = IF valid /\ t2Block < LastRead THEN (t2Block + ReadBlock) % 256
                                                          ELSE t2Block
             /\ dumped' = Append(dumped, IF valid THEN t2Block ELSE NoBlock)
  <2> DEFINE p == DataPacket(valid, t2Block)
  <2>1. ReceiveEvent(p)
    BY <1>1, <1>8, LineRead
  <2>2. T2HandleDataDump(p) /\ api' = DumpCall(p) /\ UNCHANGED tagsVars
    BY <1>3, <2>1, DataRead
  <2>3. p.valid = valid /\ p.block = t2Block
    BY DEF DataPacket, Packet
  <2> HIDE DEF p
  <2>4. T2More(p) <=> valid /\ t2Block < LastRead
    BY <2>3 DEF T2More
  <2>5. /\ api'.fn = "cbDump" /\ api'.dump = TRUE
        /\ api'.block = IF valid THEN t2Block ELSE NoBlock
    BY <2>2, <2>3 DEF DumpCall
  <2>6. UNCHANGED shown /\ dumped' = Append(dumped, api'.block)
    BY <1>3, <2>5 DEF SketchCallbacks, DumpCallbacks, ShowTag, Detected
  <2> QED
    BY <2>2, <2>4, <2>5, <2>6 DEF T2HandleDataDump
<1>9. ~(toHost = <<EmptyAnswer>>)
  <2>1. EmptyAnswer.len = "NONE"
    BY DEF EmptyAnswer, DataPacket, Packet
  <2> QED
    BY <1>1, <2>1, LineRead
<1>10. CASE toHost = <<Credits, answer>> \/ toHost = <<InterfaceError>>
  <2>1. Head(toHost) \in {Credits, InterfaceError}
    BY <1>10, LineRead
  <2> QED
    BY <1>1, <1>3, <1>6, <1>7, <2>1
<1>11. CASE toHost = <<DataPacket(TRUE, t2Block)>>
  BY <1>1, <1>3, <1>6, <1>8, <1>11
<1>12. CASE toHost = <<DataPacket(FALSE, t2Block)>> /\ "READ_ERROR" \in Faults
  BY <1>1, <1>3, <1>6, <1>8, <1>12
<1> QED
  BY <1>4, <1>9, <1>10, <1>11, <1>12 DEF Answers

-----------------------------------------------------------------------------
\* What a step of the controller does to the tag it has activated.

\* Up to two packets that are no activations.
LEMMA NoActivations ==
  ASSUME NEW p \in NfccPackets, NEW q \in NfccPackets,
         p.oid # "RF_INTF_ACTIVATED", q.oid # "RF_INTF_ACTIVATED",
         NEW packets \in {<<p>>, <<p, q>>}
  PROVE  /\ packets \in Seq(NfccPackets)
         /\ \A i \in DOMAIN packets : packets[i].oid # "RF_INTF_ACTIVATED"
<1>1. CASE packets = <<p>>
  <2>1. DOMAIN packets = {1} /\ packets[1] = p /\ packets \in Seq(NfccPackets)
    BY <1>1
  <2> QED
    BY <2>1
<1>2. CASE packets = <<p, q>>
  <2>1. /\ DOMAIN packets = {1, 2} /\ packets[1] = p /\ packets[2] = q
        /\ packets \in Seq(NfccPackets)
    BY <1>2
  <2> QED
    BY <2>1
<1> QED
  BY <1>1, <1>2

\* It finds a tag, or answers a frame: then no activation comes or goes unread,
\* and the tag stays the one that is active, or is deactivated.
LEMMA NfccMoves ==
  ASSUME SysInv, NfccStep
  PROVE  \/ Activate
         \/ (ActivationUnread' <=> ActivationUnread) /\ active' \in {active, {}}
<1>1. toHost \in Seq(NfccPackets)
  BY DEF SysInv, SysTypeOK, NfccTypeOK
<1>2. ASSUME NEW cmd \in Commands \ {"DATA"}, NEW from, NEW to,
             NEW notification \in {<<>>, <<Deactivated>>}, Answer(cmd, from, to, notification)
      PROVE  (ActivationUnread' <=> ActivationUnread) /\ active' \in {active, {}}
  <2> DEFINE refused == Reply(cmd, "FAILED")
             accepted == Reply(cmd, "OK")
  <2>1. /\ refused \in NfccPackets /\ accepted \in NfccPackets /\ Deactivated \in NfccPackets
        /\ refused.oid # "RF_INTF_ACTIVATED" /\ accepted.oid # "RF_INTF_ACTIVATED"
        /\ Deactivated.oid # "RF_INTF_ACTIVATED"
    BY PacketsMade, PacketOids DEF Commands
  <2>2. toHost' \in {toHost \o <<refused>>, toHost \o (<<accepted>> \o notification)}
        /\ active' \in {active, {}}
    BY <1>2 DEF Answer, Send
  <2> HIDE DEF refused, accepted
  <2>3. <<accepted>> \o <<>> = <<accepted>>
        /\ <<accepted>> \o <<Deactivated>> = <<accepted, Deactivated>>
    BY ShortLines
  <2>4. PICK packets \in {<<refused>>, <<accepted>>, <<accepted, Deactivated>>} :
          toHost' = toHost \o packets
    BY <2>2, <2>3
  <2>5. packets \in Seq(NfccPackets)
        /\ \A i \in DOMAIN packets : packets[i].oid # "RF_INTF_ACTIVATED"
    BY <2>1, <2>4, NoActivations
  <2> QED
    BY <1>1, <2>2, <2>4, <2>5, UnreadKept
<1>3. CASE AnswerReset \/ AnswerInit \/ AnswerDiscoverMap \/ AnswerDiscover \/ AnswerDeactivate
  BY <1>2, <1>3 DEF AnswerReset, AnswerInit, AnswerDiscoverMap, AnswerDiscover,
     AnswerDeactivate, Commands
<1>4. CASE AnswerRead
  <2>1. UNCHANGED active /\ toNfcc # <<>>
    BY <1>4 DEF AnswerRead
  <2> DEFINE block == Head(toNfcc).block
  <2>2. block \in 0..LastBlock
    <3>1. 1 \in DOMAIN toNfcc /\ Head(toNfcc) = toNfcc[1]
      BY <2>1 DEF SysInv, SysTypeOK, NfccTypeOK
    <3> QED
      BY <3>1 DEF SysInv, FramesInMemory
  <2> HIDE DEF block
  <2>3. \A answer \in TagAnswers(block) :
          answer \in NfccPackets /\ answer.oid # "RF_INTF_ACTIVATED"
    <3>1. \A answer \in TagAnswers(block) :
            \/ answer = DataPacket(TRUE, block) \/ answer = DataPacket(FALSE, block)
            \/ answer = EmptyAnswer \/ answer = InterfaceError
      BY DEF TagAnswers
    <3>2. \A valid \in BOOLEAN : /\ DataPacket(valid, block) \in NfccPackets
                                 /\ DataPacket(valid, block).oid = "OTHER"
      BY <2>2, PacketsMade, PacketOids
    <3>3. /\ EmptyAnswer \in NfccPackets /\ EmptyAnswer.oid = "OTHER"
          /\ InterfaceError \in NfccPackets /\ InterfaceError.oid = "OTHER"
      BY PacketsMade, PacketOids
    <3> QED
      BY <3>1, <3>2, <3>3
  <2>4. Credits \in NfccPackets /\ Credits.oid # "RF_INTF_ACTIVATED"
    BY PacketsMade, PacketOids
  <2>5. PICK answer \in TagAnswers(block) \cup {InterfaceError} :
          toHost' \in {toHost \o <<InterfaceError>>, toHost \o <<Credits, answer>>,
                       toHost \o <<answer, Credits>>}
    BY <1>4 DEF AnswerRead, Send, block
  <2>6. InterfaceError \in NfccPackets /\ InterfaceError.oid # "RF_INTF_ACTIVATED"
    BY PacketsMade, PacketOids
  <2>7. answer \in NfccPackets /\ answer.oid # "RF_INTF_ACTIVATED"
    BY <2>3, <2>5, <2>6
  <2>8. PICK packets \in {<<InterfaceError>>, <<Credits, answer>>, <<answer, Credits>>} :
          toHost' = toHost \o packets
    BY <2>5
  <2>9. packets \in {<<InterfaceError>>, <<InterfaceError, Credits>>}
          \/ packets \in {<<Credits>>, <<Credits, answer>>}
          \/ packets \in {<<answer>>, <<answer, Credits>>}
    BY <2>8
  <2>10. packets \in Seq(NfccPackets)
         /\ \A i \in DOMAIN packets : packets[i].oid # "RF_INTF_ACTIVATED"
    <3>1. CASE packets \in {<<InterfaceError>>, <<InterfaceError, Credits>>}
      BY <2>4, <2>6, <3>1, NoActivations
    <3>2. CASE packets \in {<<Credits>>, <<Credits, answer>>}
      BY <2>4, <2>7, <3>2, NoActivations
    <3>3. CASE packets \in {<<answer>>, <<answer, Credits>>}
      BY <2>4, <2>7, <3>3, NoActivations
    <3> QED
      BY <2>9, <3>1, <3>2, <3>3
  <2> QED
    BY <1>1, <2>1, <2>8, <2>10, UnreadKept
<1> QED
  BY <1>3, <1>4 DEF NfccStep

\* A tag is activated when there is none, and it is not read of yet.
LEMMA TagTakenUp ==
  ASSUME Talking, Activate, tagsState' = tagsState
  PROVE  /\ active = {} /\ ActivationUnread'
         /\ \E rf \in Tags : active' = {rf}
         /\ tagsState' \notin {"DISCOVER_ACTIVATED", "DUMP"}
<1>1. nfcc = "DISCOVERY" /\ active = {}
  BY DEF Activate, Talking, Kept
<1>2. tagsState \notin {"DISCOVER_ACTIVATED", "DUMP"}
  BY <1>1 DEF Talking, Talk, HasTag, Dumps
<1>3. PICK rf \in Tags : field = {rf}
  BY DEF Activate, Talking, SysInv, SysTypeOK, NfccTypeOK, AtMostOne
<1>4. active' = {rf} /\ toHost' = Append(toHost, ActivatedPacket(rf))
  BY <1>3 DEF Activate
<1>5. ActivationUnread'
  <2>1. toHost \in Seq(NfccPackets) /\ ActivatedPacket(rf) \in NfccPackets
    BY PacketsMade DEF Talking, SysInv, SysTypeOK, NfccTypeOK
  <2>2. Len(toHost) + 1 \in DOMAIN toHost' /\ toHost'[Len(toHost) + 1] = ActivatedPacket(rf)
    BY <1>4, <2>1, AppendProperties
  <2> QED
    BY <2>2, PacketOids DEF ActivationUnread
<1> QED
  BY <1>1, <1>2, <1>4, <1>5

\* A tag is deactivated only when the sketch has asked for it, with nothing left
\* to read.
LEMMA TagLetGo ==
  ASSUME Talking, NfccStep, active # {}, active' = {}
  PROVE  tagsState = "DEACTIVATE" /\ toHost = <<>>
<1>1. nfcc = "ACTIVE" /\ ~Activate /\ ~AnswerRead
  BY DEF Talking, Kept, Activate, AnswerRead
<1>2. toNfcc # <<>> /\ Head(toNfcc).cmd \in Commands \ {"DATA"}
  BY <1>1 DEF NfccStep, AnswerReset, AnswerInit, AnswerDiscoverMap, AnswerDiscover,
     AnswerDeactivate, Answer, Commands
<1>3. tagsState \in TagsStates /\ t2State \in {"NONE", "DUMP", "DUMP_RSP"}
  BY DEF Talking, SysInv, SysTypeOK, TypeOK, T2TypeOK
<1>4. tagsState \notin {"INIT_RESET", "INIT_INIT", "DISCOVER_MAP", "DISCOVER", "NONE", "INIT_DONE"}
  BY <1>1, <1>2 DEF Talking, Talk, Asks, Grants, Searches
<1>5. tagsState \notin {"DISCOVER_NTF", "DEACTIVATE_RSP", "DISCOVER_ACTIVATED"}
  BY <1>2 DEF Talking, Talk, HasTag, Searches, LinesIdle
<1>6. tagsState # "DUMP"
  <2>1. ASSUME tagsState = "DUMP"
        PROVE  toNfcc = <<[cmd |-> "DATA", block |-> t2Block]>>
    BY <1>2, <1>3, <2>1 DEF Talking, Talk, Dumps, Reads, LinesIdle
  <2>2. Head(<<[cmd |-> "DATA", block |-> t2Block]>>).cmd = "DATA"
    BY LineRead
  <2> QED
    BY <1>2, <2>1, <2>2
<1>7. tagsState = "DEACTIVATE"
  BY <1>3, <1>4, <1>5, <1>6 DEF TagsStates, Talking, Talk
<1> QED
  BY <1>2, <1>7 DEF Talking, Talk, Asks, Searches, LinesIdle

-----------------------------------------------------------------------------
\* Every step keeps the tag known and the memory printed as far as it has come.

\* A turn of NfcTags prints nothing.
LEMMA TagsTurnPrintsNothing ==
  ASSUME TagsTurn, SketchCallbacks
  PROVE  UNCHANGED <<shown, dumped, active, toHost, tagsVars, t2Block>>
         /\ (t2State' = "NONE" <=> t2State = "NONE")
<1>1. TagsHandleEvent /\ UNCHANGED <<active, toHost>>
  BY DEF TagsTurn
<1>2. api'.fn # "cbDiscoverNtf" /\ api'.dump = FALSE
  BY <1>1 DEF TagsHandleEvent, HandleReset, HandleDiscover, HandleDeactivate, HandleDump,
     HandleUnknown, Notify, Upcall, NoUpcall, NoApi, ApiCall
<1>3. UNCHANGED <<shown, dumped>>
  BY <1>2 DEF SketchCallbacks, DumpCallbacks, DetectCallbacks, ShowTag, Detected
<1> QED
  BY <1>1, <1>3 DEF TagsHandleEvent, HandleReset, HandleDiscover, HandleDeactivate,
     HandleDump, HandleUnknown, T2HandleDump, t2Vars

\* What the steps below start from.
Knowing == Talking /\ SketchTypeOK /\ TagKnown /\ TagPrinted

\* While what the reader sees of it stays the same, the tag stays known, in a
\* state in which no interface is needed.
LEMMA StaysKnown ==
  ASSUME Knowing, UNCHANGED <<active, shown>>, ActivationUnread' <=> ActivationUnread,
         tagsState' \notin {"DISCOVER_ACTIVATED", "DUMP"}
  PROVE  TagKnown'
<1>1. \A rf : LabelOf(rf)' = LabelOf(rf)
  OBVIOUS
<1> QED
  BY <1>1 DEF Knowing, TagKnown

\* A command takes the sketch on to the next phase of a tag, when the last one
\* is over.
LEMMA AppTurnReads ==
  ASSUME Knowing, DumpTurn \/ DetectTurn, UNCHANGED sketch
  PROVE  /\ TagKnown' /\ TagPrinted'
         /\ UNCHANGED <<active, toHost, shown, dumped>>
<1>1. /\ pc = "app" /\ UNCHANGED <<active, toHost, shown, dumped>>
  BY DEF DumpTurn, DetectTurn, AppTurn, nfccVars
<1>2. ActivationUnread' <=> ActivationUnread
  BY <1>1 DEF ActivationUnread
<1>3. /\ AllPrinted' <=> AllPrinted
      /\ DumpInOrder' <=> DumpInOrder
  BY <1>1 DEF AllPrinted, DumpInOrder
<1>4. CASE AppWaits
  <2>1. UNCHANGED <<tagsState, tagIntf, rfPtr, t2State, t2Block, app>>
    BY <1>4 DEF AppWaits, vars, tagsVars, t2Vars
  <2>2. PrintedUpTo(t2Block)' <=> PrintedUpTo(t2Block)
    BY <1>1, <2>1 DEF PrintedUpTo
  <2>3. TagPrinted'
    <3>1. TagPrinted
      BY DEF Knowing
    <3> QED
      BY <1>1, <1>2, <1>3, <2>1, <2>2, <3>1 DEF TagPrinted
  <2>4. TagKnown'
    BY <1>1, <1>2, <2>1 DEF Knowing, TagKnown
  <2> QED
    BY <1>1, <2>3, <2>4
<1>5. CASE Issue("RESET", CmdReset, "RESET_RESPONSE")
  <2>1. tagsState' = "INIT_RESET"
    BY <1>5 DEF Issue, CmdReset
  <2> QED
    BY <1>1, <1>2, <1>3, <2>1, StaysKnown DEF Knowing, TagPrinted
<1>6. CASE Issue("DISCOVER", CmdDiscover, "DISCOVER_RESPONSE")
  <2>1. tagsState = "INIT_DONE"
    BY <1>1, <1>6, WhereIssued DEF Issue, Knowing
  <2>2. tagsState' = "DISCOVER_MAP"
    BY <1>6, <2>1 DEF Issue, CmdDiscover
  <2> QED
    BY <1>1, <1>2, <1>3, <2>2, StaysKnown DEF Knowing, TagPrinted
<1>7. CASE Issue("DUMP", CmdDump, "DUMP_RESPONSE")
  <2>1. tagsState = "DISCOVER_ACTIVATED" /\ tagIntf = "T2"
    BY <1>1, <1>7, WhereIssued DEF Issue, Knowing
  <2>2. t2State = "NONE"
    BY <2>1 DEF Knowing, Talking, Kept
  <2>3. /\ tagsState' = "DUMP" /\ t2State' = "DUMP" /\ t2Block' = 0
        /\ UNCHANGED <<tagIntf, rfPtr>>
    BY <1>7, <2>1, <2>2 DEF Issue, CmdDump, IntfCmdDump, T2CmdDump, Return, ApiCall
  <2>4. dumped = <<>>
    BY <2>1 DEF Knowing, TagPrinted
  <2>5. PrintedUpTo(t2Block)'
    <3>1. Len(dumped') = 0 /\ DOMAIN dumped' = {} /\ 0 * ReadBlock = 0
      BY <1>1, <2>4, MemoryAssumption
    <3> QED
      BY <2>3, <3>1 DEF PrintedUpTo
  <2>6. TagPrinted'
    BY <1>3, <2>3, <2>5 DEF Knowing, TagPrinted
  <2>7. TagKnown'
    BY <1>1, <1>2, <2>1, <2>3 DEF Knowing, TagKnown
  <2> QED
    BY <1>1, <2>6, <2>7
<1>8. CASE Issue("DEACTIVATE", CmdDeactivate, "DEACTIVATE_RESPONSE")
  <2>1. /\ app = "DEACTIVATE" /\ tagsState \in {"DISCOVER_ACTIVATED", "DUMP"}
        /\ tagsState = "DUMP" => t2State = "NONE"
    BY <1>1, <1>8, WhereIssued DEF Issue, Knowing
  <2>2. tagsState' = "DEACTIVATE"
    BY <1>8, <2>1 DEF Issue, CmdDeactivate
  <2>3. AllPrinted
    BY <2>1 DEF Knowing, TagPrinted
  <2> QED
    BY <1>1, <1>2, <1>3, <2>2, <2>3, StaysKnown DEF Knowing, TagPrinted
<1> QED
  BY <1>4, <1>5, <1>6, <1>7, <1>8 DEF DumpTurn, DetectTurn, AppTurn

\* NfcTags and its interface send what they have to, and nothing is printed.
LEMMA TagsTurnReads ==
  ASSUME Knowing, TagsTurn, SketchCallbacks, UNCHANGED sketch
  PROVE  TagKnown' /\ TagPrinted'
<1>1. /\ UNCHANGED <<shown, dumped, active, toHost, tagsState, tagIntf, rfPtr, t2Block>>
      /\ t2State' = "NONE" <=> t2State = "NONE"
  BY TagsTurnPrintsNothing DEF tagsVars
<1>2. tagsState # "DISCOVER_ACTIVATED"
  BY DEF TagsTurn, Knowing, Talking, Talk, HasTag
<1>3. ActivationUnread' <=> ActivationUnread
  BY <1>1 DEF ActivationUnread
<1>4. /\ AllPrinted' <=> AllPrinted
      /\ DumpInOrder' <=> DumpInOrder
      /\ PrintedUpTo(t2Block)' <=> PrintedUpTo(t2Block)
  BY <1>1 DEF AllPrinted, DumpInOrder, PrintedUpTo
<1>5. TagPrinted'
  BY <1>1, <1>2, <1>3, <1>4 DEF Knowing, TagPrinted
<1>6. TagKnown'
  BY <1>1, <1>3 DEF Knowing, TagKnown
<1> QED
  BY <1>5, <1>6

\* The one tag that is active.
LEMMA TheTag ==
  ASSUME SysInv, NEW rf \in active
  PROVE  active = {rf} /\ rf \in Tags
BY DEF SysInv, SysTypeOK, NfccTypeOK, AtMostOne

\* The activation is read: the tag is known and nothing is printed of it yet.
LEMMA ActivationReads ==
  ASSUME Knowing, NciTurn, SketchCallbacks, UNCHANGED sketch, tagsState = "DISCOVER_NTF"
  PROVE  /\ TagKnown' /\ TagPrinted'
         /\ ActivationUnread /\ ~ActivationUnread' /\ UNCHANGED active
         /\ dumped' = <<>> /\ \E rf \in active : shown' = LabelOf(rf)
<1>1. PICK rf \in active : toHost = <<ActivatedPacket(rf)>>
  BY ActivationAwaited DEF Knowing
<1>2. rf \in Tags /\ active = {rf}
  BY TheTag DEF Knowing, Talking
<1>3. toHost' = <<>> /\ UNCHANGED active /\ ReceiveEvent(ActivatedPacket(rf))
  BY <1>1, LineRead DEF NciTurn, PacketRead
<1>4. nciState = "RFST_DISCOVERY" /\ tagIntf = "NULL" /\ rfIntf \in RfParams
  BY DEF Knowing, Talking, LayersAgree, StatesFor, Kept, SysInv, SysTypeOK, TypeOK,
     NciTypeOK, NciStates
<1>5. /\ tagsState' = "DISCOVER_ACTIVATED" /\ tagIntf' = LabelOf(rf).intf
      /\ tagIntf' # "NULL" => rfPtr'[tagIntf'] = "rfIntf"
      /\ shown' = LabelOf(rf) /\ dumped' = <<>>
      /\ app' = IF sketch = "TagDump" /\ tagIntf' = "T2" THEN "DUMP" ELSE "DEACTIVATE"
  BY <1>2, <1>3, <1>4, TagIdentified
<1>6. ActivationUnread /\ ~ActivationUnread'
  <2>1. ActivationUnread
    BY <1>1, NoneUnread, PacketOids
  <2>2. DOMAIN toHost' = {}
    BY <1>3
  <2> QED
    BY <2>1, <2>2 DEF ActivationUnread
<1>7. TagKnown'
  BY <1>2, <1>3, <1>5 DEF TagKnown
<1>8. DumpInOrder'
  <2>1. DOMAIN dumped' = {}
    BY <1>5
  <2> QED
    BY <2>1 DEF DumpInOrder
<1>9. app' = "DEACTIVATE" => AllPrinted'
  <2>1. TagKind(rf) = "T2" => tagIntf' = "T2"
    BY <1>5, Labelled DEF TagIntfs
  <2> QED
    BY <1>2, <1>3, <1>5, <2>1 DEF AllPrinted
<1>10. TagPrinted'
  BY <1>5, <1>8, <1>9 DEF TagPrinted
<1> QED
  BY <1>1, <1>3, <1>5, <1>6, <1>7, <1>10

\* An answer to a READ is read: the block it was for is printed, or the error.
LEMMA DumpReads ==
  ASSUME Knowing, NciTurn, SketchCallbacks, UNCHANGED sketch, tagsState = "DUMP"
  PROVE  /\ TagKnown' /\ TagPrinted' /\ UNCHANGED <<active, shown>>
         /\ ~ActivationUnread /\ ~ActivationUnread'
         /\ \/ UNCHANGED dumped
            \/ /\ sketch = "TagDump" /\ tagIntf = "T2"
               /\ dumped # AllBlocks
               /\ \/ "READ_ERROR" \in Faults
                  \/ dumped' = Append(dumped, AllBlocks[Len(dumped) + 1])
<1>1. /\ UNCHANGED <<active, shown, tagsVars>>
      /\ ~ActivationUnread /\ ~ActivationUnread'
      /\ sketch = "TagDump" /\ tagIntf = "T2" /\ t2State = "DUMP_RSP"
  BY DumpRead DEF Knowing
<1>2. TagKnown'
  BY <1>1 DEF Knowing, TagKnown, tagsVars
<1>3. CASE UNCHANGED <<t2Vars, app, dumped>>
  <2>1. /\ PrintedUpTo(t2Block)' <=> PrintedUpTo(t2Block)
        /\ DumpInOrder' <=> DumpInOrder
    BY <1>3 DEF PrintedUpTo, DumpInOrder, t2Vars
  <2>2. TagPrinted'
    BY <1>1, <1>3, <2>1 DEF Knowing, TagPrinted, tagsVars, t2Vars
  <2> QED
    BY <1>1, <1>2, <1>3, <2>2
<1>4. ASSUME NEW valid \in BOOLEAN, valid \/ "READ_ERROR" \in Faults,
             t2State' = IF valid /\ t2Block < LastRead THEN "DUMP" ELSE "NONE",
             t2Block' = IF valid /\ t2Block < LastRead THEN (t2Block + ReadBlock) % 256
                                                       ELSE t2Block,
             dumped' = Append(dumped, IF valid THEN t2Block ELSE NoBlock)
      PROVE  /\ TagPrinted' /\ dumped # AllBlocks
             /\ valid => dumped' = Append(dumped, AllBlocks[Len(dumped) + 1])
  <2>1. t2Block \in Nat /\ t2Block <= LastRead
    BY DEF Knowing, Talking, SysInv, SysTypeOK, TypeOK, T2TypeOK, DumpInBounds
  <2>2. PrintedUpTo(t2Block) /\ dumped \in Seq(NoBlock..LastBlock)
    BY <1>1 DEF Knowing, TagPrinted, SketchTypeOK
  <2>3. /\ dumped # AllBlocks
        /\ AllBlocks[Len(dumped) + 1] = t2Block
        /\ dumped' = Append(dumped, t2Block) =>
             /\ DumpInOrder'
             /\ Len(dumped') * ReadBlock = t2Block + ReadBlock
             /\ \A i \in DOMAIN dumped' : dumped'[i] = (i - 1) * ReadBlock
             /\ t2Block = LastRead => dumped' = AllBlocks
        /\ dumped' = Append(dumped, NoBlock) => DumpInOrder'
    BY <2>1, <2>2, PrintNext
  <2>4. DumpInOrder' /\ tagsState' = "DUMP"
    BY <1>1, <1>4, <2>3 DEF tagsVars
  <2>5. CASE valid /\ t2Block < LastRead
    <3>1. (t2Block + ReadBlock) % 256 = t2Block + ReadBlock
      <4>1. /\ LastBlock \in 0..255 /\ ReadBlock \in Nat
            /\ LastRead = LastBlock + 1 - ReadBlock
        BY MemoryAssumption DEF LastRead
      <4>2. t2Block + ReadBlock \in 0..255
        BY <2>1, <2>5, <4>1
      <4> QED
        BY <4>2
    <3>2. PrintedUpTo(t2Block)'
      BY <1>4, <2>3, <2>5, <3>1 DEF PrintedUpTo
    <3> QED
      BY <1>4, <2>3, <2>4, <2>5, <3>2 DEF TagPrinted
  <2>6. CASE ~(valid /\ t2Block < LastRead)
    <3>1. AllPrinted'
      <4>1. CASE valid
        <5>1. t2Block = LastRead
          <6>1. LastRead \in Int
            BY MemoryAssumption DEF LastRead
          <6> QED
            BY <2>1, <2>6, <4>1, <6>1
        <5>2. dumped' = AllBlocks
          BY <1>4, <2>3, <4>1, <5>1
        <5> QED
          BY <5>2 DEF AllPrinted, AllBlocks
      <4>2. CASE "READ_ERROR" \in Faults
        BY <4>2 DEF AllPrinted
      <4> QED
        BY <1>4, <4>1, <4>2
    <3> QED
      BY <1>4, <2>3, <2>4, <2>6, <3>1 DEF TagPrinted
  <2> QED
    BY <2>5, <2>6
<1>5. CASE ~UNCHANGED <<t2Vars, app, dumped>>
  <2>1. PICK valid \in BOOLEAN :
          /\ valid \/ "READ_ERROR" \in Faults
          /\ t2State' = IF valid /\ t2Block < LastRead THEN "DUMP" ELSE "NONE"
          /\ t2Block' = IF valid /\ t2Block < LastRead THEN (t2Block + ReadBlock) % 256
                                                       ELSE t2Block
          /\ dumped' = Append(dumped, IF valid THEN t2Block ELSE NoBlock)
    BY <1>5, DumpRead DEF Knowing
  <2>2. /\ TagPrinted' /\ dumped # AllBlocks
        /\ valid => dumped' = Append(dumped, AllBlocks[Len(dumped) + 1])
    BY <1>4, <2>1
  <2> QED
    BY <1>1, <1>2, <2>1, <2>2
<1> QED
  BY <1>3, <1>5

\* Any other packet is read: the tag, if any, stays as it is known and printed.
LEMMA OtherReads ==
  ASSUME Knowing, NciTurn, SketchCallbacks, UNCHANGED sketch,
         tagsState \notin {"DISCOVER_NTF", "DUMP"}
  PROVE  /\ TagKnown' /\ TagPrinted' /\ UNCHANGED <<active, shown, dumped>>
         /\ ActivationUnread' <=> ActivationUnread
<1>1. /\ UNCHANGED <<active, shown, dumped>>
      /\ ActivationUnread' <=> ActivationUnread
      /\ tagsState' \notin {"DISCOVER_ACTIVATED", "DUMP"}
      /\ tagsState' = "DEACTIVATE" => tagsState = "DEACTIVATE"
  BY OtherRead DEF Knowing
<1>2. /\ AllPrinted' <=> AllPrinted
      /\ DumpInOrder' <=> DumpInOrder
  BY <1>1 DEF AllPrinted, DumpInOrder
<1> QED
  BY <1>1, <1>2, StaysKnown DEF Knowing, TagPrinted

\* The controller finds a tag, of which nothing is known yet, or it lets go of
\* one, of which nothing need be known any longer.
LEMMA NfccStepReads ==
  ASSUME Knowing, NfccStep, UNCHANGED <<vars, app, shown, dumped, sketch>>
  PROVE  TagKnown' /\ TagPrinted'
<1>1. UNCHANGED <<tagsState, tagIntf, rfPtr, t2State, t2Block>>
  BY DEF vars, tagsVars, t2Vars
<1>2. CASE Activate
  <2>1. ActivationUnread' /\ tagsState' \notin {"DISCOVER_ACTIVATED", "DUMP"}
    BY <1>1, <1>2, TagTakenUp DEF Knowing
  <2>2. DumpInOrder' <=> DumpInOrder
    BY DEF DumpInOrder
  <2> QED
    BY <2>1, <2>2 DEF Knowing, TagKnown, TagPrinted
<1>3. CASE (ActivationUnread' <=> ActivationUnread) /\ active' \in {active, {}}
  <2>1. /\ AllPrinted => AllPrinted'
        /\ DumpInOrder' <=> DumpInOrder
        /\ PrintedUpTo(t2Block)' <=> PrintedUpTo(t2Block)
    BY <1>1, <1>3 DEF AllPrinted, DumpInOrder, PrintedUpTo
  <2>2. TagPrinted'
    BY <1>1, <1>3, <2>1 DEF Knowing, TagPrinted
  <2>3. TagKnown'
    BY <1>1, <1>3 DEF Knowing, TagKnown
  <2> QED
    BY <2>2, <2>3
<1> QED
  BY <1>2, <1>3, NfccMoves DEF Knowing, Talking

-----------------------------------------------------------------------------
\* What the sketches know and print, as theorems.

\* Before a step that is no restart there was none, if there is none after it.
LEMMA NoRestartYet ==
  ASSUME SysInv, [AppNext]_allVars, restarts' = 0
  PROVE  restarts = 0 /\ ~SketchReboot
BY RestartsAssumption
DEF AppNext, allVars, sketchVars, sysVars, Loop, DumpLoop, DetectLoop, DumpTurn, DetectTurn,
    AppTurn, TagsTurn, NciTurn, SketchEnvironment, Environment, SketchReboot, Reboot,
    SysInv, SysTypeOK

\* A step of the loop is the turn of the sketch, of NfcTags or of NfcNci.
LEMMA Turns ==
  ASSUME Loop
  PROVE  /\ UNCHANGED sketch
         /\ \/ DumpTurn \/ DetectTurn
            \/ TagsTurn /\ SketchCallbacks
            \/ NciTurn /\ SketchCallbacks
<1>1. CASE sketch = "TagDump" /\ DumpLoop
  BY <1>1 DEF Loop, DumpLoop, SketchCallbacks
<1>2. CASE sketch = "TagDetect" /\ DetectLoop
  BY <1>2 DEF Loop, DetectLoop, SketchCallbacks
<1> QED
  BY <1>1, <1>2 DEF Loop

\* Each step keeps it so.
LEMMA ReadingGoesOn ==
  ASSUME SysInv, LayersAgree, Conversation, SketchTypeOK, Reading, [AppNext]_allVars
  PROVE  Reading'
<1>1. SUFFICES ASSUME restarts' = 0, "LATE_CREDITS" \notin Faults PROVE TagKnown' /\ TagPrinted'
  BY DEF Reading
<1>2. restarts = 0 /\ ~SketchReboot
  BY <1>1, NoRestartYet
<1>3. Knowing
  BY <1>1, <1>2 DEF Conversation, Talking, Reading, Knowing
<1>4. CASE Loop
  <2>1. UNCHANGED sketch
    BY <1>4, Turns
  <2>2. CASE DumpTurn \/ DetectTurn
    BY <1>3, <2>1, <2>2, AppTurnReads
  <2>3. CASE TagsTurn /\ SketchCallbacks
    BY <1>3, <2>1, <2>3, TagsTurnReads
  <2>4. CASE NciTurn /\ SketchCallbacks
    <3>1. CASE tagsState = "DISCOVER_NTF"
      BY <1>3, <2>1, <2>4, <3>1, ActivationReads
    <3>2. CASE tagsState = "DUMP"
      BY <1>3, <2>1, <2>4, <3>2, DumpReads
    <3>3. CASE tagsState \notin {"DISCOVER_NTF", "DUMP"}
      BY <1>3, <2>1, <2>4, <3>3, OtherReads
    <3> QED
      BY <3>1, <3>2, <3>3
  <2> QED
    BY <1>4, <2>2, <2>3, <2>4, Turns
<1>5. CASE UNCHANGED <<vars, app, shown, dumped, sketch, active, toHost>>
  <2>1. UNCHANGED <<tagsState, tagIntf, rfPtr, t2State, t2Block>>
    BY <1>5 DEF vars, tagsVars, t2Vars
  <2>2. /\ ActivationUnread' <=> ActivationUnread
        /\ AllPrinted' <=> AllPrinted
        /\ DumpInOrder' <=> DumpInOrder
        /\ PrintedUpTo(t2Block)' <=> PrintedUpTo(t2Block)
    BY <1>5, <2>1 DEF ActivationUnread, AllPrinted, DumpInOrder, PrintedUpTo
  <2>3. TagPrinted'
    BY <1>3, <1>5, <2>1, <2>2 DEF Knowing, TagPrinted
  <2>4. TagKnown'
    BY <1>3, <1>5, <2>1, <2>2 DEF Knowing, TagKnown
  <2> QED
    BY <2>3, <2>4
<1>6. CASE SketchEnvironment /\ UNCHANGED sketch
  <2>1. CASE NfccStep
    BY <1>3, <1>6, <2>1, NfccStepReads DEF SketchEnvironment, Environment
  <2>2. CASE FieldStep
    BY <1>5, <1>6, <2>2 DEF SketchEnvironment, Environment, FieldStep, TagEnters, TagLeaves
  <2> QED
    BY <1>6, <2>1, <2>2 DEF SketchEnvironment, Environment
<1>7. CASE UNCHANGED allVars
  BY <1>5, <1>7 DEF allVars, sketchVars, sysVars, nfccVars
<1> QED
  BY <1>2, <1>4, <1>6, <1>7 DEF AppNext

\* All that is known of a run of a sketch.
LEMMA SketchInvariants ==
  AppSpec => [](SysInv /\ LayersAgree /\ Conversation /\ SketchTypeOK)
BY SketchIsClient, SysInvariant, SystemIsSession, ConversationHolds, SketchTypeCorrect, PTL

\* Each tag is known for what it is once its activation has been read, and the
\* block the type 2 interface has come to is the next to print, for any tags, any
\* memory and any faults but late credits, until the board is restarted.
THEOREM ReadingHolds == AppSpec => []Reading
<1>1. AppInit => Reading
  <2>1. DOMAIN <<>> = {}
    OBVIOUS
  <2> QED
    BY <2>1 DEF AppInit, SketchInit, SysInit, Init, NfccInit, Reading, TagKnown, TagPrinted,
       DumpInOrder
<1>2. SysInv /\ LayersAgree /\ Conversation /\ SketchTypeOK /\ Reading /\ [AppNext]_allVars
        => Reading'
  BY ReadingGoesOn
<1> QED
  BY <1>1, <1>2, SketchInvariants, PTL DEF AppSpec

\* While there is an interface it is the one of the tag that is active, and reads
\* the parameters of that tag, whatever fails, unless credits are late.
THEOREM InterfaceIsAlwaysTheTag ==
  ASSUME "LATE_CREDITS" \notin Faults
  PROVE  AppSpec => [](restarts = 0 => InterfaceIsTheTag)
<1>1. ASSUME SysInv, LayersAgree, Conversation, Reading, restarts = 0, tagIntf # "NULL"
      PROVE  InterfaceIsTheTag
  <2>1. Talk /\ Kept /\ TagKnown
    BY <1>1 DEF Conversation, Reading
  <2>2. tagsState \in {"DISCOVER_ACTIVATED", "DUMP"}
    BY <1>1, <2>1 DEF Kept
  <2>3. active # {}
    BY <2>1, <2>2 DEF Talk, HasTag, Dumps, Kept
  <2>4. /\ rfPtr[tagIntf] = "rfIntf"
        /\ \A rf \in active : tagIntf = LabelOf(rf).intf
    BY <1>1, <2>1, <2>2 DEF TagKnown
  <2>5. \A rf \in active : TagKind(rf) = tagIntf
    BY <1>1, <2>4, Labelled
  <2> QED
    BY <2>3, <2>4, <2>5 DEF InterfaceIsTheTag
<1>2. SysInv /\ LayersAgree /\ Conversation /\ Reading => (restarts = 0 => InterfaceIsTheTag)
  BY <1>1 DEF InterfaceIsTheTag
<1> QED
  BY <1>2, SketchInvariants, ReadingHolds, PTL

\* What is printed of a tag is the blocks of its memory in order, from the first,
\* and at most one last answer that is no data, whatever the size of the memory
\* and whatever fails, unless credits are late.
THEOREM DumpAlwaysInOrder ==
  ASSUME "LATE_CREDITS" \notin Faults
  PROVE  AppSpec => [](restarts = 0 => DumpInOrder)
<1>1. Reading => (restarts = 0 => DumpInOrder)
  BY DEF Reading, TagPrinted
<1> QED
  BY <1>1, ReadingHolds, PTL

\* With tags that answer, the memory of a type 2 tag has been printed to the last
\* block when the sketch lets go of it, whatever else fails.
THEOREM WholeTagAlwaysDumped ==
  ASSUME "LATE_CREDITS" \notin Faults, "READ_ERROR" \notin Faults
  PROVE  AppSpec => [](restarts = 0 => WholeTagDumped)
<1>1. ASSUME SysInv, LayersAgree, Conversation, SketchTypeOK, Reading, restarts = 0,
             sketch = "TagDump", app = "DEACTIVATE", tagIntf = "T2"
      PROVE  dumped = AllBlocks
  <2>1. Talk /\ Kept /\ TagKnown /\ TagPrinted
    BY <1>1 DEF Conversation, Reading
  <2>2. tagsState \in {"DISCOVER_ACTIVATED", "DUMP"}
    BY <1>1, <2>1 DEF Kept
  <2>3. active # {}
    BY <2>1, <2>2 DEF Talk, HasTag, Dumps, Kept
  <2>4. PICK rf \in active : TagKind(rf) = "T2"
    <3>1. PICK rf \in active : TRUE
      BY <2>3
    <3>2. LabelOf(rf).intf = "T2"
      BY <1>1, <2>1, <2>2 DEF TagKnown
    <3> QED
      BY <3>2, Labelled
  <2>5. AllPrinted
    <3>1. CASE tagsState = "DISCOVER_ACTIVATED"
      BY <1>1, <2>1, <3>1 DEF TagPrinted
    <3>2. CASE tagsState = "DUMP"
      <4>1. t2State = "NONE"
        BY <1>1, <2>1, <3>2 DEF Talk, Dumps, SysInv, SysTypeOK, TypeOK, T2TypeOK
      <4> QED
        BY <2>1, <3>2, <4>1 DEF TagPrinted
    <3> QED
      BY <2>2, <3>1, <3>2
  <2> QED
    BY <1>1, <2>4, <2>5 DEF AllPrinted
<1>2. SysInv /\ LayersAgree /\ Conversation /\ SketchTypeOK /\ Reading
        => (restarts = 0 => WholeTagDumped)
  BY <1>1 DEF WholeTagDumped
<1> QED
  BY <1>2, SketchInvariants, ReadingHolds, PTL

-----------------------------------------------------------------------------
\* A sketch is a TagReader.

\* Each step of a sketch, the stack and the controller is one of the reader, or
\* none.
LEMMA ReaderSteps ==
  ASSUME Knowing, "LATE_CREDITS" \notin Faults, "READ_ERROR" \notin Faults,
         [AppNext]_allVars, ~SketchReboot
  PROVE  [Reader!Next]_(Reader!readerVars)
<1>1. UNCHANGED sketch
  BY Turns DEF AppNext, allVars
<1>2. ASSUME UNCHANGED <<active, shown, dumped>>, ActivationUnread' <=> ActivationUnread
      PROVE  UNCHANGED Reader!readerVars
  BY <1>1, <1>2 DEF Reader!readerVars
<1>3. ASSUME UNCHANGED <<active, shown, dumped, toHost>>
      PROVE  UNCHANGED Reader!readerVars
  <2>1. ActivationUnread' <=> ActivationUnread
    BY <1>3 DEF ActivationUnread
  <2> QED
    BY <1>2, <1>3, <2>1
<1>4. ASSUME active # {}, ~ActivationUnread
      PROVE  \E rf \in active : active = {rf} /\ rf \in Tags /\ shown = LabelOf(rf)
  <2>1. PICK rf \in active : TRUE
    BY <1>4
  <2>2. active = {rf} /\ rf \in Tags
    BY TheTag DEF Knowing, Talking
  <2>3. shown = LabelOf(rf)
    BY <1>4 DEF Knowing, TagKnown
  <2> QED
    BY <2>2, <2>3
<1>5. CASE Loop
  <2>1. CASE DumpTurn \/ DetectTurn
    BY <1>1, <1>3, <2>1, AppTurnReads
  <2>2. CASE TagsTurn /\ SketchCallbacks
    BY <1>3, <2>2, TagsTurnPrintsNothing
  <2>3. CASE NciTurn /\ SketchCallbacks /\ tagsState = "DISCOVER_NTF"
    <3>1. /\ ActivationUnread /\ ~ActivationUnread' /\ UNCHANGED active
          /\ dumped' = <<>> /\ \E rf \in active : shown' = LabelOf(rf)
      BY <1>1, <2>3, ActivationReads
    <3>2. Reader!PrintLabel
      BY <1>1, <3>1 DEF Reader!PrintLabel
    <3> QED
      BY <3>2 DEF Reader!Next
  <2>4. CASE NciTurn /\ SketchCallbacks /\ tagsState = "DUMP"
    <3>1. /\ UNCHANGED <<active, shown>> /\ ~ActivationUnread /\ ~ActivationUnread'
          /\ \/ UNCHANGED dumped
             \/ /\ sketch = "TagDump" /\ tagIntf = "T2" /\ dumped # AllBlocks
                /\ dumped' = Append(dumped, AllBlocks[Len(dumped) + 1])
      BY <1>1, <2>4, DumpReads
    <3>2. CASE UNCHANGED dumped
      BY <1>2, <3>1, <3>2
    <3>3. CASE /\ sketch = "TagDump" /\ tagIntf = "T2" /\ dumped # AllBlocks
               /\ dumped' = Append(dumped, AllBlocks[Len(dumped) + 1])
      <4>1. active # {}
        BY <2>4 DEF Knowing, Talking, Talk, Dumps, Kept
      <4>2. PICK rf \in active : active = {rf} /\ rf \in Tags /\ shown = LabelOf(rf)
        BY <1>4, <3>1, <4>1
      <4>3. LabelOf(rf).intf = "T2"
        BY <2>4, <3>3 DEF Knowing, TagKnown
      <4>4. TagKind(rf) = "T2" /\ LabelOf(rf) # Unread
        BY <4>3, Labelled
      <4>5. active \subseteq {t \in Tags : TagKind(t) = "T2"}
        BY <4>2, <4>4
      <4>6. Reader!PrintBlock
        BY <1>1, <3>1, <3>3, <4>1, <4>2, <4>4, <4>5 DEF Reader!PrintBlock, Reader!ToRead
      <4> QED
        BY <4>6 DEF Reader!Next
    <3> QED
      BY <3>1, <3>2, <3>3
  <2>5. CASE NciTurn /\ SketchCallbacks /\ tagsState \notin {"DISCOVER_NTF", "DUMP"}
    BY <1>1, <1>2, <2>5, OtherReads
  <2> QED
    BY <1>5, <2>1, <2>2, <2>3, <2>4, <2>5, Turns
<1>6. CASE SketchEnvironment /\ NfccStep
  <2>1. UNCHANGED <<vars, shown, dumped>>
    BY <1>6 DEF SketchEnvironment, Environment
  <2>2. CASE Activate
    <3>1. tagsState' = tagsState
      BY <2>1 DEF vars, tagsVars
    <3>2. active = {} /\ ActivationUnread' /\ \E rf \in Tags : active' = {rf}
      BY <2>2, <3>1, TagTakenUp DEF Knowing
    <3>3. Reader!TakeUp
      BY <1>1, <3>2 DEF Reader!TakeUp
    <3> QED
      BY <3>3 DEF Reader!Next
  <2>3. CASE (ActivationUnread' <=> ActivationUnread) /\ active' = active
    BY <1>2, <2>1, <2>3
  <2>4. CASE (ActivationUnread' <=> ActivationUnread) /\ active # {} /\ active' = {}
    <3>1. tagsState = "DEACTIVATE" /\ toHost = <<>>
      BY <1>6, <2>4, TagLetGo DEF Knowing
    <3>2. ~ActivationUnread
      BY <3>1, NoneUnread
    <3>3. PICK rf \in active : active = {rf} /\ rf \in Tags /\ shown = LabelOf(rf)
      BY <1>4, <2>4, <3>2
    <3>4. AllPrinted /\ LabelOf(rf) # Unread
      BY <3>1, <3>2, Labelled DEF Knowing, TagPrinted
    <3>5. ~Reader!ToRead
      BY <3>2, <3>3, <3>4 DEF Reader!ToRead, AllPrinted
    <3>6. Reader!LetGo
      BY <1>1, <2>1, <2>4, <3>2, <3>3, <3>4, <3>5 DEF Reader!LetGo
    <3> QED
      BY <3>6 DEF Reader!Next
  <2> QED
    BY <1>6, <2>2, <2>3, <2>4, NfccMoves DEF Knowing, Talking
<1>7. CASE SketchEnvironment /\ FieldStep
  BY <1>3, <1>7 DEF SketchEnvironment, Environment, FieldStep, TagEnters, TagLeaves
<1>8. CASE UNCHANGED allVars
  BY <1>3, <1>8 DEF allVars, sketchVars, sysVars, nfccVars
<1> QED
  BY <1>5, <1>6, <1>7, <1>8 DEF AppNext, SketchEnvironment, Environment

\* As long as the board is not restarted, credits come in time and tags answer,
\* either sketch is a TagReader, for any tags and any memory, even if commands
\* are refused, frames and tags are lost, and answers are empty: then it may stop
\* with a tag taken up, and prints nothing of it that it should not.
THEOREM SketchIsReader ==
  ASSUME MaxRestarts = 0, "LATE_CREDITS" \notin Faults, "READ_ERROR" \notin Faults
  PROVE  AppSpec => ReaderSpec
<1>1. AppInit => Reader!Init
  <2>1. DOMAIN <<>> = {}
    OBVIOUS
  <2> QED
    BY <2>1 DEF AppInit, SketchInit, SysInit, NfccInit, Reader!Init, ActivationUnread
<1>2. /\ SysInv /\ LayersAgree /\ Conversation /\ SketchTypeOK /\ Reading
      /\ [AppNext]_allVars
      => [Reader!Next]_(Reader!readerVars)
  <2> SUFFICES ASSUME SysInv, LayersAgree, Conversation, SketchTypeOK, Reading,
                      [AppNext]_allVars
               PROVE  [Reader!Next]_(Reader!readerVars)
    OBVIOUS
  <2>1. restarts = 0
    BY DEF SysInv, SysTypeOK
  <2>2. Knowing
    BY <2>1 DEF Conversation, Talking, Reading, Knowing
  <2>3. ~SketchReboot
    BY <2>1 DEF SketchReboot, Reboot
  <2> QED
    BY <2>2, <2>3, ReaderSteps
<1> QED
  BY <1>1, <1>2, SketchInvariants, ReadingHolds, PTL DEF AppSpec, ReaderSpec, Reader!Spec
=============================================================================
