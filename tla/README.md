# A TLA+ model of the arduino-nfc stack

arduino-nfc is an NFC stack for Arduino boards: a sketch asks it to find tags,
it drives an NFC controller over the NFC Controller Interface (NCI), and it
reads the memory of the tags it knows how to read. This directory holds a model
of the stack in TLA+, the configurations that check it with TLC, and theorems
about it checked by TLAPS. Paths and line numbers below are those of the
repository (`src/...` is its library directory).

## 1. The system

The program has one thread. `loop()` of a sketch gives three objects one turn
each, for ever: the sketch, `NfcTags`, `NfcNci`. Commands go down as plain calls
that only prepare a state; a layer sends what its state calls for in its own
turn; `NfcNci`'s turn blocks until the controller has a packet, and the packet
goes up again through nested callbacks.

| component | state | operations | talks to |
|---|---|---|---|
| `NfcNci` (`src/nci/NfcNci.cpp`) | RF state `_state`, `_data` (one pointer for all messages), `_rf_intf`, `_reset`, `_deactivate`, two buffers | five commands and `dataSend()`; `handleEvent()` with seven response and notification handlers and the data path | `NfcHw` below (write, blocking read), `NfcNciCb` above (nine callbacks) |
| `NfcTags` (`src/tags/NfcTags.cpp`) | `_state` (13 values), `_id` (the command in progress), `_p_tagIntf` | `cmdReset`, `cmdDiscover`, `cmdDeactivate`, `cmdDump`, `getInterface`; `handleEvent()` with a handler per command; the nine callbacks; `identifyTag()` | `NfcNci` (commands), a tag interface (dump, data), `NfcTagsCb` above (five callbacks) |
| `NfcTagsIntfType2` (`src/tags/NfcTagsIntfType2.cpp`) | `_state`, `_id`, `_block`, `_dump`, `_p_rf` | `cmdDump`, `handleDump`, `handleData` | `NfcNci::dataSend()`, `NfcTagsCb::cbDump()` |
| `NfcTagsIntfMifare` | none that changes but `_p_rf` | refuses every dump, drops data | - |
| `TagDump.ino` | `_state` of `NfcApps` (11 values) | `handleEvent()`, five callbacks, `loop()` | `NfcTags` |
| `TagDetect.ino` | the same without the two states of the dump | the same, with an empty `cbDump()` | `NfcTags` |
| `NfcHw_pn7120` | none | `init`, `write`, `read`, `wait` | I2C and two pins |
| `NfcLog` | the level | output | serial line |
| the controller and the tags (outside the repository) | its own RF state, the tag it has activated | answers commands, notifies activations, exchanges data with the tag | `NfcHw` |

What is hard here:

- **Two state machines that never compare notes.** `NfcNci` and `NfcTags` each
  have a state, and both infer the controller's from its answers. A packet out of
  turn, or a command between a request and its answer, reaches both of them.
- **Every packet wakes every layer.** Whatever packet ends `NfcNci`'s turn, the
  sketch and `NfcTags` have a turn before the next one is read, and the handler of
  the command in progress is called again. A handler that does not remember that it
  has already sent its command sends it twice.
- **One pointer, one structure, kept state.** `_data`, `_rf_intf`, `_p_tagIntf`
  and the state of the type 2 interface outlive the message and the tag they
  belong to.
- **Failures of one step of several**: a refused response, a corrupted or empty READ
  answer, a frame the controller did not acknowledge, a tag that leaves in the middle
  of a dump. Nothing in the stack has a timeout.
- **A restart of the board** does not restart the controller: `init()` only ever
  drives the reset pin high (`NfcHw_pn7120.cpp:31`). The controller goes on where it
  was, and what it has to say belongs to the session before.
- **A block counter** of eight bits moved by answers, wanted or not.

Component by component, correct means:

- `NfcNci`: its RF state is the controller's whenever nothing is in flight
  (`HostInStep`); a refused packet moves no state machine, whatever it
  leaves in `_data` and in the tag objects (`RefusedPacketChangesNothing`);
  a callback carries its own data (`OkCallbackData`).
- `NfcTags`: its state is one that belongs to the RF state (`LayersAgree`); a
  success it reports is real (`SuccessIsReal`); the interface it hands out is for
  the tag that is active (`InterfaceIsTheTag`); and to a client the three machines
  act as the one of `TagSession` (`SessionSpec`).
- `NfcTagsIntfType2`: it reads within the memory (`DumpInBounds`), each block once
  and in order (`DumpInOrder`), and waits for an answer before the next request
  (`OneRequest`).
- the sketches: they do to each tag what `TagReader` says, as far as `identifyTag()`
  knows it (`ReaderSpec`), never see an error that nobody caused (`NeverError`), keep their states in step with those of
  `NfcTags` (`SketchFollowsTags`), and let go of every tag (`TagIsLetGo`).

`PROJECT.json` lists the hazards one by one, each at its line, with the properties
that would notice.

## 2. The modules

    NciDefs             statuses, packets, frames, the bounds of a tag's memory
     └ NfcNci           the NCI layer: a command or a packet is one action
        └ NfcTagsIntfType2    the dump machine of a type 2 tag
           └ NfcTags          the tag layer; Spec: any client, any packets, restarts
              ├ NfcTagsSession      NfcTags as a TagSession (INSTANCE)
              ├ NfcTagsProofs       theorems about Spec
              │  └ NfcTagsSessionProofs   Spec implements TagSession
              └ NfcSystem (+ Nfcc)  loop() with any client, a controller, restarts
                 └ Sketch           what the two sketches share
                    ├ TagDump       the one sketch
                    ├ TagDetect     the other
                    └ Sketches      either of them; as a TagReader (INSTANCE)
                       ├ Conversation  the inductive invariants of the sketches
                       └ SystemProofs  the system is the stack, and a session
                          └ HostProofs       HostInStep
                             └ ConversationProofs (+ Conversation)
                                └ SketchProofs     what follows of the states and requests
                                   └ ReaderProofs  the tags; either sketch is a TagReader
    TagSession          abstract: what the tag layer promises a client
    TagReader           abstract: what a sketch does to a tag
    MCTags, MCNfcTags, MCNfcSystem, MCSketches    values for TLC

**NfcNci** has the variables `nciState` (`_state`), `nciData` (the object `_data`
points at), `rfIntf` (the part of `_rf_intf` that is read outside) and two outputs of
the last step: `tx`, the frame written, and `nciCb`, the callback made. A method that
returns a status takes it as a parameter and constrains it. A packet keeps what the
handlers tell apart: its type, group and opcode, whether it is a fragment, how its
length compares with what the handler expects, its status byte, and for an
activation the tag's parameters. `SetRfTechSpecParams` keeps the fields the packet
does not carry, as the code does.

**NfcTagsIntfType2** has `t2State`, `t2Id`, `t2Block`. `T2HandleDump` gives the
status of an uninitialized local in state NONE as any of the four statuses. (As
committed, the file lacks the closing brace of `handleDump()` at line 144 and does
not compile; the model takes the function to end there.)

**NfcTags** has `tagsState`, `tagsId`, `tagIntf` (`_p_tagIntf`), `rfPtr` (`_p_rf`
of both tag objects) and `api`, the call across the client's interface in the step.
Its steps are a command of the client (`Command`), one turn of
`NfcTags::handleEvent()` (`TagsHandleEvent`), one turn of `NfcNci::handleEvent()`
that reads a packet with all the callbacks it makes (`ReceiveEvent`: nested plain
calls of a single thread, hence one step), and a restart of the board (`Restart`),
which runs the constructors again. When `identifyTag()` is given a pointer to another
structure (`KindsAt`), it finds zeroed memory behind the reset response; what the
receive buffer holds or what lies behind `_deactivate` is a choice over every
outcome. Left
out because they have no effect: the `_nciRsp` copy nobody reads, the check of the
message id that each callback always passes, and the states `DEACTIVATE_NTF` and
`DUMP_RSP` that no code enters (they stay in the type, and `LayersAgree` shows that
they are never reached).

**TagSession** is one state machine where the code has three: a phase, the command
that is to be answered, and the block a dump has come to. **NfcTagsSession** maps
the phase to what `NfcNci` knows, the command to the state of `NfcTags`, and the
block to `_block` of the type 2 interface.

**Nfcc** is the environment: a controller with a state (`nfcc`), the tag it has
activated, the tag in the field, and two lines in order. It answers each frame,
refuses what its state does not allow, and may commit the faults in the constant
`Faults`: `RSP_FAILED` (a command refused for the controller's own reasons),
`READ_ERROR` (a corrupted answer of the tag), `EMPTY_ANSWER` (one without payload),
`LATE_CREDITS` (the credits of a READ come after its data), `TAG_LOST` (a tag leaves
while active), `FRAME_LOST` (a frame of the host is not acknowledged). The
controller is not code of this repository; it is written from what the code sends and
expects. Two operators of the module are about `NfcHw_pn7120`: what `write()` makes of
the line (`OnTheLine`), and what `init()` makes of the controller when the board is
restarted (`NfccRestart`): it goes on as it is, or starts again too, since the pin
floats meanwhile.

**NfcSystem** is `loop()`: `pc` says whose turn it is. Its client calls any command
or none in its turn. What `NfcHw_pn7120` does is in three operators: `OnTheLine`
(`write()` throws away the result of the transfer, so a lost frame counts as sent),
`PacketRead` (a packet takes two reads, each of which waits for the interrupt line;
after a packet without payload the second waits for the next packet), and `Reboot`,
which restarts the board at any time, whatever is on the lines.

**Sketch**, **TagDump** and **TagDetect** put a sketch in the client's place: `app`
is `_state` of `NfcApps`, `shown` a history of what was printed of the last tag (the
type and the length of its NFCID, read through the kept pointer), `dumped` of the
blocks printed of it. **Sketches** adds the variable `sketch`, which of the two the
board was programmed with, so that both are checked at once. **TagReader** is what a
sketch does to the tags that come by: take one up, print what it is, print its memory
block by block if it is to be read, let go.

**Conversation** says, for each state of `NfcTags`, what is on the two lines and
where the sketch and the controller are (`Talk`, `Kept`), and what the stack and the
sketch know and have printed of the active tag (`Reading`). It models nothing: it is
what the proofs of the sketches are by induction of, checked by TLC before.

Definitions whose comment starts with "Mutant" are the plausible bugs the
properties are tried against; nothing else uses them.

## 3. What TLC checks

The runs that pass:

| run | what it asks | bounds |
|---|---|---|
| `NfcTags` | Whatever client and whatever packets: types, `LayersAgree`, `DumpInBounds`, `SuccessIsReal`, `OkCallbackData`, `RefusedPacketChangesNothing`, and that the whole implements `TagSession` (`SessionSpec`) | 30 packets: each message the layer knows, well formed, with a wrong length, with a failure status, fragmented, empty, and one of each unknown kind; writes may fail; restarts at any time; memory of 8 blocks |
| `Sketches` | Either sketch when nothing fails: types, `NeverError`, `OneRequest`, `InterfaceIsTheTag`, that it implements `TagReader` (`ReaderSpec`), and under fairness `TagIsLetGo` | five tags, memory of 16 blocks as in the code |
| `SketchFaults` | Either sketch with refused commands, lost frames, corrupted and empty answers, lost tags: `DumpInOrder`, `DumpStatusInitialized`, `SketchFollowsTags`, and the invariants of the proofs, `Conversation` and `Reading`. Late credits are left out because they break all of these but the first two: after a second RF_DEACTIVATE (run `LateCredits`) the sketch and `NfcTags` can part | the same, one restart |
| `AnyClient` | Any client, all six faults: `HostInStep` | one tag, 8 blocks, one restart |

Why the bounds are enough. A memory of 8 blocks has a first READ and a last one,
and `_block` is only ever compared with the last; a middle one is in the sketches'
runs, which use the 16 blocks of the code; `HostInStep` does not depend on which
block is read. What the two smaller memories leave open, section 4 proves for any.
The five tags are one of each kind the stack tells apart: an Ultralight, a Mifare
Classic, a POLL_A tag that is neither, one that answers with no SEL_RES at all
(a Topaz), a POLL_F tag. In the hostile run the Ultralight and an activation without
parameters stand for all five, and a pointer into the receive buffer may make a tag
any of them; in `AnyClient` there is the Ultralight, the one tag a client can do
everything with.
One tag at a time is in the field, and tags follow one another without end.

`MaxLine` (4, and 3 in `AnyClient`) bounds how far the controller runs ahead of the
host: it goes on while fewer packets wait. The loop writes at most one frame a turn
and cannot go on without reading a packet, so at most three packets wait (the
response and the notification of a deactivation, and the next activation) before the
controller has nothing left to say; an empty packet, an unread interface error and a
restart are what makes more pile up, and then the bound only delays the controller. `MaxRestarts` is 1. A second
restart would break `HostInStep`: a response does not say which command it answers
(`NfcNci.cpp:279-316`), so two restarts, each inside the reset handshake of the
session before, lead `NfcNci` to RFST_IDLE on old answers while the last CORE_RESET
takes the controller back to RESET. What holds with more than one is left to section 6.
`SketchFollowsTags` says nothing after a restart, for the same reason: an activation
of the session before can be read, and refused, in this one, and `TagDetect` then
overwrites its error state (`TagDetect.ino:225`).

Deadlock is checked in `NfcTags` and `Sketches`: without faults the system never
stops. The others say `CHECK_DEADLOCK FALSE`, because there the program really may
stop: a client that issues nothing, a lost frame or a tag lost during a dump leave
`NfcNci` blocked in a read that nothing will end.

Fairness is weak fairness of `Loop` (one thread that does nothing else; a turn of
`NfcNci` is enabled only when a packet is there, so a blocking read is no broken
promise) and of `NfccStep` (a controller answers a frame and activates a tag that
stays). Nothing is assumed of the tags.

The runs that show a disagreement between the code and its comments:

| run | what the code does |
|---|---|
| `ResetTwice` | "reset command migth be sent at anytime" (`NfcTags.cpp:169`), but `NfcNci` accepts one only in the state after power-on and never returns to it |
| `LateCredits` | "only one request sent at a time" (`NfcNci.cpp:169`), but a late credits notification makes `handleDeactivate()` write RF_DEACTIVATE twice. The second answer can be a refusal, and then the sketch enters its error state |
| `ReadError` | a corrupted READ answer is reported with status OK and no more to come, which the sketch takes for "dump completed" |
| `TagLost` | a tag that leaves during a dump is only logged; the sketch waits for ever instead of "back to step 2" |
| `Restart` | a restart of the board with an answer on the line takes the sketch to its error state although nothing has failed: nothing discards what the controller has ready from the session before. The state need not be final: `NfcTags` repeats its request, and no callback of the sketch looks at the state it is in |
| `AbortedDump` | `cmdDeactivate()` during a dump leaves the type 2 interface in its dump state, and every later dump is refused |
| `PollingClient` | a client that does not deactivate the tag right after the last block makes `handleDump()` return an uninitialized status |
| `UnknownTags` | "When a tag is detected its NFCID is printed", for tags "of types 1, 2, and 3" (`README.adoc:15`), but `identifyTag()` knows two kinds of POLL_A tags; a type 1, a type 3 and any other POLL_A tag is printed as unknown. `ReaderSpec` therefore promises a label only of the tags `identifyTag()` knows |

Each property of a passing run is also tried against a mutant of the code it is
about (`PROJECT.json`, "mutants"), and fails on it.

## 4. What is proved

`NfcTagsProofs` proves, of `NfcTags!Spec`, that is for every set of packets in
`PacketType`, every sequence of the client's calls, links whose writes may fail,
restarts at any time, and every memory geometry:

- `TypeCorrect`: `TypeOK`.
- `LayersInStep`: `LayersAgree`.
- `SuccessIsAlwaysReal`: `SuccessIsReal`.
- `RefusalIsInert`: `RefusedPacketChangesNothing`.
- `CallbackDataIsOwn`: `OkCallbackData`.
- `DumpStaysInBounds`: `DumpInBounds`.

`NfcTagsSessionProofs` proves `ImplementsSession`: every behaviour of `Spec` is one of
`TagSession` under the mapping of `NfcTagsSession`.

`SystemProofs` carries this to the system, for any tags, faults, lines and number of
restarts:

- `SystemTypeCorrect`: the variables keep their types, the lines included.
- `SystemIsStack`: `SysSpec` implements `NfcTags!Spec`.
- `SystemIsSession`: `SysSpec` implements `TagSession`, and has what is proved of the
  stack.
- `SketchIsClient`: `AppSpec` implements `SysSpec`; what is proved of any client holds
  of both sketches.

`HostProofs` proves `HostKnowsController`: until the board is restarted, `HostInStep`.

`ConversationProofs`, `SketchProofs` and `ReaderProofs` prove what the sketches do,
for any tags, any memory, and any faults but those named in the last two columns:

| theorem | what holds of either sketch | restarts | faults excluded |
|---|---|---|---|
| `ConversationHolds` | `Conversation` | says nothing after one | late credits |
| `SketchInStep` | `SketchFollowsTags` | until the first | late credits |
| `NoErrorUncaused` | `NeverError` | until the first | late credits, refused commands, failed writes |
| `RequestsOneByOne` | `OneRequest` | until the first | late credits |
| `SketchTypeCorrect` | `SketchTypeOK` | any | none |
| `DumpStatusAlwaysSet` | `DumpStatusInitialized` | any | none |
| `ReadingHolds` | `Reading` | says nothing after one | late credits |
| `InterfaceIsAlwaysTheTag` | `InterfaceIsTheTag` | until the first | late credits |
| `DumpAlwaysInOrder` | `DumpInOrder` | until the first | late credits |
| `WholeTagAlwaysDumped` | `WholeTagDumped` | until the first | late credits, corrupted answers |
| `SketchIsReader` | `ReaderSpec` | none | late credits, corrupted answers |

The runs `LateCredits`, `Restart` and `ReadError` show that these exclusions are
needed for `OneRequest`, `NeverError` and `WholeTagDumped`. The theorems say more
than the runs: `NeverError`, `OneRequest`, `InterfaceIsTheTag` and `ReaderSpec` are
checked without faults and proved with most of them.

The assumptions are those of `NciDefs`, `Nfcc` and `NfcSystem`: the packets are
packets, a write reports OK or FAILED, the last block fits a byte and the memory is a
whole number of READs (`MemoryAssumption`), the tags and faults are what they are
called, the two bounds are numbers, and the stack takes every packet its controller
can send (`NfccAssumption`).

The arguments. `LayersAgree` is inductive together with `TypeOK`: the commands and
the turns of `handleEvent()` leave the RF state alone and move `tagsState` only
within what belongs to it, a packet moves both or neither, and a restart puts both
back. What a packet may do to `NfcNci` is said once, in the lemma `NciEventEffect` (a
callback with status OK names the state the machine has moved from and to; any other
leaves it), and every theorem about packets cites it instead of the eight handlers.
`TypeOK` is needed because an RF state outside the five would belong with nothing.
`SuccessIsReal` and `OkCallbackData` hold after every step whatever was before it,
given the handler that made the call. `DumpInBounds` is inductive given the types:
`MultiplesApart` shows that two different multiples of `ReadBlock` are at least that
far apart, so one below the last READ has its successor at most there
(`NextReadInBounds`), and `% 256` never bites. `ImplementsSession` rests on the same
invariants: a command that `NfcTags` accepts by its own state is one for which the
phase has been reached exactly because the layers agree, and a dump goes on exactly
while there is memory because its block is in bounds.

`HostInStep` says nothing while something is in flight, so it is far from inductive.
What is, is `HostFollows`: the packets on the line, read one after the other, lead
`NfcNci` from the state it is in to the one the controller is in (`Path`). A path with
no packets says they are equal, which is `HostInStep`. Each answer of the controller
makes the path one step longer at its end, each read one shorter at its head. One
thing would break it: a second CORE_RESET, which the controller accepts in any state
and `NfcNci` in one; hence the second part, `ResetAlone`: before the first answer at
most the one reset is in flight, and afterwards none is sent. Both parts need the
restart excluded, as section 3 explains.

None of the sketches' properties is inductive, and most share one reason to hold: at
any time there is one thing going on, and both ends are in it. `Conversation` says
that thing for each state of `NfcTags`: the command about to be written, on its way,
refused, or granted (`Asks`, `Grants`), the search that may or may not have found a
tag (`Searches`), the READ and what it may bring (`Reads`, `Dumps`), with where the
controller and the sketch are meanwhile and what the layers keep. It is inductive
given the types and `LayersAgree`: a turn of the sketch or of `NfcTags` finds the
lines empty in every state in which it writes (`AppTurnTalks`, `TagsTurnTalks`), a
packet that is read is the one answer that may be at the head of the line
(`NciTurnTalks`), and the controller has one frame to answer or a tag to announce
(`NfccStepTalks`). Late credits break it because they wake the loop while
RF_DEACTIVATE is unanswered; a restart because what was in flight stays there. It
gives `SketchFollowsTags`, `OneRequest` and `NeverError` state by state.
`DumpStatusInitialized` needs none of it and so excludes nothing: `DumpOwned` is
inductive alone, since the callback that ends a dump is the one that makes the sketch
deactivate the tag in its next turn, which comes before that of `NfcTags`.

`Reading` is inductive given `Conversation`. It relates the tag the controller has
activated to what the stack keeps of it once the activation has been read
(`TagKnown`: the label printed, the interface, the pointer), and `_block` to the
blocks printed (`TagPrinted`): in a dump the blocks before `_block` have been printed
and no others, so an answer prints the next one (`PrintNext`), and the last answer
completes the memory (`ReadOfMemory`). That an old interface is not taken for that of
a tag `identifyTag()` does not know rests on the part of `Kept` by which
`_p_tagIntf` is NULL whenever a tag may be activated. `SketchIsReader` then maps each
step: the controller's activation takes the tag up, the read of that activation
labels it, each answer of the tag prints a block, the answer to RF_DEACTIVATE lets
it go, and everything else stutters (`ReaderSteps`).

Only model-checked: `TagIsLetGo`, since liveness is out of this prover's reach;
`HostInStep` and `DumpInOrder` after a restart, whose invariants would have to say
what packets of two sessions on one line can do; and the runs that expect a
violation.

## 5. What is not modelled

- Bytes. Headers, lengths and payloads are classes of packets, and the NFCID is its
  length. The one length computation that can wrap (`dataSend()`, `NfcNci.cpp:746`, a
  payload of 253 bytes or more) has no caller in the repository. The length of an
  NFCID is 0, 4, 7 or 10; another one, which `setRfTechSpecParams()` would copy
  unchecked into ten bytes (`NfcNci.cpp:560-562`), is not among the packets.
- What a tag really is. `TagKind` is `identifyTag()` itself, so that a Mifare Classic
  with a 7-byte NFCID of NXP's, which the code takes for an Ultralight, is one to the
  model too.
- After a restart of the board, the bytes `identifyTag()` reads when an activation is
  refused: the packet just read, seen through a pointer one field off. Here they are
  any, which covers what they can be.
- The bytes on the I2C bus, and a restart between the two reads of one packet:
  the second half would then be read as a header.
- `NfcLog` and what the sketches print besides a tag's type, NFCID length and blocks:
  output that nothing reads.
- Reading `NfcHw` through any other implementation: the hostile run has failing
  writes, since `NfcNci` is written for any `NfcHw`; in the runs of the system
  `WriteResults` is `{"OK"}`, which is all `NfcHw_pn7120::write()` ever reports.

## 6. Plan

Done: the stack, both sketches, the controller with its faults and the restart of the
board; the two abstract specifications; the theorems of section 4. Next, in this order:

1. `DumpInOrder` with late credits and restarts: `Reading` without `Conversation`, of
   the dump alone.
2. What exactly holds after any number of restarts: `HostInStep` once a CORE_RESET
   sent in this session has been answered and nothing older is on the line.
