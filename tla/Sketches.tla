------------------------------ MODULE Sketches -----------------------------
(***************************************************************************)
(* Either sketch over the whole stack and a controller, and what both of   *)
(* them are to do: implement TagReader when nothing fails, and keep their  *)
(* states in step with those of NfcTags when something does.               *)
(***************************************************************************)
EXTENDS TagDump, TagDetect

VARIABLE sketch  \* the sketch the board was programmed with

allVars == <<sketchVars, sketch>>

Loop ==
  /\ \/ sketch = "TagDump" /\ DumpLoop
     \/ sketch = "TagDetect" /\ DetectLoop
  /\ UNCHANGED sketch

AppInit == SketchInit /\ sketch \in {"TagDump", "TagDetect"}

AppNext ==
  \/ Loop
  \/ SketchEnvironment /\ UNCHANGED sketch
  \/ SketchReboot /\ UNCHANGED sketch

AppSpec == AppInit /\ [][AppNext]_allVars

\* The loop is the only thread of the program and never stops taking turns; a
\* controller answers each frame and activates a tag that is in its field.
Fairness ==
  /\ WF_allVars(Loop)
  /\ WF_allVars(NfccStep /\ UNCHANGED <<vars, pc, restarts, app, shown, dumped, sketch>>)

FairAppSpec == AppSpec /\ Fairness

-----------------------------------------------------------------------------
\* When nothing fails, a sketch is a TagReader: the tag it has taken up is the
\* one the controller has activated, and until the sketch has heard of the
\* activation it has printed nothing of it.
ActivationUnread == \E i \in DOMAIN toHost : toHost[i].oid = "RF_INTF_ACTIVATED"

\* How a sketch labels a tag: by what identifyTag() takes it for.
LabelOf(rf) ==
  IF TagKind(rf) \notin TagIntfs THEN UnknownTag
  ELSE [intf |-> TagKind(rf), nfcidLen |-> rf.nfcidLen]

AllBlocks == [i \in 1 .. ((LastBlock + 1) \div ReadBlock) |-> (i - 1) * ReadBlock]

Reader == INSTANCE TagReader WITH
  Dumpable <- {rf \in Tags : TagKind(rf) = "T2"},
  Memory <- AllBlocks,
  tag <- active,
  label <- IF ActivationUnread THEN Unread ELSE shown,
  blocks <- IF ActivationUnread THEN <<>> ELSE dumped,
  dumps <- sketch = "TagDump"

\* Each tag's own label and, from the dump sketch, every block of a type 2 tag,
\* once and in order, before it is let go of: the one structure, the one
\* pointer and the block counter the stack keeps are never those of an earlier
\* tag or dump.  The promise is about the tags identifyTag() knows; all others
\* are labelled unknown, whatever they are (see NfcidPrinted).
ReaderSpec == Reader!Spec

\* With a controller that answers every command and tags that answer every
\* READ, the sketch never sees an error: each command it issues is one the
\* layers below accept in the state they have reached by then, over any number
\* of tags of any kind.
NeverError == app # "ERROR"

\* Before the sketch lets go of a type 2 tag as dumped it has printed every
\* block of it, once and in order.
WholeTagDumped ==
  sketch = "TagDump" /\ app = "DEACTIVATE" /\ tagIntf = "T2" => dumped = AllBlocks

\* "When a tag is detected its NFCID is printed" (README.adoc:15), for tags "of
\* types 1, 2, and 3": once the sketch has heard of the tag that is active, it
\* has printed more of it than that it is unknown.
NfcidPrinted == active # {} /\ ~ActivationUnread => shown # UnknownTag

\* Whatever fails, what the sketch prints of one tag is the blocks in order
\* from the first, none skipped or repeated, and at most one last answer
\* that is no data.
DumpInOrder ==
  \A i \in DOMAIN dumped :
    \/ i \in DOMAIN AllBlocks /\ dumped[i] = AllBlocks[i]
    \/ i = Len(dumped) /\ dumped[i] = NoBlock

\* The sketch's states follow NfcTags's: outside ERROR, the state in which it
\* issues a command is one in which the command is accepted, and the state in
\* which it waits for a callback is one that still has that callback to come.
\* It holds as long as the board is not restarted: the answers to a session
\* before the restart may lead the two apart.
TagsStatesFor(state) ==
  CASE state = "RESET"               -> {"NONE"}
    [] state = "RESET_RESPONSE"      -> {"INIT_RESET", "INIT_INIT"}
    [] state = "DISCOVER"            -> {"INIT_DONE"}
    [] state = "DISCOVER_RESPONSE"   -> {"DISCOVER_MAP", "DISCOVER"}
    [] state = "DISCOVERING"         -> {"DISCOVER_NTF"}
    [] state = "DUMP"                -> {"DISCOVER_ACTIVATED"}
    [] state = "DUMP_RESPONSE"       -> {"DUMP"}
    [] state = "DEACTIVATE"          -> {"DISCOVER_ACTIVATED", "DUMP"}
    [] state = "DEACTIVATE_RESPONSE" -> {"DEACTIVATE", "DEACTIVATE_RSP"}
    [] OTHER                         -> TagsStates

SketchFollowsTags == restarts = 0 => tagsState \in TagsStatesFor(app)

\* A tag that has been activated is let go of; by ReaderSpec it has been printed
\* as it is to be when that happens.  The controller alone never deactivates one:
\* the sketch has to hear of it, through every layer, and ask for it.
TagIsLetGo == (active # {}) ~> (active = {})
=============================================================================
