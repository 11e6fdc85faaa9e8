------------------------------ MODULE TagReader ----------------------------
(***************************************************************************)
(* What the sketches promise whoever holds a tag to the reader: the reader *)
(* takes up one tag at a time, prints what it is, prints the whole memory  *)
(* of it in order if it can and is meant to, lets go of it, and is ready   *)
(* for the next.                                                           *)
(***************************************************************************)
EXTENDS Naturals, Sequences

CONSTANTS
  Tags,       \* the tags that come by
  LabelOf(_), \* what is printed when a tag is detected
  Unread,     \* no label: nothing has been printed of the tag yet
  Dumpable,   \* the tags whose memory can be read
  Memory      \* the sequence of blocks of such a tag

VARIABLES
  tag,    \* the tag the reader has taken up, if any
  label,  \* what it has printed of the last tag it took up
  blocks, \* the blocks it has printed of it
  dumps   \* whether the reader is one that reads memories

readerVars == <<tag, label, blocks, dumps>>

Init ==
  /\ tag = {}
  /\ label = Unread
  /\ blocks = <<>>
  /\ dumps \in BOOLEAN

TakeUp ==
  /\ tag = {}
  /\ \E t \in Tags : tag' = {t}
  /\ label' = Unread
  /\ blocks' = <<>>
  /\ UNCHANGED dumps

PrintLabel ==
  /\ label = Unread
  /\ \E t \in tag : label' = LabelOf(t)
  /\ UNCHANGED <<tag, blocks, dumps>>

\* The tag is one to read, and not all of it has been read.
ToRead == dumps /\ tag \subseteq Dumpable /\ blocks # Memory

PrintBlock ==
  /\ tag # {} /\ label # Unread /\ ToRead
  /\ blocks' = Append(blocks, Memory[Len(blocks) + 1])
  /\ UNCHANGED <<tag, label, dumps>>

LetGo ==
  /\ tag # {} /\ label # Unread /\ ~ToRead
  /\ tag' = {}
  /\ UNCHANGED <<label, blocks, dumps>>

Next == TakeUp \/ PrintLabel \/ PrintBlock \/ LetGo

Spec == Init /\ [][Next]_readerVars
=============================================================================
