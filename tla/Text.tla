-------------------------------- MODULE Text --------------------------------
(***************************************************************************)
(* The files and streams that the tools read: any sequence of the phrases  *)
(* a reader may meet, up to a number of phrases. What a reader makes of a  *)
(* text is a function of it, defined in the module of the reader and       *)
(* compared there with what the text means.                                *)
(***************************************************************************)
EXTENDS Integers, Sequences, FiniteSets, SequencesExt, FiniteSetsExt

CONSTANTS
  Readers,   \* the readers
  Phrases,   \* per reader, the sequences of tokens that occur
  Longest    \* per reader, how many of them a text has at most

ASSUME TextConstants == Readers = DOMAIN Phrases /\ Longest \in [Readers -> Nat]

VARIABLES
  reader,    \* who reads
  src,       \* the text
  size       \* the phrases in it

\* The ends of lines.
LF == "LF"
CR == "CR"

textvars == <<reader, src, size>>

TextInit == reader \in Readers /\ src = <<>> /\ size = 0

Type(p) ==
  /\ size < Longest[reader]
  /\ src' = src \o p /\ size' = size + 1
  /\ UNCHANGED reader

TextNext == \E p \in Phrases[reader] : Type(p)

TextSpec == TextInit /\ [][TextNext]_textvars
=============================================================================
