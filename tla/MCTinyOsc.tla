----------------------------- MODULE MCTinyOsc -----------------------------
(* An array of 64 bytes, of which the writer is given all or, as in the     *)
(* sample, less than all: room for one to three messages.  Every sequence   *)
(* of at most two arguments of every class of type, with texts and a blob   *)
(* at the edges of a word, under an address that fills its word and one     *)
(* that does not; and by hand a format of three types, addresses that leave *)
(* no room for the comma in a bundle or in a buffer, a message that leaves  *)
(* a bundle less than a word, a text that is cut when it comes late, and an *)
(* unknown type.                                                            *)
EXTENDS TinyOsc

\* n times the same letter.
Letters(n, c) == [k \in 1..n |-> c]
Arg(t, v) == [type |-> t, value |-> v]

SomeArguments == {
  Arg(105, Word(-2)), Arg(104, Word(5) \o Word(6)), Arg(84, <<>>),
  Arg(Text, Letters(3, 97)), Arg(Text, Letters(4, 97)), Arg(Blob, Letters(5, 7)) }

Several ==
  { [address |-> Letters(n, 47), args |-> s] :
      n \in {3, 4}, s \in UNION {[1..k -> SomeArguments] : k \in 0..2} }
    \cup
  { [address |-> Letters(3, 99), args |-> <<Arg(105, Word(3)), Arg(102, Word(4)), Arg(105, Word(70000))>>],
    [address |-> Letters(2, 102), args |-> <<Arg(Text, Letters(13, 115)), Arg(78, <<>>)>>],
    [address |-> Letters(35, 103), args |-> <<>>],
    [address |-> Letters(39, 103), args |-> <<>>],
    [address |-> Letters(41, 103), args |-> <<>>],
    [address |-> Letters(61, 103), args |-> <<>>],
    [address |-> Letters(2, 104), args |-> <<Arg(105, Word(8)), Arg(120, <<>>)>>] }

Tag == Word(0) \o Word(1)
=============================================================================
