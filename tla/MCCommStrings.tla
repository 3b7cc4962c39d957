---------------------------- MODULE MCCommStrings ----------------------------
(***************************************************************************)
(* Values of the constants of CommStrings for TLC.                         *)
(***************************************************************************)
EXTENDS CommStrings, TLC

\* Strings: empty; that fit, with their delimiter, into a line of three
\* characters; one that does not; and one that holds delimiters itself.
Empty == << >>
Short == <<"a">>
Full  == <<"b", "c">>
Long  == <<"d", "e", "f">>
Split == <<NL, "g", NL, NL, "h", "i">>

SomeVectors ==
  {<< >>, <<Empty>>, <<Short, Full>>, <<Full, Empty, Short>>, <<Long, Short>>,
   <<Short, Long, Full>>, <<Split, Short>>, <<Full, Split>>}

SomeChars == {"a", "b", "c", "d", "e", "f", "g", "h", "i", NL}

DestSymmetry == Permutations(Dest)

=============================================================================
