------------------------------ MODULE MCLibrary ------------------------------
(***************************************************************************)
(* Values of the constants of Library for TLC.                             *)
(***************************************************************************)
EXTENDS Library, MCCommStrings

Time(h, m, s) == [hour |-> h, minute |-> m, second |-> s]

\* A second, carries of every kind, times whose parts are ordered in opposite
\* ways, hours of which two overflow, and times that are not normal, one of
\* which overflows by itself.
SomeTimes == {Time(0, 0, 1), Time(0, 59, 59), Time(1, 30, 0), Time(2, 0, 0),
              Time(40000, 59, 1), Time(0, 75, 130), Time(65535, 61, 0)}

Program == <<"p">>

\* Arguments: plain; with a blank inside; white first; of two lines, with an
\* empty one between them; empty; and one that makes a line of two too long.
SomeArgs == {<<"a">>, <<"b", " ", "c">>, <<" ", "d">>, <<"e", "NL", "NL", "f">>, <<>>,
             <<"g", "h", "i", "j", "k">>, NullPtr}

SomeCharacters == {"NL", " "} \cup {"a", "b", "c", "d", "e", "f", "g", "h", "i", "j", "k", "p"}

SomeNumbers == {-1, 0, 1, 2}

\* Up to three arguments behind the name of the program.
SomeArgvs == {<<Program>> \o s : s \in UNION {[1..n -> SomeArgs] : n \in 0..3}}

=============================================================================
