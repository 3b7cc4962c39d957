------------------------------ MODULE Utilities ------------------------------
(***************************************************************************)
(* How the arguments of the program reach a task: Configuration keeps the  *)
(* vector of them, the controller joins it to one string, which the task   *)
(* cuts into tokens again (Configuration.h, UtilitiesMPI.cpp, the handler  *)
(* of Tag_RequestCmdLineArgs).  Here the characters matter.                *)
(***************************************************************************)
EXTENDS Integers, SequencesExt

CONSTANTS
  Characters, NL_CHAR, BLANK_CHAR,
  NullPtr,       \* a null pointer among the C strings
  Argvs,         \* vectors argv, from argv[0] on
  MaxNumbers,    \* what tasks give ParseTokens as maxNumber
  ShortMax       \* the largest value of short, 2^15 - 1

ASSUME UtilitiesAssumption ==
  /\ ShortMax \in Nat \ {0} /\ MaxNumbers \subseteq Int
  /\ {NL_CHAR, BLANK_CHAR} \subseteq Characters /\ NullPtr \notin Seq(Characters)
  /\ Argvs \subseteq Seq(Seq(Characters) \cup {NullPtr}) \ {<<>>}

VARIABLES
  argv,       \* what main is given
  args,       \* Configuration::args
  line,       \* the string the controller sends
  tokens,     \* what the task makes of it
  maxNumber,  \* the most tokens that it asks for, all if not positive
  stage       \* how far the arguments have come

utilVars == <<argv, args, line, tokens, maxNumber, stage>>

UtilInit ==
  /\ argv \in Argvs
  /\ args = <<>> /\ line = <<>> /\ tokens = <<>>
  /\ stage = "given"
  /\ maxNumber \in MaxNumbers

-----------------------------------------------------------------------------
\* The elements of a sequence that are not in a set.
Without(s, unwanted) ==
  FlattenSeq([i \in DOMAIN s |-> IF s[i] \in unwanted THEN <<>> ELSE <<s[i]>>])

\* ToStrVec leaves null pointers out.
ToStrVec(strings) == Without(strings, {NullPtr})

\* A mistake in JoinStrings: the separator is put behind every string.
JoinTerminated(strings, separator) ==
  FlattenSeq([i \in DOMAIN strings |-> Append(strings[i], separator)])

\* JoinStrings, to an empty string: a separator before each string, but none
\* while the result is empty.
JoinStrings(strings, separator) ==
  LET isFirst(i) == \A k \in 1..i - 1 : strings[k] = <<>>
  IN  FlattenSeq([i \in DOMAIN strings |->
                    IF isFirst(i) THEN strings[i] ELSE <<separator>> \o strings[i]])

\* The conversion of a length to short.
ToShort(n) == ((n + ShortMax + 1) % (2 * (ShortMax + 1))) - (ShortMax + 1)

WhiteSpace == {NL_CHAR, BLANK_CHAR}

\* One character of the loop of ParseTokens without its limit: white space in
\* front of a token is skipped, the delimiter too if it is white; then a token
\* is what stands before the next delimiter.
Scan(s, c, delimiter) ==
  IF s.token = <<>> /\ c \in WhiteSpace THEN s
  ELSE IF c = delimiter THEN [tokens |-> Append(s.tokens, s.token), token |-> <<>>]
  ELSE [s EXCEPT !.token = Append(@, c)]

Scanned(str, delimiter) ==
  LET after[n \in 0..Len(str)] ==
        IF n = 0 THEN [tokens |-> <<>>, token |-> <<>>] ELSE Scan(after[n - 1], str[n], delimiter)
  IN  after[Len(str)]

\* A mistake in ParseTokens: a token without a delimiter behind it is lost.
AllTerminated(str, delimiter) == Scanned(str, delimiter).tokens

\* At the end of the string a last token is pushed, an empty one if nothing but
\* white space follows the last delimiter.
AllTokens(str, delimiter) ==
  LET s == Scanned(str, delimiter) IN Append(s.tokens, s.token)

\* Without a maximum the limit is the length of the string, kept in a short.
ParseTokens(str, delimiter, most) ==
  LET limit == IF most > 0 THEN most ELSE ToShort(Len(str))
      all == AllTokens(str, delimiter)
  IN  SubSeq(all, 1, IF limit < Len(all) THEN limit ELSE Len(all))

-----------------------------------------------------------------------------
\* Configuration::Configuration, in Master.
Configure ==
  /\ stage = "given" /\ stage' = "configured"
  /\ args' = ToStrVec(Tail(argv))
  /\ UNCHANGED <<argv, line, tokens, maxNumber>>

\* Controller::DoActionRequestCmdLineArgs.
SendArgs ==
  /\ stage = "configured" /\ stage' = "sent"
  /\ line' = JoinStrings(args, NL_CHAR)
  /\ UNCHANGED <<argv, args, tokens, maxNumber>>

\* The task takes Tag_CmdLineArgs apart.
ParseArgs ==
  /\ stage = "sent" /\ stage' = "parsed"
  /\ tokens' = ParseTokens(line, NL_CHAR, maxNumber)
  /\ UNCHANGED <<argv, args, line, maxNumber>>

UtilNext == Configure \/ SendArgs \/ ParseArgs

UtilSpec == UtilInit /\ [][UtilNext]_utilVars

-----------------------------------------------------------------------------
Given == Without(Tail(argv), {NullPtr})

\* An argument that can travel: a line of its own that does not begin white.
Plain(s) == s # <<>> /\ s[1] \notin WhiteSpace /\ \A i \in DOMAIN s : s[i] # NL_CHAR

\* The task gets the arguments of the program, in order and none else, as many
\* of them as it asks for, if each can travel and the line is not longer than
\* short can say (JoinStrings, ParseTokens).
ArgumentsArrive ==
  (stage = "parsed" /\ (\A i \in DOMAIN Given : Plain(Given[i])) /\ Len(line) <= ShortMax) =>
    tokens = IF 0 < maxNumber /\ maxNumber < Len(Given) THEN SubSeq(Given, 1, maxNumber)
             ELSE IF Given = <<>> /\ maxNumber > 0 THEN <<(<<>>)>> ELSE Given

\* Whatever the arguments are, also empty, white or of several lines: if the
\* task asks for all of them, none of their characters but white space and
\* none of their order is lost on a line that a short can count.
CharactersArrive ==
  (stage = "parsed" /\ maxNumber <= 0 /\ Len(line) <= ShortMax) =>
    Without(FlattenSeq(tokens), WhiteSpace) = Without(FlattenSeq(Given), WhiteSpace)

=============================================================================
