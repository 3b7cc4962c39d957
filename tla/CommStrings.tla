----------------------------- MODULE CommStrings -----------------------------
(***************************************************************************)
(* Transfers of vectors of strings (CommStrings.cpp): the delimiters Isend *)
(* adds to the caller's strings, the buffer that each send keeps until     *)
(* WaitAll, and how Receive cuts the bytes of a message into lines.  A     *)
(* string is a sequence of characters.  MPI reads the buffer of a send at  *)
(* any time before the send completes, keeps the messages to one receiver  *)
(* in order, and packs a character into one byte.                          *)
(***************************************************************************)
EXTENDS Naturals, FiniteSets, SequencesExt

CONSTANTS
  Dest,       \* the other ranks of the communicator
  Chars,      \* the characters
  NL,         \* CommStrings::lineDelimiter
  MaxLine,    \* maxLineLength
  Vectors,    \* the vectors the application sends
  MaxSends    \* bound on the sends

ASSUME StringsAssumption ==
  /\ IsFiniteSet(Dest) /\ MaxLine \in Nat \ {0} /\ MaxSends \in Nat
  /\ NL \in Chars /\ Vectors \subseteq Seq(Seq(Chars))

VARIABLES
  strVec,     \* the application's vector, passed to Isend by reference
  meant,      \* history: that vector as the application filled it
  buffers,    \* asyncBuffers
  sendCount,
  requests,   \* how many sends WaitAll has to wait for
  pending,    \* [d]: the sends to d that have not completed, as their buffers
  mailbox,    \* [d]: the messages that await d
  sent,       \* history: [d]: the vectors meant for d
  received    \* [d]: the vectors Receive returned to d

stringsVars == <<strVec, meant, buffers, sendCount, requests, pending, mailbox, sent, received>>

\* The constructor makes a buffer for each rank, the sender's own too.
BufferCount == Cardinality(Dest) + 1

StringsInit ==
  /\ strVec \in Vectors
  /\ meant = strVec
  /\ buffers = [i \in 0..BufferCount - 1 |-> << >>]
  /\ sendCount = 0
  /\ requests = 0
  /\ pending = [d \in Dest |-> << >>]
  /\ mailbox = [d \in Dest |-> << >>]
  /\ sent = [d \in Dest |-> << >>]
  /\ received = [d \in Dest |-> << >>]

-----------------------------------------------------------------------------
\* The sender.

\* The application fills its vector anew.
Fill ==
  /\ sendCount \in 1..MaxSends - 1
  /\ strVec' \in Vectors
  /\ meant' = strVec'
  /\ UNCHANGED <<buffers, sendCount, requests, pending, mailbox, sent, received>>

PrepareData(v) == [i \in DOMAIN v |-> Append(v[i], NL)]

PackData(v) == FlattenSeq(v)

\* Isend, with the number of sends it leaves behind.  What a send without a
\* buffer would write to is undefined and not modelled.
SendAs(d, count) ==
  /\ sendCount < MaxSends /\ sendCount < BufferCount
  /\ strVec' = PrepareData(strVec)
  /\ buffers' = [buffers EXCEPT ![sendCount] = PackData(strVec')]
  /\ pending' = [pending EXCEPT ![d] = Append(@, sendCount)]
  /\ requests' = requests + 1
  /\ sendCount' = count
  /\ sent' = [sent EXCEPT ![d] = Append(@, meant)]
  /\ UNCHANGED <<meant, mailbox, received>>

\* A mistake in Isend: the send is not counted.
IsendUncounted(d) == SendAs(d, sendCount)

Isend(d) == SendAs(d, sendCount + 1)

\* WaitAll returns.  The count of sends, and with it the buffers used, stays.
WaitAll ==
  /\ requests > 0
  /\ \A d \in Dest : pending[d] = << >>
  /\ requests' = 0
  /\ UNCHANGED <<strVec, meant, buffers, sendCount, pending, mailbox, sent, received>>

\* MPI reads the buffer of the oldest send to d: the send is complete.
Complete(d) ==
  /\ pending[d] # << >>
  /\ mailbox' = [mailbox EXCEPT ![d] = Append(@, buffers[Head(pending[d])])]
  /\ pending' = [pending EXCEPT ![d] = Tail(@)]
  /\ UNCHANGED <<strVec, meant, buffers, sendCount, requests, sent, received>>

-----------------------------------------------------------------------------
\* The receiver.

\* The end of a line: it is kept if it is not empty.
EndLine(s) ==
  [lines |-> IF s.line = << >> THEN s.lines ELSE Append(s.lines, s.line), line |-> << >>]

\* One turn of the loop.  No byte is unpacked after a line has filled its buffer.
Unpack(s, c) ==
  IF Len(s.line) = MaxLine
    THEN s
    ELSE IF c = NL THEN EndLine(s) ELSE [s EXCEPT !.line = Append(@, c)]

\* The loop over all of the bytes.
Unpacked(bytes) ==
  LET after[n \in 0..Len(bytes)] ==
        IF n = 0 THEN [lines |-> << >>, line |-> << >>] ELSE Unpack(after[n - 1], bytes[n])
  IN  after[Len(bytes)]

\* The last byte ends the last line and is not part of it.
Lines(bytes) ==
  IF bytes = << >>
    THEN << >>
    ELSE LET s == Unpacked(Front(bytes))
         IN  IF Len(s.line) = MaxLine THEN s.lines ELSE EndLine(s).lines

\* A mistake in Receive: an empty message is not taken.
ReceiveNoEmpty(d) ==
  /\ mailbox[d] # << >>
  /\ Len(received[d]) < MaxSends   \* so that TLC ends
  /\ received' = [received EXCEPT ![d] = Append(@, Lines(Head(mailbox[d])))]
  /\ mailbox' = IF Head(mailbox[d]) = << >> THEN mailbox ELSE [mailbox EXCEPT ![d] = Tail(@)]
  /\ UNCHANGED <<strVec, meant, buffers, sendCount, requests, pending, sent>>

Receive(d) ==
  /\ mailbox[d] # << >>
  /\ received' = [received EXCEPT ![d] = Append(@, Lines(Head(mailbox[d])))]
  /\ mailbox' = [mailbox EXCEPT ![d] = Tail(@)]
  /\ UNCHANGED <<strVec, meant, buffers, sendCount, requests, pending, sent>>

\* Everything is sent, WaitAll has returned and nothing is left to receive.
Finished ==
  /\ sendCount = MaxSends /\ requests = 0
  /\ \A d \in Dest : pending[d] = << >> /\ mailbox[d] = << >>
  /\ UNCHANGED stringsVars

StringsNext == Fill \/ WaitAll \/ Finished \/ \E d \in Dest : Isend(d) \/ Complete(d) \/ Receive(d)

StringsSpec == StringsInit /\ [][StringsNext]_stringsVars

-----------------------------------------------------------------------------
\* A piece that is not empty, from i up to the delimiter at j.
IsPiece(bytes, i, j) ==
  /\ i < j /\ bytes[j] = NL
  /\ i = 1 \/ bytes[i - 1] = NL
  /\ \A k \in i..j - 1 : bytes[k] # NL

\* The pieces that Receive can return, by their delimiters: none from the first
\* on that does not fit, with its delimiter, into the buffer.
Kept(bytes) ==
  {j \in DOMAIN bytes :
     /\ \E i \in DOMAIN bytes : IsPiece(bytes, i, j)
     /\ \A i, k \in DOMAIN bytes : k <= j /\ IsPiece(bytes, i, k) => k - i < MaxLine}

PlacesTo(positions, j) == {k \in positions : k <= j}

\* The lines are the pieces at these positions, each once and in order.
AreLines(lines, bytes, positions) ==
  /\ Len(lines) = Cardinality(positions)
  /\ \A j \in positions : \A i \in DOMAIN bytes :
       IsPiece(bytes, i, j) =>
         lines[Cardinality(PlacesTo(positions, j))] = SubSeq(bytes, i, j - 1)

\* The lines are what can be received of a vector.
AreUsable(lines, v) ==
  LET bytes == FlattenSeq(PrepareData(v)) IN AreLines(lines, bytes, Kept(bytes))

\* Each vector received is what Receive can return of the vector meant for the
\* receiver, in the order of the sends, whatever was sent since and however
\* often the sender has sent the same vector, which carries one more delimiter
\* on each string every time (Isend, Receive).
ReceivedAsSent ==
  \A d \in Dest : \A i \in DOMAIN received[d] :
    i <= Len(sent[d]) /\ AreUsable(received[d][i], sent[d][i])

\* The buffer of a send that has not completed is left alone.
BuffersKept ==
  [][\A d \in Dest : \A i \in DOMAIN pending[d] :
       buffers'[pending[d][i]] = buffers[pending[d][i]]]_stringsVars

\* "store buffer until WaitAll is done" (CommStrings.cpp:184): when no send is
\* waited for, the buffers are free and the next Isend finds one.
BuffersAreFreed == requests = 0 => sendCount < BufferCount

=============================================================================
