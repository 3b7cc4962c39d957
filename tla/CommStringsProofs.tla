-------------------------- MODULE CommStringsProofs --------------------------
(***************************************************************************)
(* The transfers of CommStrings, for any number of receivers and of sends, *)
(* any vectors of strings and any length of the receiver's line buffer:    *)
(* the buffers of the sends, what a receiver makes of the bytes it gets,   *)
(* and both together.                                                      *)
(***************************************************************************)
EXTENDS CommStrings, SequenceLemmas, FiniteSetTheorems, TLAPS

-----------------------------------------------------------------------------
\* The buffers.

Index == 0..BufferCount - 1

LEMMA BufferCountType == BufferCount \in Nat \ {0}
<1>1. Cardinality(Dest) \in Nat
  BY StringsAssumption, FS_CardinalityType
<1> QED BY <1>1 DEF BufferCount

\* The sends so far have had a buffer each, and those under way still have
\* theirs among them.
BuffersInv ==
  /\ buffers = [i \in Index |-> buffers[i]]
  /\ sendCount \in Nat /\ sendCount <= BufferCount
  /\ pending \in [Dest -> Seq(Nat)]
  /\ \A d \in Dest : \A i \in 1..Len(pending[d]) : pending[d][i] < sendCount

\* A send takes the first buffer that no send has had; a completed one gives
\* none back.
LEMMA IsendInv ==
  ASSUME BuffersInv, NEW e \in Dest, Isend(e)
  PROVE  BuffersInv'
<1>1. /\ sendCount < BufferCount /\ sendCount' = sendCount + 1
      /\ buffers' = [buffers EXCEPT ![sendCount] = PackData(strVec')]
      /\ pending' = [pending EXCEPT ![e] = Append(@, sendCount)]
  BY DEF Isend, SendAs
<1>2. buffers' = [i \in Index |-> buffers'[i]]
  BY <1>1 DEF BuffersInv
<1>3. sendCount' \in Nat /\ sendCount' <= BufferCount
  BY <1>1, BufferCountType DEF BuffersInv
<1>4. pending' \in [Dest -> Seq(Nat)]
  BY <1>1 DEF BuffersInv
<1>5. ASSUME NEW d \in Dest, NEW i \in 1..Len(pending'[d])
      PROVE  pending'[d][i] < sendCount'
  <2>1. CASE d = e
    <3>1. pending'[d] = Append(pending[d], sendCount) /\ pending[d] \in Seq(Nat)
      BY <1>1, <2>1 DEF BuffersInv
    <3>2. CASE i = Len(pending[d]) + 1
      BY <1>1, <3>1, <3>2 DEF BuffersInv
    <3>3. CASE i # Len(pending[d]) + 1
      <4>1. i \in 1..Len(pending[d]) /\ pending'[d][i] = pending[d][i] /\ pending[d][i] \in Nat
        BY <1>5, <3>1, <3>3
      <4> QED BY <1>1, <4>1 DEF BuffersInv
    <3> QED BY <3>2, <3>3
  <2>2. CASE d # e
    <3>1. pending'[d] = pending[d] /\ pending[d] \in Seq(Nat)
      BY <1>1, <2>2 DEF BuffersInv
    <3>2. pending[d][i] \in Nat /\ pending[d][i] < sendCount
      BY <1>5, <3>1 DEF BuffersInv
    <3> QED BY <1>1, <3>1, <3>2 DEF BuffersInv
  <2> QED BY <2>1, <2>2
<1> QED BY <1>2, <1>3, <1>4, <1>5 DEF BuffersInv

LEMMA CompleteInv ==
  ASSUME BuffersInv, NEW e \in Dest, Complete(e)
  PROVE  BuffersInv'
<1>1. /\ pending[e] # << >> /\ pending' = [pending EXCEPT ![e] = Tail(@)]
      /\ UNCHANGED <<buffers, sendCount>>
  BY DEF Complete
<1>2. pending' \in [Dest -> Seq(Nat)]
  BY <1>1 DEF BuffersInv
<1>3. ASSUME NEW d \in Dest, NEW i \in 1..Len(pending'[d])
      PROVE  pending'[d][i] < sendCount
  <2>1. CASE d = e
    <3>1. pending'[d] = Tail(pending[d]) /\ pending[d] \in Seq(Nat) /\ pending[d] # << >>
      BY <1>1, <2>1 DEF BuffersInv
    <3>2. i + 1 \in 1..Len(pending[d]) /\ pending'[d][i] = pending[d][i + 1]
      BY <1>3, <3>1
    <3> QED BY <3>2 DEF BuffersInv
  <2>2. CASE d # e
    BY <1>1, <1>3, <2>2 DEF BuffersInv
  <2> QED BY <2>1, <2>2
<1> QED BY <1>1, <1>2, <1>3 DEF BuffersInv

LEMMA BuffersStep == BuffersInv /\ [StringsNext]_stringsVars => BuffersInv'
<1> SUFFICES ASSUME BuffersInv, [StringsNext]_stringsVars PROVE BuffersInv'
  OBVIOUS
<1>1. CASE \E d \in Dest : Isend(d) \/ Complete(d)
  BY <1>1, IsendInv, CompleteInv
<1>2. CASE Fill \/ WaitAll \/ Finished \/ (\E d \in Dest : Receive(d)) \/ UNCHANGED stringsVars
  <2>1. UNCHANGED <<buffers, sendCount, pending>>
    BY <1>2 DEF Fill, WaitAll, Finished, Receive, stringsVars
  <2> QED BY <2>1 DEF BuffersInv
<1> QED BY <1>1, <1>2 DEF StringsNext

\* BuffersKept: no send touches the buffer of another that MPI has not read,
\* however many sends there are, in whichever order they complete.
THEOREM BuffersKeptCorrect == StringsSpec => BuffersKept
<1>1. StringsInit => BuffersInv
  BY BufferCountType DEF StringsInit, BuffersInv, Index
<1>2. BuffersInv /\ [StringsNext]_stringsVars =>
        [\A d \in Dest : \A i \in DOMAIN pending[d] :
           buffers'[pending[d][i]] = buffers[pending[d][i]]]_stringsVars
  <2> SUFFICES ASSUME BuffersInv, [StringsNext]_stringsVars,
                      NEW d \in Dest, NEW i \in DOMAIN pending[d]
               PROVE  buffers'[pending[d][i]] = buffers[pending[d][i]]
    OBVIOUS
  <2>1. pending[d][i] \in Nat /\ pending[d][i] < sendCount /\ sendCount <= BufferCount /\ sendCount \in Nat
    BY DEF BuffersInv
  <2>2. pending[d][i] \in Index /\ pending[d][i] # sendCount
    BY <2>1, BufferCountType DEF Index
  <2>3. CASE \E e \in Dest : Isend(e)
    BY <2>2, <2>3 DEF Isend, SendAs, BuffersInv
  <2>4. CASE ~\E e \in Dest : Isend(e)
    BY <2>4 DEF StringsNext, Fill, WaitAll, Finished, Receive, Complete, stringsVars
  <2> QED BY <2>3, <2>4
<1> QED BY <1>1, <1>2, BuffersStep, PTL DEF StringsSpec, BuffersKept


-----------------------------------------------------------------------------
\* What Receive has unpacked after each byte.

Unpacking == [lines : Seq(Seq(Chars)), line : Seq(Chars)]

Start == [lines |-> << >>, line |-> << >>]

LEMMA StartType == Start \in Unpacking
BY EmptySeq DEF Start, Unpacking

LEMMA UnpackType ==
  ASSUME NEW s \in Unpacking, NEW c \in Chars
  PROVE  Unpack(s, c) \in Unpacking
<1>1. s.line \in Seq(Chars) /\ s.lines \in Seq(Seq(Chars))
  BY DEF Unpacking
<1>2. << >> \in Seq(Chars) /\ Append(s.lines, s.line) \in Seq(Seq(Chars)) /\ Append(s.line, c) \in Seq(Chars)
  BY <1>1, AppendProperties, EmptySeq
<1>3. EndLine(s) \in Unpacking
  BY <1>1, <1>2 DEF EndLine, Unpacking
<1>4. [s EXCEPT !.line = Append(@, c)] \in Unpacking
  <2> DEFINE l == Append(s.line, c)
  <2>1. l \in Seq(Chars)
    BY <1>2
  <2> HIDE DEF l
  <2>2. [s EXCEPT !.line = l] \in Unpacking
    BY <2>1 DEF Unpacking
  <2> QED BY <2>2 DEF l
<1> QED BY <1>3, <1>4 DEF Unpack

IsAfter(f, bytes) ==
  /\ f \in [0..Len(bytes) -> Unpacking] /\ f[0] = Start
  /\ \A i \in 1..Len(bytes) : f[i] = Unpack(f[i - 1], bytes[i])

LEMMA AfterExists ==
  ASSUME NEW bytes \in Seq(Chars)
  PROVE  \E f : IsAfter(f, bytes)
<1> DEFINE n == Len(bytes)
           step == [i \in 1..n |-> [s \in Unpacking |-> Unpack(s, bytes[i])]]
<1>1. n \in Nat /\ \A i \in 1..n : bytes[i] \in Chars
  BY LenProperties, ElementOfSeq
<1> HIDE DEF n
<1>2. AreSteps(step, n, Unpacking)
  <2>1. \A i \in 1..n : \A s \in Unpacking : Unpack(s, bytes[i]) \in Unpacking
    BY <1>1, UnpackType
  <2> QED BY <2>1 DEF AreSteps
<1>3. \A i \in 1..n : \A s \in Unpacking : step[i][s] = Unpack(s, bytes[i])
  OBVIOUS
<1> HIDE DEF step
<1>4. PICK f : IsIteration(f, n, Unpacking, Start, step)
  BY <1>1, <1>2, StartType, Iteration
<1>5. f \in [0..n -> Unpacking] /\ f[0] = Start /\ \A i \in 1..n : f[i] = step[i][f[i - 1]]
  BY <1>4 DEF IsIteration
<1>6. \A i \in 1..n : f[i] = Unpack(f[i - 1], bytes[i])
  <2>1. \A i \in 1..n : i - 1 \in 0..n
    BY <1>1
  <2> QED BY <1>3, <1>5, <2>1
<1> QED BY <1>5, <1>6 DEF IsAfter, n

LEMMA UnpackedIs ==
  ASSUME NEW bytes \in Seq(Chars), NEW f, IsAfter(f, bytes)
  PROVE  Unpacked(bytes) = f[Len(bytes)]
<1> DEFINE n == Len(bytes)
           Is(g) == g = [i \in 0..n |-> IF i = 0 THEN Start ELSE Unpack(g[i - 1], bytes[i])]
           after == CHOOSE g : Is(g)
<1>1. n \in Nat
  BY LenProperties
<1>2. f \in [0..n -> Unpacking] /\ f[0] = Start /\ \A i \in 1..n : f[i] = Unpack(f[i - 1], bytes[i])
  BY DEF IsAfter
<1>3. Unpacked(bytes) = after[n]
  BY DEF Unpacked, Start
<1>4. Is(f)
  <2>1. \A i \in 0..n : i # 0 => i \in 1..n
    BY <1>1
  <2> HIDE DEF n
  <2> QED BY <1>2, <2>1
<1>5. Is(after)
  BY <1>4
<1> HIDE DEF after
<1>6. StepAlike(f, after, n)
  <2>1. after[0] = Start
    BY <1>1, <1>5
  <2>2. \A i \in 1..n : after[i] = Unpack(after[i - 1], bytes[i])
    BY <1>1, <1>5
  <2> HIDE DEF n
  <2> QED BY <1>2, <2>1, <2>2 DEF StepAlike
<1>7. f[n] = after[n]
  <2> HIDE DEF n
  <2>1. n \in 0..n
    BY <1>1
  <2> QED BY <1>1, <1>6, <2>1, SameIteration
<1> QED BY <1>3, <1>7

LEMMA UnpackedEmpty == Unpacked(<< >>) = Start
<1>1. << >> \in Seq(Chars) /\ Len(<< >>) = 0
  BY EmptySeq
<1>2. PICK f : IsAfter(f, << >>)
  BY <1>1, AfterExists
<1> QED BY <1>1, <1>2, UnpackedIs DEF IsAfter

\* The first bytes are unpacked whatever follows.
LEMMA UnpackedAppend ==
  ASSUME NEW bytes \in Seq(Chars), NEW c \in Chars
  PROVE  /\ Unpacked(bytes) \in Unpacking
         /\ Unpacked(Append(bytes, c)) = Unpack(Unpacked(bytes), c)
<1> DEFINE n == Len(bytes)
           more == Append(bytes, c)
<1>1. /\ n \in Nat /\ more \in Seq(Chars) /\ Len(more) = n + 1 /\ more[n + 1] = c
      /\ \A i \in 1..n : more[i] = bytes[i]
  BY AppendProperties, LenProperties
<1> HIDE DEF more
<1>2. PICK f : IsAfter(f, more)
  BY <1>1, AfterExists
<1>3. f \in [0..n + 1 -> Unpacking] /\ f[0] = Start /\ \A i \in 1..n + 1 : f[i] = Unpack(f[i - 1], more[i])
  BY <1>1, <1>2 DEF IsAfter
<1> DEFINE g == [i \in 0..n |-> f[i]]
<1>4. IsAfter(g, bytes)
  <2>1. g \in [0..n -> Unpacking] /\ g[0] = Start
    BY <1>1, <1>3
  <2>2. ASSUME NEW i \in 1..n PROVE g[i] = Unpack(g[i - 1], bytes[i])
    <3>1. i \in 0..n /\ i - 1 \in 0..n /\ i \in 1..n + 1
      BY <1>1
    <3> QED BY <1>1, <1>3, <3>1
  <2> HIDE DEF g
  <2> QED BY <2>1, <2>2 DEF IsAfter
<1>5. Unpacked(bytes) = f[n]
  <2>1. Unpacked(bytes) = g[n]
    BY <1>4, UnpackedIs
  <2> QED BY <1>1, <2>1
<1>6. Unpacked(more) = f[n + 1]
  BY <1>1, <1>2, UnpackedIs
<1>7. f[n + 1] = Unpack(f[n], c) /\ f[n] \in Unpacking
  <2>1. n + 1 \in 1..n + 1 /\ (n + 1) - 1 = n /\ n \in 0..n + 1
    BY <1>1
  <2>2. f[n + 1] = Unpack(f[(n + 1) - 1], more[n + 1])
    BY <1>3, <2>1
  <2> QED BY <1>1, <1>3, <2>1, <2>2
<1> QED BY <1>5, <1>6, <1>7 DEF more

\* Of bytes that end with a delimiter, the last is treated like any other.
LEMMA LinesUnpacked ==
  ASSUME NEW bytes \in Seq(Chars), bytes # << >> => bytes[Len(bytes)] = NL
  PROVE  Lines(bytes) = Unpacked(bytes).lines
<1>1. CASE bytes = << >>
  BY <1>1, UnpackedEmpty DEF Lines, Start
<1>2. CASE bytes # << >>
  <2>1. PICK front \in Seq(Chars), c \in Chars : bytes = Append(front, c)
    BY <1>2, SequenceEmptyOrAppend
  <2>2. c = NL /\ Front(bytes) = front
    <3>1. Len(bytes) = Len(front) + 1 /\ bytes[Len(front) + 1] = c /\ Len(front) \in Nat
          /\ \A i \in 1..Len(front) : bytes[i] = front[i]
      BY <2>1, AppendProperties, LenProperties
    <3>2. c = NL
      BY <1>2, <3>1
    <3>3. Front(bytes) \in Seq(Chars) /\ Len(Front(bytes)) = Len(front)
          /\ \A i \in 1..Len(front) : Front(bytes)[i] = bytes[i]
      <4>1. Front(bytes) = [i \in 1..Len(front) |-> bytes[i]]
        BY <3>1 DEF Front, SubSeq
      <4>2. \A i \in 1..Len(front) : bytes[i] \in Chars
        BY <3>1, ElementOfSeq
      <4> QED BY <3>1, <4>1, <4>2
    <3> QED BY <3>1, <3>2, <3>3, SeqEqual
  <2>3. Unpacked(front) \in Unpacking /\ Unpacked(bytes) = Unpack(Unpacked(front), NL)
    BY <2>1, <2>2, UnpackedAppend
  <2>4. Lines(bytes) = IF Len(Unpacked(front).line) = MaxLine THEN Unpacked(front).lines
                       ELSE EndLine(Unpacked(front)).lines
    BY <1>2, <2>2 DEF Lines
  <2> QED BY <2>3, <2>4 DEF Unpack
<1> QED BY <1>1, <1>2

-----------------------------------------------------------------------------
\* More delimiters on strings that have one.

Strings == Seq(Seq(Chars))

LEMMA SameContinued ==
  ASSUME NEW a \in Seq(Chars), NEW b \in Seq(Chars), Unpacked(a) = Unpacked(b)
  PROVE  \A c \in Seq(Chars) : Unpacked(a \o c) = Unpacked(b \o c)
<1> DEFINE T == {c \in Seq(Chars) : Unpacked(a \o c) = Unpacked(b \o c)}
<1>1. << >> \in T
  <2>1. a \o << >> = a /\ b \o << >> = b /\ << >> \in Seq(Chars)
    BY ConcatEmptySeq, EmptySeq
  <2> QED BY <2>1
<1>2. ASSUME NEW c \in Seq(Chars), NEW x \in Chars, c \in T PROVE Append(c, x) \in T
  <2>1. a \o Append(c, x) = Append(a \o c, x) /\ a \o c \in Seq(Chars)
    BY ConcatAppend
  <2>2. b \o Append(c, x) = Append(b \o c, x) /\ b \o c \in Seq(Chars)
    BY ConcatAppend
  <2>3. Unpacked(Append(a \o c, x)) = Unpacked(Append(b \o c, x))
    BY <1>2, <2>1, <2>2, UnpackedAppend
  <2>4. Append(c, x) \in Seq(Chars)
    BY AppendProperties
  <2> QED BY <2>1, <2>2, <2>3, <2>4
<1> HIDE DEF T
<1>3. \A c \in Seq(Chars) : c \in T
  BY <1>1, <1>2, SequenceInduction
<1> QED BY <1>3 DEF T

LEMMA DelimiterTwice ==
  ASSUME NEW s \in Unpacking
  PROVE  Unpack(Unpack(s, NL), NL) = Unpack(s, NL)
<1>1. CASE Len(s.line) = MaxLine
  BY <1>1 DEF Unpack
<1>2. CASE Len(s.line) # MaxLine
  <2> DEFINE e == EndLine(s)
  <2>1. Unpack(s, NL) = e
    BY <1>2 DEF Unpack
  <2>2. e.line = << >> /\ e = [lines |-> e.lines, line |-> << >>]
    BY DEF EndLine
  <2> HIDE DEF e
  <2>3. Len(e.line) # MaxLine
    BY <2>2, EmptySeq, StringsAssumption
  <2>4. EndLine(e) = e
    BY <2>2 DEF EndLine
  <2> QED BY <2>1, <2>3, <2>4 DEF Unpack
<1> QED BY <1>1, <1>2

LEMMA PrepareType ==
  ASSUME NEW v \in Strings
  PROVE  /\ PrepareData(v) \in Strings /\ Len(PrepareData(v)) = Len(v)
         /\ \A i \in 1..Len(v) : PrepareData(v)[i] = Append(v[i], NL)
<1>1. Len(v) \in Nat /\ DOMAIN v = 1..Len(v) /\ \A i \in 1..Len(v) : v[i] \in Seq(Chars)
  BY LenProperties, ElementOfSeq DEF Strings
<1>2. \A i \in 1..Len(v) : Append(v[i], NL) \in Seq(Chars)
  BY <1>1, AppendProperties, StringsAssumption
<1>3. PrepareData(v) = [i \in 1..Len(v) |-> Append(v[i], NL)]
  BY <1>1 DEF PrepareData
<1> DEFINE n == Len(v)
           a == [i \in 1..n |-> Append(v[i], NL)]
<1>4. n \in Nat /\ a \in [1..n -> Seq(Chars)]
  BY <1>1, <1>2
<1>5. \A i \in 1..n : a[i] = Append(v[i], NL)
  OBVIOUS
<1> HIDE DEF n, a
<1>6. a \in Seq(Seq(Chars)) /\ Len(a) = n
  BY <1>4
<1> QED BY <1>3, <1>5, <1>6 DEF n, a, Strings

LEMMA PrepareAppend ==
  ASSUME NEW v \in Strings, NEW s \in Seq(Chars)
  PROVE  /\ PrepareData(Append(v, s)) = Append(PrepareData(v), Append(s, NL))
         /\ Append(v, s) \in Strings /\ Append(s, NL) \in Seq(Chars)
<1> DEFINE n == Len(v)
           w == Append(v, s)
           p == PrepareData(w)
           q == Append(PrepareData(v), Append(s, NL))
<1>1. /\ w \in Strings /\ Len(w) = n + 1 /\ n \in Nat /\ w[n + 1] = s
      /\ \A i \in 1..n : w[i] = v[i]
  BY AppendProperties, LenProperties DEF Strings
<1> HIDE DEF w
<1>2. p \in Strings /\ Len(p) = n + 1 /\ \A i \in 1..n + 1 : p[i] = Append(w[i], NL)
  BY <1>1, PrepareType
<1>3. Append(s, NL) \in Seq(Chars)
  BY AppendProperties, StringsAssumption
<1>4. /\ q \in Strings /\ Len(q) = n + 1 /\ q[n + 1] = Append(s, NL)
      /\ \A i \in 1..n : q[i] = PrepareData(v)[i] /\ PrepareData(v)[i] = Append(v[i], NL)
  BY <1>3, PrepareType, AppendProperties DEF Strings
<1> HIDE DEF p, q
<1>5. \A i \in 1..n + 1 : p[i] = q[i]
  <2>1. ASSUME NEW i \in 1..n + 1 PROVE p[i] = q[i]
    <3>1. CASE i \in 1..n
      BY <1>1, <1>2, <1>4, <3>1
    <3>2. CASE i = n + 1
      BY <1>1, <1>2, <1>4, <3>2
    <3> QED BY <1>1, <3>1, <3>2
  <2> QED BY <2>1
<1>6. p = q
  BY <1>2, <1>4, <1>5, SeqEqual DEF Strings
<1> QED BY <1>1, <1>3, <1>6 DEF w, p, q

\* Each string ends with a delimiter.
AreDelimited(v) == \A i \in 1..Len(v) : \E r \in Seq(Chars) : v[i] = Append(r, NL)

LEMMA DelimitedAppend ==
  ASSUME NEW v \in Strings, NEW s \in Seq(Chars), AreDelimited(Append(v, s))
  PROVE  AreDelimited(v) /\ \E r \in Seq(Chars) : s = Append(r, NL)
<1>1. /\ Len(Append(v, s)) = Len(v) + 1 /\ Len(v) \in Nat /\ Append(v, s)[Len(v) + 1] = s
      /\ \A i \in 1..Len(v) : Append(v, s)[i] = v[i]
  BY AppendProperties, LenProperties DEF Strings
<1>2. Len(v) + 1 \in 1..Len(v) + 1 /\ \A i \in 1..Len(v) : i \in 1..Len(v) + 1
  BY <1>1
<1> QED BY <1>1, <1>2 DEF AreDelimited

LEMMA PreparedIsDelimited ==
  ASSUME NEW v \in Strings
  PROVE  AreDelimited(PrepareData(v))
<1>1. \A i \in 1..Len(v) : v[i] \in Seq(Chars)
  BY ElementOfSeq DEF Strings
<1> QED BY <1>1, PrepareType DEF AreDelimited

\* The bytes of such strings end with a delimiter.
LEMMA BytesEnd ==
  ASSUME NEW v \in Strings, AreDelimited(v)
  PROVE  /\ FlattenSeq(v) \in Seq(Chars)
         /\ FlattenSeq(v) # << >> => FlattenSeq(v)[Len(FlattenSeq(v))] = NL
<1>1. CASE v = << >>
  BY <1>1, FlattenEmpty, EmptySeq
<1>2. CASE v # << >>
  <2>1. PICK w \in Strings, s \in Seq(Chars) : v = Append(w, s)
    BY <1>2, SequenceEmptyOrAppend DEF Strings
  <2>2. PICK r \in Seq(Chars) : s = Append(r, NL)
    BY <2>1, DelimitedAppend
  <2>3. FlattenSeq(w) \in Seq(Chars) /\ FlattenSeq(v) = FlattenSeq(w) \o s
    BY <2>1, FlattenAppend DEF Strings
  <2>4. FlattenSeq(v) = Append(FlattenSeq(w) \o r, NL) /\ FlattenSeq(w) \o r \in Seq(Chars)
    BY <2>2, <2>3, ConcatAppend, StringsAssumption
  <2> DEFINE b == FlattenSeq(w) \o r
  <2> HIDE DEF b
  <2>5. b \in Seq(Chars) /\ FlattenSeq(v) = Append(b, NL)
    BY <2>4 DEF b
  <2>6. /\ Append(b, NL) \in Seq(Chars) /\ Len(Append(b, NL)) = Len(b) + 1
        /\ Append(b, NL)[Len(b) + 1] = NL
    BY <2>5, AppendProperties, StringsAssumption
  <2> QED BY <2>5, <2>6
<1> QED BY <1>1, <1>2

\* Another delimiter on each string makes no difference to the receiver.
LEMMA SameWithMore ==
  ASSUME NEW v \in Strings, AreDelimited(v)
  PROVE  Lines(FlattenSeq(PrepareData(v))) = Lines(FlattenSeq(v))
<1> DEFINE Same(w) == Unpacked(FlattenSeq(PrepareData(w))) = Unpacked(FlattenSeq(w))
           T == {w \in Strings : AreDelimited(w) => Same(w)}
<1>1. << >> \in T
  <2>1. << >> \in Strings
    BY EmptySeq DEF Strings
  <2>2. PrepareData(<< >>) = << >>
    BY EmptySeq DEF PrepareData
  <2> QED BY <2>1, <2>2
<1>2. ASSUME NEW w \in Strings, NEW s \in Seq(Chars), w \in T PROVE Append(w, s) \in T
  <2>1. Append(w, s) \in Strings /\ PrepareData(w) \in Strings /\ Append(s, NL) \in Seq(Chars)
    BY PrepareAppend, PrepareType
  <2> SUFFICES ASSUME AreDelimited(Append(w, s)) PROVE Same(Append(w, s))
    BY <2>1
  <2>2. PICK r \in Seq(Chars) : s = Append(r, NL)
    BY DelimitedAppend
  <2>3. Same(w)
    BY <1>2, DelimitedAppend
  <2> DEFINE a == FlattenSeq(PrepareData(w))
             b == FlattenSeq(w)
  <2>4. a \in Seq(Chars) /\ FlattenSeq(PrepareData(Append(w, s))) = a \o Append(s, NL)
    BY <2>1, PrepareAppend, FlattenAppend DEF Strings
  <2>5. b \in Seq(Chars) /\ FlattenSeq(Append(w, s)) = b \o s
    BY FlattenAppend DEF Strings
  <2>6. Unpacked(a) = Unpacked(b)
    BY <2>3
  <2> HIDE DEF a, b
  <2>7. Unpacked(a \o s) = Unpacked(b \o s)
    BY <2>4, <2>5, <2>6, SameContinued
  <2>8. a \o Append(s, NL) = Append(a \o s, NL) /\ a \o s \in Seq(Chars)
    BY <2>4, ConcatAppend, StringsAssumption
  <2>9. b \o s = Append(b \o r, NL) /\ b \o r \in Seq(Chars)
    BY <2>2, <2>5, ConcatAppend, StringsAssumption
  <2>10. Unpacked(b \o s) = Unpack(Unpacked(b \o r), NL) /\ Unpacked(b \o r) \in Unpacking
    BY <2>9, UnpackedAppend, StringsAssumption
  <2>11. Unpacked(a \o Append(s, NL)) = Unpack(Unpacked(b \o s), NL)
    BY <2>7, <2>8, UnpackedAppend, StringsAssumption
  <2>12. Unpacked(a \o Append(s, NL)) = Unpacked(b \o s)
    BY <2>10, <2>11, DelimiterTwice
  <2> QED BY <2>4, <2>5, <2>12
<1> HIDE DEF T
<1>3. v \in T
  BY <1>1, <1>2, SequenceInduction DEF Strings
<1>4. Same(v)
  BY <1>3 DEF T
<1>5. Lines(FlattenSeq(v)) = Unpacked(FlattenSeq(v)).lines
  BY BytesEnd, LinesUnpacked
<1>6. Lines(FlattenSeq(PrepareData(v))) = Unpacked(FlattenSeq(PrepareData(v))).lines
  BY PrepareType, PreparedIsDelimited, BytesEnd, LinesUnpacked
<1> QED BY <1>4, <1>5, <1>6

-----------------------------------------------------------------------------
\* What Receive has cut of the first n bytes: in the first case all pieces fit
\* so far, and the line is what there is of the next, which begins behind z; in
\* the second the buffer has been filled by the piece behind z.

AllFit(bytes, n) ==
  \A i \in DOMAIN bytes : \A k \in 1..n : IsPiece(bytes, i, k) => k - i < MaxLine

BeginsBehind(bytes, z, n) ==
  (z = 0 \/ bytes[z] = NL) /\ \A k \in z + 1..n : bytes[k] # NL

HasRoom(s, bytes, n) ==
  /\ AllFit(bytes, n)
  /\ \E z \in 0..n : /\ BeginsBehind(bytes, z, n) /\ n - z < MaxLine
                     /\ s.line = SubSeq(bytes, z + 1, n)

IsFull(s, bytes, n) ==
  /\ Len(s.line) = MaxLine
  /\ \E z \in Nat : z + MaxLine <= n /\ BeginsBehind(bytes, z, z + MaxLine)

CutInv(s, bytes, n) ==
  /\ AreLines(s.lines, bytes, PlacesTo(Kept(bytes), n))
  /\ HasRoom(s, bytes, n) \/ IsFull(s, bytes, n)

LEMMA KeptType ==
  ASSUME NEW bytes \in Seq(Chars)
  PROVE  /\ Len(bytes) \in Nat /\ DOMAIN bytes = 1..Len(bytes)
         /\ Kept(bytes) \in SUBSET (1..Len(bytes))
         /\ \A n \in Nat : PlacesTo(Kept(bytes), n) \in SUBSET (1..n)
<1>1. Len(bytes) \in Nat /\ DOMAIN bytes = 1..Len(bytes)
  BY LenProperties
<1>2. Kept(bytes) \in SUBSET (1..Len(bytes))
  BY <1>1 DEF Kept
<1> QED BY <1>1, <1>2 DEF PlacesTo

LEMMA OnePiece ==
  ASSUME NEW bytes, NEW i \in Nat \ {0}, NEW k \in Nat \ {0}, NEW j \in Nat,
         IsPiece(bytes, i, j), IsPiece(bytes, k, j)
  PROVE  i = k
<1>1. ASSUME i < k PROVE FALSE
  <2>1. k - 1 \in i..j - 1 /\ k # 1
    BY <1>1 DEF IsPiece
  <2> QED BY <2>1 DEF IsPiece
<1>2. ASSUME k < i PROVE FALSE
  <2>1. i - 1 \in k..j - 1 /\ i # 1
    BY <1>2 DEF IsPiece
  <2> QED BY <2>1 DEF IsPiece
<1> QED BY <1>1, <1>2

\* Behind a piece that fills the buffer nothing is kept.
LEMMA NothingBehind ==
  ASSUME NEW bytes \in Seq(Chars), NEW z \in Nat, BeginsBehind(bytes, z, z + MaxLine),
         NEW j \in Kept(bytes)
  PROVE  j <= z
<1> SUFFICES ASSUME z < j PROVE FALSE
  BY KeptType
<1> DEFINE T == {k \in Nat : z < k /\ k <= j /\ bytes[k] = NL}
<1>1. MaxLine \in Nat \ {0} /\ j \in 1..Len(bytes) /\ Len(bytes) \in Nat /\ DOMAIN bytes = 1..Len(bytes)
  BY KeptType, StringsAssumption
<1>2. j \in T
  BY <1>1 DEF Kept, IsPiece
<1>3. PICK k \in T : \A y \in T : ~(y < k)
  BY <1>2, LeastNumber
<1>4. ~(k <= z + MaxLine) /\ k \in Nat
  BY <1>1, <1>3 DEF BeginsBehind
<1>5. IsPiece(bytes, z + 1, k)
  <2>1. \A i \in z + 1..k - 1 : bytes[i] # NL
    <3>1. ASSUME NEW i \in z + 1..k - 1, bytes[i] = NL PROVE FALSE
      <4>1. i \in T /\ i < k
        BY <1>1, <1>3, <1>4, <3>1
      <4> QED BY <1>3, <4>1
    <3> QED BY <3>1
  <2>2. z + 1 = 1 \/ bytes[(z + 1) - 1] = NL
    BY DEF BeginsBehind
  <2> QED BY <1>1, <1>3, <1>4, <2>1, <2>2 DEF IsPiece
<1>6. z + 1 \in 1..Len(bytes) /\ k \in 1..Len(bytes) /\ k <= j
  BY <1>1, <1>3, <1>4
<1>7. k - (z + 1) < MaxLine
  BY <1>1, <1>5, <1>6 DEF Kept
<1> QED BY <1>1, <1>4, <1>7

\* The positions up to the next byte.
LEMMA NextPosition ==
  ASSUME NEW bytes \in Seq(Chars), NEW n \in Nat
  PROVE  PlacesTo(Kept(bytes), n + 1) = IF n + 1 \in Kept(bytes) THEN PlacesTo(Kept(bytes), n) \cup {n + 1}
                                    ELSE PlacesTo(Kept(bytes), n)
<1>1. \A j \in Kept(bytes) : j \in Nat
  BY KeptType
<1>2. \A j \in Nat : j <= n + 1 <=> j <= n \/ j = n + 1
  OBVIOUS
<1> QED BY <1>1, <1>2 DEF PlacesTo

LEMMA CutStart ==
  ASSUME NEW bytes \in Seq(Chars)
  PROVE  CutInv(Start, bytes, 0)
<1>1. PlacesTo(Kept(bytes), 0) = {}
  <2>1. \A j \in Kept(bytes) : ~(j <= 0)
    BY KeptType
  <2> QED BY <2>1 DEF PlacesTo
<1>2. AreLines(Start.lines, bytes, PlacesTo(Kept(bytes), 0))
  BY <1>1, FS_EmptySet, EmptySeq DEF Start, AreLines
<1>3. HasRoom(Start, bytes, 0)
  <2>1. AllFit(bytes, 0)
    BY DEF AllFit
  <2>2. BeginsBehind(bytes, 0, 0) /\ 0 - 0 < MaxLine
    BY StringsAssumption DEF BeginsBehind
  <2>3. Start.line = SubSeq(bytes, 0 + 1, 0)
    BY SubSeqEmpty DEF Start
  <2> QED BY <2>1, <2>2, <2>3 DEF HasRoom
<1> QED BY <1>2, <1>3 DEF CutInv

LEMMA CutWhenFull ==
  ASSUME NEW bytes \in Seq(Chars), NEW n \in 0..Len(bytes) - 1, NEW s \in Unpacking,
         AreLines(s.lines, bytes, PlacesTo(Kept(bytes), n)), IsFull(s, bytes, n)
  PROVE  CutInv(Unpack(s, bytes[n + 1]), bytes, n + 1)
<1>1. PICK z \in Nat : z + MaxLine <= n /\ BeginsBehind(bytes, z, z + MaxLine)
  BY DEF IsFull
<1>2. MaxLine \in Nat \ {0} /\ n \in Nat
  BY StringsAssumption, LenProperties
<1>3. n + 1 \notin Kept(bytes)
  <2>1. ~(n + 1 <= z)
    BY <1>1, <1>2
  <2> QED BY <1>1, <2>1, NothingBehind
<1>4. PlacesTo(Kept(bytes), n + 1) = PlacesTo(Kept(bytes), n)
  BY <1>2, <1>3, NextPosition
<1>5. Unpack(s, bytes[n + 1]) = s
  BY DEF Unpack, IsFull
<1>6. IsFull(s, bytes, n + 1)
  <2>1. z + MaxLine <= n + 1
    BY <1>1, <1>2
  <2> QED BY <1>1, <2>1 DEF IsFull
<1> QED BY <1>4, <1>5, <1>6 DEF CutInv

LEMMA CutWithRoom ==
  ASSUME NEW bytes \in Seq(Chars), NEW n \in 0..Len(bytes) - 1, NEW s \in Unpacking,
         AreLines(s.lines, bytes, PlacesTo(Kept(bytes), n)), HasRoom(s, bytes, n)
  PROVE  CutInv(Unpack(s, bytes[n + 1]), bytes, n + 1)
<1> DEFINE N == Len(bytes)
           K == PlacesTo(Kept(bytes), n)
           c == bytes[n + 1]
<1>1. /\ MaxLine \in Nat \ {0} /\ n \in Nat /\ N \in Nat /\ n + 1 <= N /\ DOMAIN bytes = 1..N
      /\ n + 1 \in 1..N
  BY StringsAssumption, LenProperties
<1>2. PICK z \in 0..n : /\ BeginsBehind(bytes, z, n) /\ n - z < MaxLine
                        /\ s.line = SubSeq(bytes, z + 1, n)
  BY DEF HasRoom
<1>3. /\ s.line \in Seq(Chars) /\ Len(s.line) = n - z
      /\ Append(s.line, c) = SubSeq(bytes, z + 1, n + 1)
  <2>1. z + 1 \in Nat \ {0} /\ z + 1 <= n + 1 /\ n + 1 - (z + 1) = n - z
    BY <1>1, <1>2
  <2> QED BY <1>1, <1>2, <2>1, SubSeqGrows
<1>4. AllFit(bytes, n)
  BY DEF HasRoom
<1> HIDE DEF N
<1>5. Len(s.line) # MaxLine
  BY <1>1, <1>2, <1>3
<1>6. CASE c # NL
  <2>1. Unpack(s, c) = [s EXCEPT !.line = SubSeq(bytes, z + 1, n + 1)]
    BY <1>3, <1>5, <1>6 DEF Unpack
  <2> DEFINE t == Unpack(s, c)
  <2>2. t.line = SubSeq(bytes, z + 1, n + 1) /\ t.lines = s.lines /\ Len(t.line) = (n - z) + 1
    <3>1. Len(Append(s.line, c)) = Len(s.line) + 1
      BY <1>3
    <3> QED BY <1>3, <2>1, <3>1 DEF Unpacking
  <2> HIDE DEF t
  <2>3. \A i : ~IsPiece(bytes, i, n + 1)
    BY <1>6 DEF IsPiece
  <2>4. n + 1 \notin Kept(bytes)
    BY <2>3 DEF Kept
  <2>5. AreLines(t.lines, bytes, PlacesTo(Kept(bytes), n + 1))
    BY <1>1, <2>2, <2>4, NextPosition
  <2>6. BeginsBehind(bytes, z, n + 1)
    <3>1. \A k \in z + 1..n + 1 : k \in z + 1..n \/ k = n + 1
      BY <1>1, <1>2
    <3> QED BY <1>2, <1>6, <3>1 DEF BeginsBehind
  <2>7. AllFit(bytes, n + 1)
    <3>1. \A k \in 1..n + 1 : k \in 1..n \/ k = n + 1
      BY <1>1
    <3> QED BY <1>4, <2>3, <3>1 DEF AllFit
  <2>8. CASE (n - z) + 1 < MaxLine
    <3>1. z \in 0..n + 1 /\ (n + 1) - z < MaxLine
      BY <1>1, <1>2, <2>8
    <3>2. HasRoom(t, bytes, n + 1)
      BY <2>2, <2>6, <2>7, <3>1 DEF HasRoom
    <3> QED BY <2>5, <3>2 DEF CutInv, t
  <2>9. CASE ~((n - z) + 1 < MaxLine)
    <3>1. (n - z) + 1 = MaxLine /\ z + MaxLine = n + 1 /\ z \in Nat /\ z + MaxLine <= n + 1
      BY <1>1, <1>2, <2>9
    <3>2. IsFull(t, bytes, n + 1)
      BY <2>2, <2>6, <3>1 DEF IsFull
    <3> QED BY <2>5, <3>2 DEF CutInv, t
  <2> QED BY <2>8, <2>9
<1>7. CASE c = NL
  <2>0. BeginsBehind(bytes, n + 1, n + 1)
    <3>1. \A k \in (n + 1) + 1..n + 1 : FALSE
      BY <1>1
    <3> QED BY <1>7, <3>1 DEF BeginsBehind
  <2> DEFINE t == Unpack(s, c)
  <2>1. t = EndLine(s)
    BY <1>5, <1>7 DEF Unpack
  <2>2. t.line = << >> /\ t.lines = IF s.line = << >> THEN s.lines ELSE Append(s.lines, s.line)
    BY <2>1 DEF EndLine
  <2> HIDE DEF t
  <2>3. t.line = SubSeq(bytes, (n + 1) + 1, n + 1)
    <3>1. (n + 1) + 1 \in Int /\ n + 1 \in Int /\ n + 1 < (n + 1) + 1
      BY <1>1
    <3> QED BY <2>2, <3>1, SubSeqEmpty
  <2>4. AllFit(bytes, n + 1) => HasRoom(t, bytes, n + 1)
    <3>1. n + 1 \in 0..n + 1 /\ (n + 1) - (n + 1) < MaxLine
      BY <1>1
    <3> QED BY <2>0, <2>3, <3>1 DEF HasRoom
  <2>a. \A k \in 1..n + 1 : k \in 1..n \/ k = n + 1
    BY <1>1
  <2>5. CASE z = n
    <3>1. s.line = << >>
      BY <1>1, <1>2, <1>3, <2>5, EmptySeq
    <3>2. ASSUME NEW i \in DOMAIN bytes, IsPiece(bytes, i, n + 1) PROVE FALSE
      <4>1. i <= n /\ n \in i..(n + 1) - 1 /\ n # 0
        BY <1>1, <3>2 DEF IsPiece
      <4>2. bytes[n] # NL
        BY <3>2, <4>1 DEF IsPiece
      <4> QED BY <1>2, <2>5, <4>1, <4>2 DEF BeginsBehind
    <3>3. n + 1 \notin Kept(bytes)
      BY <3>2 DEF Kept
    <3>4. AllFit(bytes, n + 1)
      BY <1>4, <2>a, <3>2 DEF AllFit
    <3>5. AreLines(t.lines, bytes, PlacesTo(Kept(bytes), n + 1))
      BY <1>1, <2>2, <3>1, <3>3, NextPosition
    <3> QED BY <2>4, <3>4, <3>5 DEF CutInv, t
  <2>6. CASE z # n
    <3>1. s.line # << >> /\ z < n
      <4>1. z < n /\ Len(s.line) # 0
        BY <1>1, <1>2, <1>3, <2>6
      <4> QED BY <4>1
    <3>2. IsPiece(bytes, z + 1, n + 1)
      <4>1. z + 1 < n + 1 /\ (n + 1) - 1 = n /\ (z + 1) - 1 = z /\ (z + 1 = 1 <=> z = 0)
        BY <1>1, <1>2, <3>1
      <4> QED BY <1>2, <1>7, <4>1 DEF IsPiece, BeginsBehind
    <3>3. z + 1 \in DOMAIN bytes /\ z + 1 \in Nat \ {0} /\ DOMAIN bytes \subseteq Nat \ {0}
      BY <1>1, <1>2, <3>1
    <3>4. \A i \in DOMAIN bytes : IsPiece(bytes, i, n + 1) => i = z + 1
      BY <1>1, <3>2, <3>3, OnePiece
    <3>5. AllFit(bytes, n + 1)
      <4>1. (n + 1) - (z + 1) < MaxLine
        BY <1>1, <1>2
      <4> QED BY <1>4, <2>a, <3>4, <4>1 DEF AllFit
    <3>6. n + 1 \in Kept(bytes)
      <4>1. \A k \in DOMAIN bytes : k <= n + 1 => k \in 1..n + 1
        BY <1>1
      <4> QED BY <1>1, <3>2, <3>3, <3>5, <4>1 DEF Kept, AllFit
    <3>7. PlacesTo(Kept(bytes), n + 1) = K \cup {n + 1}
      BY <1>1, <3>6, NextPosition
    <3>8. K \in SUBSET (1..n)
      BY <1>1, KeptType
    <3>9. t.lines = Append(s.lines, s.line) /\ s.lines \in Seq(Seq(Chars))
      BY <2>2, <3>1 DEF Unpacking
    <3> HIDE DEF K
    <3>10. /\ Cardinality(K \cup {n + 1}) = Cardinality(K) + 1 /\ Cardinality(K) \in Nat
           /\ PlacesTo(K \cup {n + 1}, n + 1) = K \cup {n + 1}
           /\ \A i \in 1..n : PlacesTo(K \cup {n + 1}, i) = PlacesTo(K, i)
      BY <1>1, <3>8, CountGrows, PositionsFinite DEF PlacesTo
    <3>11. /\ Len(s.lines) = Cardinality(K)
           /\ \A j \in K : \A i \in DOMAIN bytes :
                IsPiece(bytes, i, j) => s.lines[Cardinality(PlacesTo(K, j))] = SubSeq(bytes, i, j - 1)
      BY DEF AreLines, K
    <3>12. /\ Len(t.lines) = Len(s.lines) + 1 /\ t.lines[Len(s.lines) + 1] = s.line
           /\ \A i \in 1..Len(s.lines) : t.lines[i] = s.lines[i]
      BY <1>3, <3>9, AppendProperties
    <3>13. ASSUME NEW j \in K \cup {n + 1}, NEW i \in DOMAIN bytes, IsPiece(bytes, i, j)
           PROVE  t.lines[Cardinality(PlacesTo(K \cup {n + 1}, j))] = SubSeq(bytes, i, j - 1)
      <4>1. CASE j = n + 1
        <5>1. i = z + 1 /\ j - 1 = n
          BY <1>1, <3>4, <3>13, <4>1
        <5>2. Cardinality(PlacesTo(K \cup {n + 1}, j)) = Len(s.lines) + 1
          BY <3>10, <3>11, <4>1
        <5> QED BY <1>2, <3>12, <5>1, <5>2
      <4>2. CASE j \in K
        <5>1. j \in 1..n /\ PlacesTo(K \cup {n + 1}, j) = PlacesTo(K, j)
          BY <3>8, <3>10, <4>2
        <5>2. Cardinality(PlacesTo(K, j)) \in 1..Cardinality(K)
          <6>1. PlacesTo(K, j) \subseteq K /\ j \in PlacesTo(K, j)
            BY <1>1, <4>2, <5>1 DEF PlacesTo
          <6>2. IsFiniteSet(K)
            BY <1>1, <3>8, PositionsFinite
          <6>3. Cardinality(PlacesTo(K, j)) <= Cardinality(K) /\ IsFiniteSet(PlacesTo(K, j))
            BY <6>1, <6>2, FS_Subset
          <6>4. Cardinality(PlacesTo(K, j)) \in Nat /\ Cardinality(PlacesTo(K, j)) # 0
            BY <6>1, <6>3, FS_CardinalityType, FS_EmptySet
          <6> QED BY <3>10, <6>3, <6>4
        <5> QED BY <3>11, <3>12, <3>13, <4>2, <5>1, <5>2
      <4> QED BY <3>13, <4>1, <4>2
    <3>14. AreLines(t.lines, bytes, K \cup {n + 1})
      BY <3>10, <3>11, <3>12, <3>13 DEF AreLines
    <3> QED BY <2>4, <3>5, <3>7, <3>14 DEF CutInv, t
  <2> QED BY <2>5, <2>6
<1> QED BY <1>6, <1>7

\* Of bytes that end with a delimiter, Receive returns what is kept of them.
LEMMA LinesAreKept ==
  ASSUME NEW bytes \in Seq(Chars), bytes # << >> => bytes[Len(bytes)] = NL
  PROVE  AreLines(Lines(bytes), bytes, Kept(bytes))
<1> DEFINE n == Len(bytes)
<1>1. n \in Nat /\ Kept(bytes) \in SUBSET (1..n)
  BY KeptType
<1>2. PICK f : IsAfter(f, bytes)
  BY AfterExists
<1>3. f \in [0..n -> Unpacking] /\ f[0] = Start /\ \A i \in 1..n : f[i] = Unpack(f[i - 1], bytes[i])
  BY <1>2 DEF IsAfter
<1> DEFINE T == {m \in Nat : m <= n => CutInv(f[m], bytes, m)}
<1>4. 0 \in T
  BY <1>3, CutStart
<1>5. ASSUME NEW m \in Nat, m \in T PROVE m + 1 \in T
  <2> SUFFICES ASSUME m + 1 <= n PROVE CutInv(f[m + 1], bytes, m + 1)
    OBVIOUS
  <2>1. m \in 0..n - 1 /\ m \in 0..n /\ m + 1 \in 1..n /\ (m + 1) - 1 = m /\ m <= n
    BY <1>1
  <2>2. CutInv(f[m], bytes, m)
    BY <1>5, <2>1
  <2>3. f[m] \in Unpacking /\ f[m + 1] = Unpack(f[m], bytes[m + 1])
    <3>1. f[m + 1] = Unpack(f[(m + 1) - 1], bytes[m + 1])
      BY <1>3, <2>1
    <3> QED BY <1>3, <2>1, <3>1
  <2>4. CutInv(Unpack(f[m], bytes[m + 1]), bytes, m + 1)
    BY <2>1, <2>2, <2>3, CutWithRoom, CutWhenFull DEF CutInv
  <2> QED BY <2>3, <2>4
<1> HIDE DEF T
<1>6. n \in T
  BY <1>1, <1>4, <1>5, NumberInduction
<1>7. CutInv(f[n], bytes, n)
  BY <1>1, <1>6 DEF T
<1>8. PlacesTo(Kept(bytes), n) = Kept(bytes)
  <2>1. \A j \in Kept(bytes) : j <= n
    BY <1>1
  <2> QED BY <2>1 DEF PlacesTo
<1>9. Lines(bytes) = f[n].lines
  BY <1>2, UnpackedIs, LinesUnpacked
<1> QED BY <1>7, <1>8, <1>9 DEF CutInv

-----------------------------------------------------------------------------
\* The transfers to one receiver: s is what was meant for it, r what it has
\* received, m what awaits it and p the buffers of the sends under way.

Carries(bytes, v) == bytes \in Seq(Chars) /\ Lines(bytes) = Lines(FlattenSeq(PrepareData(v)))

InTransit(s, r, m, p, b) ==
  /\ Len(s) = Len(r) + Len(m) + Len(p)
  /\ \A i \in 1..Len(r) : r[i] = Lines(FlattenSeq(PrepareData(s[i])))
  /\ \A i \in 1..Len(m) : Carries(m[i], s[Len(r) + i])
  /\ \A i \in 1..Len(p) : Carries(b[p[i]], s[Len(r) + Len(m) + i])

LEMMA SendTransit ==
  ASSUME NEW s \in Seq(Strings), NEW r \in Seq(Strings), NEW m \in Seq(Seq(Chars)), NEW K, NEW p \in Seq(K),
         NEW b, InTransit(s, r, m, p, b),
         NEW v \in Strings, NEW k \in K, NEW s2, NEW p2, NEW b2,
         Extends(s, v, s2), Extends(p, k, p2), Carries(b2[k], v),
         \A i \in 1..Len(p) : b2[p[i]] = b[p[i]]
  PROVE  InTransit(s2, r, m, p2, b2)
<1>1. /\ Len(s2) = Len(s) + 1 /\ Len(s) \in Nat /\ s2[Len(s) + 1] = v
      /\ \A i \in 1..Len(s) : s2[i] = s[i]
  BY ONLY s \in Seq(Strings), v \in Strings, Extends(s, v, s2), Extended
<1>2. /\ Len(p2) = Len(p) + 1 /\ Len(p) \in Nat /\ p2[Len(p) + 1] = k
      /\ \A i \in 1..Len(p) : p2[i] = p[i]
  BY ONLY p \in Seq(K), k \in K, Extends(p, k, p2), Extended
<1>3. Len(r) \in Nat /\ Len(m) \in Nat /\ Len(s) = Len(r) + Len(m) + Len(p)
  BY LenProperties DEF InTransit
<1> HIDE DEF Carries
<1>4. Len(s2) = Len(r) + Len(m) + Len(p2)
  BY <1>1, <1>2, <1>3
<1>5. \A i \in 1..Len(r) : r[i] = Lines(FlattenSeq(PrepareData(s2[i])))
  <2>1. \A i \in 1..Len(r) : i \in 1..Len(s)
    BY <1>1, <1>2, <1>3
  <2> QED BY <1>1, <2>1 DEF InTransit
<1>6. \A i \in 1..Len(m) : Carries(m[i], s2[Len(r) + i])
  <2>1. \A i \in 1..Len(m) : Len(r) + i \in 1..Len(s)
    BY <1>1, <1>2, <1>3
  <2> QED BY <1>1, <2>1 DEF InTransit
<1>7. ASSUME NEW i \in 1..Len(p2) PROVE Carries(b2[p2[i]], s2[Len(r) + Len(m) + i])
  <2>1. CASE i \in 1..Len(p)
    <3>1. Len(r) + Len(m) + i \in 1..Len(s)
      BY <1>1, <1>2, <1>3, <2>1
    <3> QED BY <1>1, <1>2, <2>1, <3>1 DEF InTransit
  <2>2. CASE i = Len(p) + 1
    <3>1. Len(r) + Len(m) + i = Len(s) + 1
      BY <1>2, <1>3, <2>2
    <3> QED BY <1>1, <1>2, <2>2, <3>1
  <2> QED BY <1>2, <1>7, <2>1, <2>2
<1> QED BY <1>4, <1>5, <1>6, <1>7 DEF InTransit

LEMMA CompleteTransit ==
  ASSUME NEW s \in Seq(Strings), NEW r \in Seq(Strings), NEW m \in Seq(Seq(Chars)), NEW p \in Seq(Nat),
         NEW b, InTransit(s, r, m, p, b),
         NEW m2, NEW p2, RestOf(p, p2), Extends(m, b[p[1]], m2)
  PROVE  /\ b[p[1]] \in Seq(Chars)
         /\ InTransit(s, r, m2, p2, b)
<1>1. /\ Len(p2) = Len(p) - 1 /\ Len(p) \in Nat \ {0} /\ \A i \in 1..Len(p) - 1 : p2[i] = p[i + 1]
  BY ONLY p \in Seq(Nat), RestOf(p, p2), Shortened
<1>2. Carries(b[p[1]], s[Len(r) + Len(m) + 1])
  BY <1>1 DEF InTransit
<1>3. b[p[1]] \in Seq(Chars)
  BY <1>2 DEF Carries
<1>4. /\ Len(m2) = Len(m) + 1 /\ Len(m) \in Nat /\ m2[Len(m) + 1] = b[p[1]]
      /\ \A i \in 1..Len(m) : m2[i] = m[i]
  BY <1>3, Extended
<1>5. Len(r) \in Nat /\ Len(s) = Len(r) + Len(m) + Len(p)
  BY LenProperties DEF InTransit
<1> HIDE DEF Carries
<1>6. Len(s) = Len(r) + Len(m2) + Len(p2)
  BY <1>1, <1>4, <1>5
<1>7. ASSUME NEW i \in 1..Len(m2) PROVE Carries(m2[i], s[Len(r) + i])
  <2>1. CASE i \in 1..Len(m)
    BY <1>4, <2>1 DEF InTransit
  <2>2. CASE i = Len(m) + 1
    <3>1. Len(r) + Len(m) + 1 = Len(r) + i
      BY <1>4, <1>5, <2>2
    <3> QED BY <1>2, <1>4, <2>2, <3>1
  <2> QED BY <1>4, <1>7, <2>1, <2>2
<1>8. ASSUME NEW i \in 1..Len(p2) PROVE Carries(b[p2[i]], s[Len(r) + Len(m2) + i])
  <2>1. i + 1 \in 1..Len(p) /\ i \in 1..Len(p) - 1 /\ Len(r) + Len(m2) + i = Len(r) + Len(m) + (i + 1)
    BY <1>1, <1>4, <1>5
  <2>2. Carries(b[p[i + 1]], s[Len(r) + Len(m) + (i + 1)])
    BY <2>1 DEF InTransit
  <2> QED BY <1>1, <2>1, <2>2
<1> QED BY <1>3, <1>6, <1>7, <1>8 DEF InTransit

LEMMA ReceiveTransit ==
  ASSUME NEW s \in Seq(Strings), NEW r \in Seq(Strings), NEW m \in Seq(Seq(Chars)), NEW K, NEW p \in Seq(K),
         NEW b, InTransit(s, r, m, p, b),
         NEW r2, NEW m2, RestOf(m, m2), Extends(r, Lines(m[1]), r2)
  PROVE  /\ Lines(m[1]) \in Strings
         /\ InTransit(s, r2, m2, p, b)
<1>1. /\ Len(m2) = Len(m) - 1 /\ Len(m) \in Nat \ {0} /\ \A i \in 1..Len(m) - 1 : m2[i] = m[i + 1]
  BY ONLY m \in Seq(Seq(Chars)), RestOf(m, m2), Shortened
<1>2. Len(r) \in Nat /\ Len(p) \in Nat /\ Len(s) \in Nat /\ Len(s) = Len(r) + Len(m) + Len(p)
  BY LenProperties DEF InTransit
<1>3. Carries(m[1], s[Len(r) + 1])
  BY <1>1 DEF InTransit
<1>4. Lines(m[1]) = Lines(FlattenSeq(PrepareData(s[Len(r) + 1])))
  BY <1>3 DEF Carries
<1>5. s[Len(r) + 1] \in Strings
  <2>1. Len(r) + 1 \in 1..Len(s)
    BY <1>1, <1>2
  <2> QED BY <2>1, ElementOfSeq
<1>6. Lines(m[1]) \in Strings
  <2> DEFINE v == s[Len(r) + 1]
             bytes == FlattenSeq(PrepareData(v))
  <2>1. bytes \in Seq(Chars) /\ Lines(bytes) = Unpacked(bytes).lines
    <3>1. PrepareData(v) \in Strings /\ AreDelimited(PrepareData(v))
      BY <1>5, PrepareType, PreparedIsDelimited
    <3> QED BY <3>1, BytesEnd, LinesUnpacked
  <2> HIDE DEF bytes
  <2>2. Unpacked(bytes) \in Unpacking
    BY <2>1, UnpackedAppend, StringsAssumption
  <2>3. Lines(bytes) \in Strings
    BY <2>1, <2>2 DEF Unpacking, Strings
  <2> QED BY <1>4, <2>3 DEF bytes
<1> DEFINE l == Lines(m[1])
<1> HIDE DEF l
<1>7. /\ Len(r2) = Len(r) + 1 /\ r2[Len(r) + 1] = l
      /\ \A i \in 1..Len(r) : r2[i] = r[i]
  BY <1>6, Extended DEF l
<1> HIDE DEF Carries
<1>8. Len(s) = Len(r2) + Len(m2) + Len(p)
  BY <1>1, <1>2, <1>7
<1>9. ASSUME NEW i \in 1..Len(r2) PROVE r2[i] = Lines(FlattenSeq(PrepareData(s[i])))
  <2>1. CASE i \in 1..Len(r)
    BY <1>7, <2>1 DEF InTransit
  <2>2. CASE i = Len(r) + 1
    BY <1>4, <1>7, <2>2 DEF l
  <2> QED BY <1>2, <1>7, <1>9, <2>1, <2>2
<1>10. ASSUME NEW i \in 1..Len(m2) PROVE Carries(m2[i], s[Len(r2) + i])
  <2>1. i + 1 \in 1..Len(m) /\ i \in 1..Len(m) - 1 /\ Len(r2) + i = Len(r) + (i + 1)
    BY <1>1, <1>2, <1>7
  <2>2. Carries(m[i + 1], s[Len(r) + (i + 1)])
    BY <2>1 DEF InTransit
  <2> QED BY <1>1, <2>1, <2>2
<1>11. ASSUME NEW i \in 1..Len(p) PROVE Carries(b[p[i]], s[Len(r2) + Len(m2) + i])
  <2>1. Len(r2) + Len(m2) + i = Len(r) + Len(m) + i
    BY <1>1, <1>2, <1>7
  <2> QED BY <2>1 DEF InTransit
<1> QED BY <1>6, <1>8, <1>9, <1>10, <1>11 DEF InTransit

-----------------------------------------------------------------------------
\* Both together.

\* The invariant: the application's vector is as it was filled, or a receiver
\* would make of it as it is what was meant; and what is on the way to each
\* receiver makes, with what it has received, everything sent to it in order.
VectorInv ==
  /\ strVec \in Strings /\ meant \in Strings
  /\ strVec = meant \/ (AreDelimited(strVec) /\ Lines(FlattenSeq(strVec)) = Lines(FlattenSeq(PrepareData(meant))))

TransferTypes ==
  /\ sent \in [Dest -> Seq(Strings)] /\ received \in [Dest -> Seq(Strings)]
  /\ mailbox \in [Dest -> Seq(Seq(Chars))] /\ pending \in [Dest -> Seq(Nat)]

TransferInv ==
  \A d \in Dest : InTransit(sent[d], received[d], mailbox[d], pending[d], buffers)

StringsInv == BuffersInv /\ VectorInv /\ TransferTypes /\ TransferInv

LEMMA InitTransfers == StringsInit => VectorInv /\ TransferTypes /\ TransferInv
<1> SUFFICES ASSUME StringsInit PROVE VectorInv /\ TransferTypes /\ TransferInv
  OBVIOUS
<1>1. VectorInv
  BY StringsAssumption DEF StringsInit, VectorInv, Strings
<1>2. TransferTypes
  BY EmptySeq DEF StringsInit, TransferTypes
<1>3. TransferInv
  <2>1. Len(<< >>) = 0 /\ 1..0 = {}
    BY EmptySeq
  <2> QED BY <2>1 DEF StringsInit, TransferInv, InTransit
<1> QED BY <1>1, <1>2, <1>3

\* What Isend packs is what was meant, with a delimiter more for each earlier send.
LEMMA IsendVector ==
  ASSUME VectorInv, strVec' = PrepareData(strVec), meant' = meant
  PROVE  VectorInv' /\ Carries(PackData(strVec'), meant)
<1>1. strVec' \in Strings /\ AreDelimited(strVec')
  BY PrepareType, PreparedIsDelimited DEF VectorInv
<1>2. Lines(FlattenSeq(strVec')) = Lines(FlattenSeq(PrepareData(meant)))
  <2>1. CASE strVec = meant
    BY <2>1
  <2>2. CASE AreDelimited(strVec) /\ Lines(FlattenSeq(strVec)) = Lines(FlattenSeq(PrepareData(meant)))
    BY <2>2, SameWithMore DEF VectorInv
  <2> QED BY <2>1, <2>2 DEF VectorInv
<1>3. FlattenSeq(strVec') \in Seq(Chars)
  BY <1>1, BytesEnd
<1> QED BY <1>1, <1>2, <1>3 DEF VectorInv, Carries, PackData

LEMMA SameTransit ==
  ASSUME NEW s, NEW r, NEW m, NEW p, NEW b, InTransit(s, r, m, p, b),
         NEW b2, \A i \in 1..Len(p) : b2[p[i]] = b[p[i]]
  PROVE  InTransit(s, r, m, p, b2)
BY DEF InTransit

LEMMA IsendTransfers ==
  ASSUME StringsInv, NEW e \in Dest, Isend(e)
  PROVE  (VectorInv /\ TransferTypes /\ TransferInv)'
<1>1. /\ strVec' = PrepareData(strVec) /\ meant' = meant
      /\ buffers' = [buffers EXCEPT ![sendCount] = PackData(strVec')]
      /\ pending' = [pending EXCEPT ![e] = Append(@, sendCount)]
      /\ sent' = [sent EXCEPT ![e] = Append(@, meant)]
      /\ mailbox' = mailbox /\ received' = received /\ sendCount < BufferCount
  BY DEF Isend, SendAs
<1>2. VectorInv' /\ Carries(PackData(strVec'), meant) /\ meant \in Strings
  BY <1>1, IsendVector DEF StringsInv, VectorInv
<1>3. sendCount \in Nat /\ sendCount \in Index
  BY <1>1, BufferCountType DEF StringsInv, BuffersInv, Index
<1>4. TransferTypes'
  <2>1. pending' \in [Dest -> Seq(Nat)]
    BY <1>1, <1>3 DEF StringsInv, TransferTypes
  <2>2. sent' \in [Dest -> Seq(Strings)]
    <3>1. Append(sent[e], meant) \in Seq(Strings)
      BY <1>2, AppendProperties DEF StringsInv, TransferTypes
    <3> DEFINE q == Append(sent[e], meant)
    <3> HIDE DEF q
    <3>2. sent' = [sent EXCEPT ![e] = q] /\ q \in Seq(Strings)
      BY <1>1, <3>1 DEF q
    <3> QED BY <3>2 DEF StringsInv, TransferTypes
  <2> QED BY <1>1, <2>1, <2>2 DEF StringsInv, TransferTypes
<1>5. ASSUME NEW d \in Dest
      PROVE  InTransit(sent'[d], received'[d], mailbox'[d], pending'[d], buffers')
  <2>1. \A i \in 1..Len(pending[d]) : buffers'[pending[d][i]] = buffers[pending[d][i]]
    <3>1. ASSUME NEW i \in 1..Len(pending[d]) PROVE pending[d][i] \in Index /\ pending[d][i] # sendCount
      <4>1. pending[d][i] \in Nat /\ pending[d][i] < sendCount
        BY DEF StringsInv, BuffersInv
      <4> QED BY <1>1, <1>3, <4>1, BufferCountType DEF Index
    <3> QED BY <1>1, <3>1 DEF StringsInv, BuffersInv
  <2>2. InTransit(sent[d], received[d], mailbox[d], pending[d], buffers)
    BY DEF StringsInv, TransferInv
  <2>3. CASE d = e
    <3>1. buffers'[sendCount] = PackData(strVec')
      BY <1>1, <1>3 DEF StringsInv, BuffersInv
    <3>2. /\ sent[d] \in Seq(Strings) /\ received[d] \in Seq(Strings)
          /\ mailbox[d] \in Seq(Seq(Chars)) /\ pending[d] \in Seq(Nat)
      BY DEF StringsInv, TransferTypes
    <3>3. Extends(sent[d], meant, sent'[d])
      BY <1>1, <2>3 DEF StringsInv, TransferTypes, Extends
    <3>4. Extends(pending[d], sendCount, pending'[d])
      BY <1>1, <2>3 DEF StringsInv, TransferTypes, Extends
    <3>5. Carries(buffers'[sendCount], meant)
      BY <1>2, <3>1
    <3>6. InTransit(sent'[d], received[d], mailbox[d], pending'[d], buffers')
      BY ONLY <1>2, <1>3, <2>1, <2>2, <3>2, <3>3, <3>4, <3>5, SendTransit
    <3> QED BY <1>1, <3>6
  <2>4. CASE d # e
    <3>1. sent'[d] = sent[d] /\ pending'[d] = pending[d] /\ mailbox'[d] = mailbox[d] /\ received'[d] = received[d]
      BY <1>1, <2>4 DEF StringsInv, TransferTypes
    <3> QED BY <2>1, <2>2, <3>1, SameTransit
  <2> QED BY <2>3, <2>4
<1> QED BY <1>2, <1>4, <1>5 DEF TransferInv

LEMMA CompleteTransfers ==
  ASSUME StringsInv, NEW e \in Dest, Complete(e)
  PROVE  (VectorInv /\ TransferTypes /\ TransferInv)'
<1>1. /\ mailbox' = [mailbox EXCEPT ![e] = Append(@, buffers[Head(pending[e])])]
      /\ pending' = [pending EXCEPT ![e] = Tail(@)] /\ pending[e] # << >>
      /\ UNCHANGED <<strVec, meant, buffers, sent, received>>
  BY DEF Complete
<1>2. VectorInv'
  BY <1>1 DEF StringsInv, VectorInv, AreDelimited
<1>3. /\ sent[e] \in Seq(Strings) /\ received[e] \in Seq(Strings)
      /\ mailbox[e] \in Seq(Seq(Chars)) /\ pending[e] \in Seq(Nat)
      /\ InTransit(sent[e], received[e], mailbox[e], pending[e], buffers)
  BY DEF StringsInv, TransferTypes, TransferInv
<1>4. RestOf(pending[e], pending'[e])
  BY <1>1 DEF StringsInv, TransferTypes, RestOf
<1>5. Head(pending[e]) = pending[e][1] /\ pending'[e] \in Seq(Nat)
  BY ONLY <1>3, <1>4, Shortened
<1>6. Extends(mailbox[e], buffers[pending[e][1]], mailbox'[e])
  BY <1>1, <1>5 DEF StringsInv, TransferTypes, Extends
<1>7. /\ buffers[pending[e][1]] \in Seq(Chars)
      /\ InTransit(sent[e], received[e], mailbox'[e], pending'[e], buffers)
  BY ONLY <1>3, <1>4, <1>6, CompleteTransit
<1>8. mailbox'[e] \in Seq(Seq(Chars))
  BY ONLY <1>3, <1>6, <1>7, Extended
<1>9. TransferTypes'
  <2> DEFINE m == mailbox'[e]
             p == pending'[e]
  <2>1. mailbox' = [mailbox EXCEPT ![e] = m] /\ pending' = [pending EXCEPT ![e] = p]
    BY <1>1 DEF StringsInv, TransferTypes
  <2>2. m \in Seq(Seq(Chars)) /\ p \in Seq(Nat)
    BY <1>5, <1>8
  <2> HIDE DEF m, p
  <2> QED BY <1>1, <2>1, <2>2 DEF StringsInv, TransferTypes
<1>10. ASSUME NEW d \in Dest
       PROVE  InTransit(sent'[d], received'[d], mailbox'[d], pending'[d], buffers')
  <2>1. CASE d = e
    BY <1>1, <1>7, <2>1
  <2>2. CASE d # e
    <3>1. sent' = sent /\ pending'[d] = pending[d] /\ mailbox'[d] = mailbox[d] /\ received' = received /\ buffers' = buffers
      BY <1>1, <2>2 DEF StringsInv, TransferTypes
    <3> QED BY <3>1 DEF StringsInv, TransferInv
  <2> QED BY <2>1, <2>2
<1> QED BY <1>2, <1>9, <1>10 DEF TransferInv

LEMMA ReceiveTransfers ==
  ASSUME StringsInv, NEW e \in Dest, Receive(e)
  PROVE  (VectorInv /\ TransferTypes /\ TransferInv)'
<1>1. /\ received' = [received EXCEPT ![e] = Append(@, Lines(Head(mailbox[e])))]
      /\ mailbox' = [mailbox EXCEPT ![e] = Tail(@)] /\ mailbox[e] # << >>
      /\ UNCHANGED <<strVec, meant, buffers, sent, pending>>
  BY DEF Receive
<1>2. VectorInv'
  BY <1>1 DEF StringsInv, VectorInv, AreDelimited
<1>3. /\ sent[e] \in Seq(Strings) /\ received[e] \in Seq(Strings)
      /\ mailbox[e] \in Seq(Seq(Chars)) /\ pending[e] \in Seq(Nat)
      /\ InTransit(sent[e], received[e], mailbox[e], pending[e], buffers)
  BY DEF StringsInv, TransferTypes, TransferInv
<1>4. RestOf(mailbox[e], mailbox'[e])
  BY <1>1 DEF StringsInv, TransferTypes, RestOf
<1>5. Head(mailbox[e]) = mailbox[e][1] /\ mailbox'[e] \in Seq(Seq(Chars))
  BY ONLY <1>3, <1>4, Shortened
<1>6. Extends(received[e], Lines(mailbox[e][1]), received'[e])
  BY <1>1, <1>5 DEF StringsInv, TransferTypes, Extends
<1>7. /\ Lines(mailbox[e][1]) \in Strings
      /\ InTransit(sent[e], received'[e], mailbox'[e], pending[e], buffers)
  BY ONLY <1>3, <1>4, <1>6, ReceiveTransit
<1>8. received'[e] \in Seq(Strings)
  BY ONLY <1>3, <1>6, <1>7, Extended
<1>9. TransferTypes'
  <2> DEFINE m == mailbox'[e]
             r == received'[e]
  <2>1. mailbox' = [mailbox EXCEPT ![e] = m] /\ received' = [received EXCEPT ![e] = r]
    BY <1>1 DEF StringsInv, TransferTypes
  <2>2. m \in Seq(Seq(Chars)) /\ r \in Seq(Strings)
    BY <1>5, <1>8
  <2> HIDE DEF m, r
  <2> QED BY <1>1, <2>1, <2>2 DEF StringsInv, TransferTypes
<1>10. ASSUME NEW d \in Dest
       PROVE  InTransit(sent'[d], received'[d], mailbox'[d], pending'[d], buffers')
  <2>1. CASE d = e
    BY <1>1, <1>7, <2>1
  <2>2. CASE d # e
    <3>1. sent' = sent /\ received'[d] = received[d] /\ mailbox'[d] = mailbox[d] /\ pending' = pending /\ buffers' = buffers
      BY <1>1, <2>2 DEF StringsInv, TransferTypes
    <3> QED BY <3>1 DEF StringsInv, TransferInv
  <2> QED BY <2>1, <2>2
<1> QED BY <1>2, <1>9, <1>10 DEF TransferInv

LEMMA TransfersStep ==
  StringsInv /\ [StringsNext]_stringsVars => (VectorInv /\ TransferTypes /\ TransferInv)'
<1> SUFFICES ASSUME StringsInv, [StringsNext]_stringsVars
             PROVE  (VectorInv /\ TransferTypes /\ TransferInv)'
  OBVIOUS
<1>1. CASE \E d \in Dest : Isend(d) \/ Complete(d) \/ Receive(d)
  BY <1>1, IsendTransfers, CompleteTransfers, ReceiveTransfers
<1>2. CASE Fill
  <2>1. UNCHANGED <<buffers, pending, mailbox, sent, received>> /\ strVec' \in Vectors /\ meant' = strVec'
    BY <1>2 DEF Fill
  <2>2. VectorInv'
    BY <2>1, StringsAssumption DEF VectorInv, Strings
  <2> QED BY <2>1, <2>2 DEF StringsInv, TransferTypes, TransferInv
<1>3. CASE WaitAll \/ Finished \/ UNCHANGED stringsVars
  <2>1. UNCHANGED <<strVec, meant, buffers, pending, mailbox, sent, received>>
    BY <1>3 DEF WaitAll, Finished, stringsVars
  <2> QED BY <2>1 DEF StringsInv, VectorInv, AreDelimited, TransferTypes, TransferInv
<1> QED BY <1>1, <1>2, <1>3 DEF StringsNext

LEMMA InvReceivedAsSent == StringsInv => ReceivedAsSent
<1> SUFFICES ASSUME StringsInv, NEW d \in Dest
             PROVE  \A i \in DOMAIN received[d] : i <= Len(sent[d]) /\ AreUsable(received[d][i], sent[d][i])
  BY DEF ReceivedAsSent
<1>1. /\ sent[d] \in Seq(Strings) /\ received[d] \in Seq(Strings)
      /\ mailbox[d] \in Seq(Seq(Chars)) /\ pending[d] \in Seq(Nat)
  BY DEF StringsInv, TransferTypes
<1>2. /\ Len(sent[d]) \in Nat /\ Len(received[d]) \in Nat /\ Len(mailbox[d]) \in Nat /\ Len(pending[d]) \in Nat
      /\ DOMAIN received[d] = 1..Len(received[d])
  BY <1>1, LenProperties
<1>3. Len(sent[d]) = Len(received[d]) + Len(mailbox[d]) + Len(pending[d])
  BY DEF StringsInv, TransferInv, InTransit
<1>4. Len(received[d]) <= Len(sent[d])
  <2>1. \A a, b, c, n \in Nat : n = a + b + c => a <= n
    OBVIOUS
  <2> QED BY ONLY <1>2, <1>3, <2>1
<1>5. ASSUME NEW i \in 1..Len(received[d])
      PROVE  i <= Len(sent[d]) /\ AreUsable(received[d][i], sent[d][i])
  <2>1. i \in 1..Len(sent[d]) /\ i <= Len(sent[d])
    <3>1. \A m \in Nat, n \in Nat : m <= n => \A j \in 1..m : j \in 1..n /\ j <= n
      OBVIOUS
    <3> QED BY <1>2, <1>4, <3>1
  <2> DEFINE v == sent[d][i]
             bytes == FlattenSeq(PrepareData(v))
  <2>2. v \in Strings
    BY <1>1, <2>1, ElementOfSeq
  <2>3. PrepareData(v) \in Strings /\ AreDelimited(PrepareData(v))
    BY <2>2, PrepareType, PreparedIsDelimited
  <2>4. bytes \in Seq(Chars) /\ (bytes # << >> => bytes[Len(bytes)] = NL)
    BY <2>3, BytesEnd
  <2>5. received[d][i] = Lines(bytes)
    BY DEF StringsInv, TransferInv, InTransit
  <2> HIDE DEF bytes
  <2>6. AreLines(Lines(bytes), bytes, Kept(bytes))
    BY <2>4, LinesAreKept
  <2> QED BY <2>1, <2>5, <2>6 DEF AreUsable, bytes
<1> QED BY <1>2, <1>5

\* ReceivedAsSent: for vectors of any strings, sent any number of times, each
\* vector received holds the usable lines of the one meant, in order.
THEOREM ReceivedAsSentCorrect == StringsSpec => []ReceivedAsSent
<1>1. StringsInit => StringsInv
  <2>1. StringsInit => BuffersInv
    BY BufferCountType DEF StringsInit, BuffersInv, Index
  <2> QED BY <2>1, InitTransfers DEF StringsInv
<1>2. StringsInv /\ [StringsNext]_stringsVars => StringsInv'
  <2>1. BuffersInv /\ [StringsNext]_stringsVars => BuffersInv'
    BY BuffersStep
  <2> QED BY <2>1, TransfersStep DEF StringsInv
<1> QED BY <1>1, <1>2, InvReceivedAsSent, PTL DEF StringsSpec

=============================================================================
