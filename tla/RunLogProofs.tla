----------------------------- MODULE RunLogProofs -----------------------------
(***************************************************************************)
(* Proofs about the run log, for any number of ranks and of entries: what  *)
(* is logged arrives once and in order, and the last line of the           *)
(* blackboard is the last of the file.                                     *)
(***************************************************************************)
EXTENDS RunLog, SequenceLemmas, FiniteSetTheorems, TLAPS

-----------------------------------------------------------------------------
\* What the channels and the file hold.
Prefix == {"DateTime", "TaskID", "Warning: ", "ERROR: ", "Error: "}

Entry == [text : Seq(Prefix), by : Loggers, num : Nat, kind : Kind, withID : BOOLEAN]

LogMessages == [tag : {"LogMessage", "ErrorMessage"}, line : Entry] \cup [tag : {"StopBlackboard"}]

LogLines == Entry \cup {StopLine}

-----------------------------------------------------------------------------
\* Counting positions.

\* The positions behind the first, when the first is taken away.
Shifted(P) == {i \in Nat \ {0} : i + 1 \in P}

LEMMA ShiftedCount ==
  ASSUME NEW n \in Nat, NEW P \in SUBSET (1..n)
  PROVE  Cardinality(P) = Cardinality(Shifted(P)) + IF 1 \in P THEN 1 ELSE 0
<1>1. IsFiniteSet(P) /\ Cardinality(P) \in Nat
  BY PositionsFinite
<1>2. /\ IsFiniteSet(P \ {1})
      /\ Cardinality(P \ {1}) = IF 1 \in P THEN Cardinality(P) - 1 ELSE Cardinality(P)
  BY <1>1, FS_RemoveElement
<1>3. ExistsBijection(P \ {1}, Shifted(P))
  <2> DEFINE f == [i \in P \ {1} |-> i - 1]
  <2>1. f \in [P \ {1} -> Shifted(P)]
    BY DEF Shifted
  <2>2. \A i, j \in P \ {1} : f[i] = f[j] => i = j
    OBVIOUS
  <2>3. \A j \in Shifted(P) : j + 1 \in P \ {1} /\ f[j + 1] = j
    BY DEF Shifted
  <2>4. f \in Bijection(P \ {1}, Shifted(P))
    BY <2>1, <2>2, <2>3 DEF Bijection, Injection, Surjection, IsInjective
  <2> QED BY <2>4 DEF ExistsBijection
<1>4. Cardinality(Shifted(P)) = Cardinality(P \ {1})
  BY <1>2, <1>3, FS_Bijection
<1> QED BY <1>1, <1>2, <1>4

LEMMA CountShifts ==
  ASSUME NEW n \in Nat, NEW P \in SUBSET (1..n), NEW i \in Nat \ {0}
  PROVE  Cardinality(UpTo(P, i + 1)) = Cardinality(UpTo(Shifted(P), i)) + IF 1 \in P THEN 1 ELSE 0
<1>1. UpTo(P, i + 1) \in SUBSET (1..n)
  BY DEF UpTo
<1>3. 1 \in UpTo(P, i + 1) <=> 1 \in P
  BY DEF UpTo
<1>2. Shifted(UpTo(P, i + 1)) = UpTo(Shifted(P), i)
  BY DEF UpTo, Shifted
<1> QED BY <1>1, <1>2, <1>3, ShiftedCount

LEMMA CountFirst ==
  ASSUME NEW n \in Nat, NEW P \in SUBSET (1..n)
  PROVE  Cardinality(UpTo(P, 1)) = IF 1 \in P THEN 1 ELSE 0
<1>0. \A j \in P : j \in Nat /\ 1 <= j
  OBVIOUS
<1>1. UpTo(P, 1) = IF 1 \in P THEN {1} ELSE {}
  <2>1. \A j \in P : j <= 1 <=> j = 1
    BY <1>0
  <2> QED BY <2>1 DEF UpTo
<1> QED BY <1>1, FS_Singleton, FS_EmptySet

-----------------------------------------------------------------------------
\* The entries of a channel that a message is sent to or taken from.

LEMMA EntriesType ==
  ASSUME NEW q \in Seq(LogMessages)
  PROVE  /\ Len(q) \in Nat
         /\ Entries(q) \in SUBSET (1..Len(q))
         /\ \A i \in 1..Len(q) : i \in Entries(q) <=> q[i].tag # "StopBlackboard"
BY DEF Entries

LEMMA EntriesAppend ==
  ASSUME NEW q \in Seq(LogMessages), NEW m \in LogMessages, NEW r, Extends(q, m, r)
  PROVE  /\ m.tag = "StopBlackboard" => Entries(r) = Entries(q)
         /\ m.tag # "StopBlackboard" => Entries(r) = Entries(q) \cup {Len(q) + 1}
         /\ \A i \in Entries(q) : r[i] = q[i]
         /\ r[Len(q) + 1] = m /\ Len(r) = Len(q) + 1 /\ r \in Seq(LogMessages)
<1>1. /\ Len(r) = Len(q) + 1 /\ Len(q) \in Nat /\ r \in Seq(LogMessages) /\ r[Len(q) + 1] = m
      /\ \A i \in 1..Len(q) : r[i] = q[i]
  BY DEF Extends
<1>2. /\ \A i \in 1..Len(q) : i \in Entries(r) <=> i \in Entries(q)
      /\ Len(q) + 1 \in Entries(r) <=> m.tag # "StopBlackboard"
  <2>1. \A i \in 1..Len(q) + 1 : i \in Entries(r) <=> r[i].tag # "StopBlackboard"
    BY <1>1, EntriesType
  <2>2. \A i \in 1..Len(q) : i \in Entries(q) <=> q[i].tag # "StopBlackboard"
    BY EntriesType
  <2>3. Len(q) + 1 \in 1..Len(q) + 1 /\ \A i \in 1..Len(q) : i \in 1..Len(q) + 1
    BY <1>1
  <2> QED BY <1>1, <2>1, <2>2, <2>3
<1>3. Entries(r) \subseteq 1..Len(q) + 1 /\ Entries(q) \subseteq 1..Len(q)
  BY <1>1, EntriesType
<1>4. Len(q) + 1 \notin Entries(q)
  BY <1>1, <1>3
<1>5. \A i \in 1..Len(q) + 1 : i \in 1..Len(q) \/ i = Len(q) + 1
  BY <1>1
<1>6. ASSUME m.tag = "StopBlackboard" PROVE Entries(r) = Entries(q)
  BY <1>2, <1>3, <1>5, <1>6
<1>7. ASSUME m.tag # "StopBlackboard" PROVE Entries(r) = Entries(q) \cup {Len(q) + 1}
  BY <1>2, <1>3, <1>5, <1>7
<1>8. \A i \in Entries(q) : r[i] = q[i]
  BY <1>1, <1>3
<1> QED BY <1>1, <1>6, <1>7, <1>8

LEMMA EntriesTail ==
  ASSUME NEW q \in Seq(LogMessages), NEW r, RestOf(q, r)
  PROVE  /\ Entries(r) = Shifted(Entries(q))
         /\ \A i \in Entries(r) : i + 1 \in Entries(q) /\ r[i] = q[i + 1]
         /\ Head(q) = q[1] /\ 1 \in 1..Len(q)
         /\ Len(r) = Len(q) - 1 /\ r \in Seq(LogMessages)
<1>1. /\ Len(r) = Len(q) - 1 /\ Len(q) \in Nat /\ Len(q) >= 1
      /\ r \in Seq(LogMessages) /\ Head(q) = q[1]
      /\ \A i \in 1..Len(q) - 1 : r[i] = q[i + 1]
  BY DEF RestOf
<1>2. \A i \in 1..Len(q) - 1 : i \in Entries(r) <=> i + 1 \in Entries(q)
  <2>1. \A i \in 1..Len(q) - 1 : i \in Entries(r) <=> r[i].tag # "StopBlackboard"
    BY <1>1, EntriesType
  <2>2. \A i \in 1..Len(q) : i \in Entries(q) <=> q[i].tag # "StopBlackboard"
    BY EntriesType
  <2>3. \A i \in 1..Len(q) - 1 : i + 1 \in 1..Len(q)
    BY <1>1
  <2> QED BY <1>1, <2>1, <2>2, <2>3
<1>3. Entries(r) \subseteq 1..Len(q) - 1 /\ Entries(q) \subseteq 1..Len(q)
  BY <1>1, EntriesType
<1>4. Shifted(Entries(q)) \subseteq 1..Len(q) - 1
  BY <1>1, <1>3 DEF Shifted
<1>5. Entries(r) = Shifted(Entries(q))
  BY <1>1, <1>2, <1>3, <1>4 DEF Shifted
<1> QED BY <1>1, <1>2, <1>3, <1>5

\* How the entries behind the first are counted when it is taken.
LEMMA EntriesTailCount ==
  ASSUME NEW q \in Seq(LogMessages), NEW r, RestOf(q, r)
  PROVE  /\ Cardinality(Entries(r)) \in Nat
         /\ Cardinality(Entries(q)) =
              Cardinality(Entries(r)) + IF q[1].tag # "StopBlackboard" THEN 1 ELSE 0
         /\ \A i \in Nat \ {0} :
              /\ Cardinality(UpTo(Entries(r), i)) \in Nat
              /\ Cardinality(UpTo(Entries(q), i + 1)) =
                   Cardinality(UpTo(Entries(r), i)) + IF q[1].tag # "StopBlackboard" THEN 1 ELSE 0
<1>1. /\ Entries(r) = Shifted(Entries(q)) /\ Entries(q) \in SUBSET (1..Len(q)) /\ Len(q) \in Nat
      /\ Entries(r) \in SUBSET (1..Len(r)) /\ Len(r) \in Nat
  BY EntriesTail, EntriesType
<1>2. 1 \in Entries(q) <=> q[1].tag # "StopBlackboard"
  BY EntriesTail, EntriesType
<1>3. Cardinality(Entries(r)) \in Nat
  BY <1>1, PositionsFinite
<1>4. Cardinality(Entries(q)) = Cardinality(Shifted(Entries(q))) + IF 1 \in Entries(q) THEN 1 ELSE 0
  BY <1>1, ShiftedCount
<1>5. ASSUME NEW i \in Nat \ {0}
      PROVE  /\ Cardinality(UpTo(Entries(r), i)) \in Nat
             /\ Cardinality(UpTo(Entries(q), i + 1)) =
                  Cardinality(UpTo(Shifted(Entries(q)), i)) + IF 1 \in Entries(q) THEN 1 ELSE 0
  <2>1. UpTo(Entries(r), i) \in SUBSET (1..Len(r))
    BY <1>1, Zenon DEF UpTo
  <2> QED BY <1>1, <2>1, PositionsFinite, CountShifts
<1> QED BY <1>1, <1>2, <1>3, <1>4, <1>5

-----------------------------------------------------------------------------
\* The order of a rank's entries: q is its channel, P the positions of its lines
\* in the file, c how many entries it has logged.
InOrder(q, file, P, c) ==
  /\ \A i \in P : file[i].num = Cardinality(UpTo(P, i))
  /\ \A i \in Entries(q) : q[i].line.num = Cardinality(P) + Cardinality(UpTo(Entries(q), i))
  /\ c = Cardinality(P) + Cardinality(Entries(q))

LEMMA LogKeepsOrder ==
  ASSUME NEW q \in Seq(LogMessages), NEW m \in LogMessages, NEW r, Extends(q, m, r),
         NEW file, NEW P, NEW c \in Nat, InOrder(q, file, P, c),
         m.tag # "StopBlackboard", m.line.num = c + 1, Cardinality(P) \in Nat
  PROVE  InOrder(r, file, P, c + 1)
<1>1. /\ Entries(r) = Entries(q) \cup {Len(q) + 1} /\ r[Len(q) + 1] = m
      /\ \A i \in Entries(q) : r[i] = q[i]
  BY EntriesAppend
<1>2. Entries(q) \in SUBSET (1..Len(q)) /\ Len(q) \in Nat
  BY EntriesType
<1>3. /\ Cardinality(Entries(r)) = Cardinality(Entries(q)) + 1
      /\ UpTo(Entries(r), Len(q) + 1) = Entries(r)
      /\ \A i \in Entries(q) : UpTo(Entries(r), i) = UpTo(Entries(q), i)
  <2> DEFINE E == Entries(q)
             n == Len(q)
  <2>1. E \in SUBSET (1..n) /\ n \in Nat /\ \A i \in E : i \in 1..n
    BY <1>2
  <2> HIDE DEF E, n
  <2>2. /\ Cardinality(E \cup {n + 1}) = Cardinality(E) + 1
        /\ UpTo(E \cup {n + 1}, n + 1) = E \cup {n + 1}
        /\ \A i \in E : UpTo(E \cup {n + 1}, i) = UpTo(E, i)
    BY <2>1, CountGrows DEF UpTo
  <2> QED BY <1>1, <2>2 DEF E, n
<1>4. Cardinality(Entries(q)) \in Nat
  BY <1>2, PositionsFinite
<1>5. ASSUME NEW i \in Entries(r)
      PROVE  r[i].line.num = Cardinality(P) + Cardinality(UpTo(Entries(r), i))
  <2>1. CASE i \in Entries(q)
    BY <1>1, <1>3, <2>1 DEF InOrder
  <2>2. CASE i = Len(q) + 1
    <3>1. m.line.num = Cardinality(P) + (Cardinality(Entries(q)) + 1)
      BY <1>4 DEF InOrder
    <3>2. r[i] = m /\ UpTo(Entries(r), i) = Entries(r)
      BY <1>1, <1>3, <2>2
    <3> QED BY <1>3, <3>1, <3>2
  <2> QED BY <1>1, <1>5, <2>1, <2>2
<1> QED BY <1>3, <1>4, <1>5 DEF InOrder

LEMMA ReceiveKeepsOrder ==
  ASSUME NEW q \in Seq(LogMessages), NEW r, RestOf(q, r),
         NEW file \in Seq(LogLines), NEW l \in LogLines, NEW g, Extends(file, l, g),
         NEW P \in SUBSET (1..Len(file)), NEW c \in Nat, InOrder(q, file, P, c),
         q[1].tag # "StopBlackboard", l.num = q[1].line.num
  PROVE  InOrder(r, g, P \cup {Len(file) + 1}, c)
<1> DEFINE n == Len(file)
           Q == P \cup {n + 1}
<1>1. \A i \in Entries(r) : i + 1 \in Entries(q) /\ r[i] = q[i + 1]
  BY EntriesTail
<1>2. Entries(q) \in SUBSET (1..Len(q)) /\ Len(q) \in Nat /\ 1 \in Entries(q)
  BY EntriesType, EntriesTail
<1>3. n \in Nat /\ g[n + 1] = l /\ \A i \in 1..n : g[i] = file[i]
  BY DEF Extends
<1>4. Entries(r) \subseteq Nat \ {0}
  BY EntriesTail, EntriesType
<1> HIDE DEF n
<1>5. /\ Cardinality(Q) = Cardinality(P) + 1 /\ UpTo(Q, n + 1) = Q
      /\ \A i \in 1..n : UpTo(Q, i) = UpTo(P, i)
  BY <1>3, CountGrows DEF UpTo, n
<1> HIDE DEF Q
<1>6. Cardinality(P) \in Nat
  BY <1>3, PositionsFinite DEF n
<1>7. ASSUME NEW i \in Q PROVE g[i].num = Cardinality(UpTo(Q, i))
  <2>1. CASE i \in P
    BY <1>3, <1>5, <2>1 DEF InOrder, n
  <2>2. CASE i = n + 1
    <3>1. Cardinality(UpTo(Entries(q), 1)) = 1
      BY <1>2, CountFirst
    <3>2. l.num = Cardinality(P) + 1
      BY <1>2, <3>1 DEF InOrder
    <3> QED BY <1>3, <1>5, <2>2, <3>2
  <2> QED BY <1>7, <2>1, <2>2 DEF Q
<1>8. ASSUME NEW i \in Entries(r)
      PROVE  r[i].line.num = Cardinality(Q) + Cardinality(UpTo(Entries(r), i))
  <2>1. i \in Nat \ {0}
    BY <1>4
  <2>2. /\ Cardinality(UpTo(Entries(q), i + 1)) = Cardinality(UpTo(Entries(r), i)) + 1
        /\ Cardinality(UpTo(Entries(r), i)) \in Nat
    BY <2>1, EntriesTailCount
  <2>3. r[i].line.num = Cardinality(P) + Cardinality(UpTo(Entries(q), i + 1))
    BY <1>1 DEF InOrder
  <2> QED BY <1>5, <1>6, <2>2, <2>3
<1>9. Cardinality(Entries(q)) = Cardinality(Entries(r)) + 1 /\ Cardinality(Entries(r)) \in Nat
  BY EntriesTailCount
<1>10. c = Cardinality(Q) + Cardinality(Entries(r))
  BY <1>5, <1>6, <1>9 DEF InOrder
<1> QED BY <1>7, <1>8, <1>10 DEF InOrder, Q, n

\* The message that stops the blackboard is no entry.
LEMMA StopKeepsOrder ==
  ASSUME NEW q \in Seq(LogMessages), NEW r, RestOf(q, r),
         NEW file, NEW P, NEW c \in Nat, InOrder(q, file, P, c), q[1].tag = "StopBlackboard"
  PROVE  InOrder(r, file, P, c)
<1>1. \A i \in Entries(r) : i + 1 \in Entries(q) /\ r[i] = q[i + 1]
  BY EntriesTail
<1>2. Entries(r) \subseteq Nat \ {0}
  BY EntriesTail, EntriesType
<1>3. Cardinality(Entries(q)) = Cardinality(Entries(r))
  <2>1. Cardinality(Entries(q)) = Cardinality(Entries(r)) + 0 /\ Cardinality(Entries(r)) \in Nat
    BY EntriesTailCount
  <2> QED BY <2>1
<1>4. ASSUME NEW i \in Entries(r)
      PROVE  r[i].line.num = Cardinality(P) + Cardinality(UpTo(Entries(r), i))
  <2>1. /\ Cardinality(UpTo(Entries(q), i + 1)) = Cardinality(UpTo(Entries(r), i)) + 0
        /\ Cardinality(UpTo(Entries(r), i)) \in Nat
    BY <1>2, EntriesTailCount
  <2> QED BY <1>1, <2>1 DEF InOrder
<1> QED BY <1>3, <1>4 DEF InOrder

-----------------------------------------------------------------------------
\* The texts of entries.

LEMMA OneString ==
  ASSUME NEW x \in Prefix
  PROVE  <<x>> \in Seq(Prefix) /\ Len(<<x>>) = 1 /\ <<x>>[1] = x /\ <<x>> # << >>
OBVIOUS

LEMMA Joined ==
  ASSUME NEW s \in Seq(Prefix), NEW u \in Seq(Prefix)
  PROVE  s \o u \in Seq(Prefix)
OBVIOUS

LEMMA TextType ==
  ASSUME NEW kind \in Kind, NEW withID \in BOOLEAN
  PROVE  LogText(kind, withID) \in Seq(Prefix)
<1>1. /\ DateTimeStampPrefix \in Seq(Prefix) /\ <<"TaskID">> \in Seq(Prefix)
      /\ <<"Warning: ">> \in Seq(Prefix) /\ <<"ERROR: ">> \in Seq(Prefix) /\ << >> \in Seq(Prefix)
  BY OneString DEF DateTimeStampPrefix, Prefix
<1>2. MakePrefix(withID) \in Seq(Prefix)
  <2>1. DateTimeStampPrefix \o <<"TaskID">> \in Seq(Prefix)
    BY ONLY <1>1, Joined
  <2> QED BY <1>1, <2>1 DEF MakePrefix
<1>3. MakePrefix(withID) \o <<"Warning: ">> \in Seq(Prefix) /\ MakePrefix(withID) \o <<"ERROR: ">> \in Seq(Prefix)
  BY ONLY <1>1, <1>2, Joined
<1>4. CASE kind = "Message"
  BY <1>2, <1>4 DEF LogText, Message
<1>5. CASE kind = "Warning"
  BY <1>1, <1>3, <1>5 DEF LogText, Warning
<1>6. CASE kind = "Error"
  BY <1>3, <1>6 DEF LogText, Error
<1> QED BY <1>4, <1>5, <1>6 DEF Kind

-----------------------------------------------------------------------------
\* The invariants.

RunLogTypeOK ==
  /\ logCount \in [Loggers -> Nat] /\ \A p \in Loggers : logCount[p] <= MaxEntries
  /\ logChannel \in [Loggers -> Seq(LogMessages)]
  /\ logFile \in Seq(LogLines)
  /\ logIsOpen \in BOOLEAN /\ boardActive \in BOOLEAN /\ (boardActive => logIsOpen)
  /\ stopAfter \in Nat

\* What a rank has sent is its own, with the tag LoggerMPI gives it.
IsSent(p, m) ==
  m.tag # "StopBlackboard" =>
    m.line \in Entry /\ m.line.by = p /\ m.tag = LogTag(m.line.kind)

SentInv == \A p \in Loggers : \A i \in 1..Len(logChannel[p]) : IsSent(p, logChannel[p][i])

\* The message that stops the blackboard is under way once, from the moment the
\* controller asks until the blackboard takes it, behind what the controller has
\* logged before.
NoStop(q) == Entries(q) = 1..Len(q)

StopsAfter(q, P, a) ==
  \E s \in 1..Len(q) :
    Entries(q) = (1..Len(q)) \ {s} /\ a = Cardinality(P) + Cardinality(UpTo(Entries(q), s))

StopInv ==
  /\ \A p \in Loggers \ {Stopper} : NoStop(logChannel[p])
  /\ stopAfter = NotAsked => boardActive /\ NoStop(logChannel[Stopper])
  /\ stopAfter # NotAsked /\ boardActive =>
       StopsAfter(logChannel[Stopper], LinesOf(Stopper), stopAfter)
  /\ StopEndsLog

RunLogInv == RunLogTypeOK /\ SentInv /\ LogInOrder /\ StopInv

LEMMA RunLogInitInv == RunLogInit => RunLogInv
<1> SUFFICES ASSUME RunLogInit PROVE RunLogInv
  OBVIOUS
<1>1. RunLogTypeOK
  BY RunLogAssumption DEF RunLogInit, RunLogTypeOK, NotAsked
<1>2. SentInv
  BY DEF RunLogInit, SentInv
<1>3. /\ \A p \in Loggers : LinesOf(p) = {} /\ Entries(logChannel[p]) = {}
      /\ \A p \in Loggers : logCount[p] = 0 /\ Len(logChannel[p]) = 0
  BY DEF RunLogInit, LinesOf, Entries
<1>4. LogInOrder
  <2>1. Cardinality({}) + Cardinality({}) = 0
    BY FS_EmptySet
  <2> QED BY <1>3, <2>1 DEF LogInOrder
<1>5. \A p \in Loggers : NoStop(logChannel[p])
  <2>1. 1..0 = {}
    OBVIOUS
  <2> QED BY <1>3, <2>1 DEF NoStop
<1>6. StopEndsLog
  BY DEF RunLogInit, StopEndsLog
<1>7. StopInv
  BY <1>5, <1>6, RunLogAssumption DEF RunLogInit, StopInv
<1> QED BY <1>1, <1>2, <1>4, <1>7 DEF RunLogInv

-----------------------------------------------------------------------------
\* The steps: a rank sends an entry, the blackboard takes one and writes a line.

Logs(p, m) ==
  /\ m \in LogMessages /\ m.tag # "StopBlackboard" /\ IsSent(p, m) /\ m.line.num = logCount[p] + 1
  /\ Extends(logChannel[p], m, logChannel'[p])
  /\ \A q \in Loggers \ {p} : logChannel'[q] = logChannel[q] /\ logCount'[q] = logCount[q]
  /\ logCount'[p] = logCount[p] + 1
  /\ UNCHANGED <<logFile, logIsOpen, boardActive, stopAfter>>

Receives(p, l) ==
  /\ boardActive /\ RestOf(logChannel[p], logChannel'[p]) /\ logChannel[p][1].tag # "StopBlackboard"
  /\ l.by = p /\ l.num = logChannel[p][1].line.num
  /\ \A q \in Loggers \ {p} : logChannel'[q] = logChannel[q]
  /\ Extends(logFile, l, logFile')
  /\ UNCHANGED <<logCount, logIsOpen, boardActive, stopAfter>>

LEMMA LogIs ==
  ASSUME RunLogTypeOK, NEW p \in Loggers, NEW kind \in Kind, NEW withID \in BOOLEAN,
         Log(p, kind, withID)
  PROVE  /\ \E m \in LogMessages : Logs(p, m)
         /\ RunLogTypeOK'
<1> DEFINE l == [text |-> LogText(kind, withID), by |-> p, num |-> logCount[p] + 1,
                 kind |-> kind, withID |-> withID]
           m == [tag |-> LogTag(kind), line |-> l]
<1>1. /\ logCount[p] < MaxEntries /\ logCount' = [logCount EXCEPT ![p] = @ + 1]
      /\ logChannel' = [logChannel EXCEPT ![p] = Append(@, m)]
      /\ UNCHANGED <<logFile, logIsOpen, boardActive, stopAfter>>
  BY DEF Log, SendMsg
<1>2. LogText(kind, withID) \in Seq(Prefix)
  BY TextType
<1>3. l \in Entry
  BY <1>2 DEF RunLogTypeOK, Entry
<1>4. LogTag(kind) \in {"LogMessage", "ErrorMessage"}
  BY DEF LogTag
<1>5. m \in LogMessages /\ m.tag # "StopBlackboard" /\ m.line = l /\ m.tag = LogTag(kind)
  BY <1>3, <1>4 DEF LogMessages
<1>6. l.kind = kind /\ l.by = p /\ l.num = logCount[p] + 1
  OBVIOUS
<1> HIDE DEF l, m
<1>7. IsSent(p, m) /\ m.line.num = logCount[p] + 1
  BY <1>3, <1>5, <1>6 DEF IsSent
<1>8. /\ logChannel'[p] = Append(logChannel[p], m) /\ logCount'[p] = logCount[p] + 1
      /\ \A q \in Loggers \ {p} : logChannel'[q] = logChannel[q] /\ logCount'[q] = logCount[q]
  BY <1>1 DEF RunLogTypeOK
<1>9. RunLogTypeOK'
  <2>1. logChannel' \in [Loggers -> Seq(LogMessages)]
    BY <1>1, <1>5 DEF RunLogTypeOK
  <2>2. logCount' \in [Loggers -> Nat] /\ \A q \in Loggers : logCount'[q] <= MaxEntries
    BY <1>1, RunLogAssumption DEF RunLogTypeOK
  <2> QED BY <1>1, <2>1, <2>2 DEF RunLogTypeOK
<1> QED BY <1>1, <1>5, <1>7, <1>8, <1>9 DEF Logs, Extends

\* What a step that receives does to the channels and the file keeps their types.
LEMMA ReceiveType ==
  ASSUME RunLogTypeOK, NEW p \in Loggers, NEW tag, ReceiveTagged(p, tag)
  PROVE  /\ logChannel' \in [Loggers -> Seq(LogMessages)]
         /\ RestOf(logChannel[p], logChannel'[p])
         /\ Head(logChannel[p]) = logChannel[p][1] /\ 1 \in 1..Len(logChannel[p])
         /\ logChannel[p][1] \in LogMessages /\ logChannel[p][1].tag = tag
         /\ \A q \in Loggers \ {p} : logChannel'[q] = logChannel[q]
         /\ boardActive /\ logIsOpen
<1>1. /\ logChannel[p] \in Seq(LogMessages) /\ logChannel[p] # << >>
      /\ logChannel' = [logChannel EXCEPT ![p] = Tail(@)] /\ Head(logChannel[p]).tag = tag
      /\ boardActive /\ logIsOpen
  BY DEF ReceiveTagged, RunLogTypeOK
<1>2. logChannel' \in [Loggers -> Seq(LogMessages)]
  BY <1>1 DEF RunLogTypeOK
<1>3. logChannel'[p] = Tail(logChannel[p]) /\ \A q \in Loggers \ {p} : logChannel'[q] = logChannel[q]
  BY <1>1 DEF RunLogTypeOK
<1>4. RestOf(logChannel[p], logChannel'[p])
  BY <1>1, <1>3 DEF RestOf
<1>5. /\ Head(logChannel[p]) = logChannel[p][1] /\ 1 \in 1..Len(logChannel[p])
      /\ logChannel[p][1] \in LogMessages
  BY <1>1
<1> QED BY <1>1, <1>2, <1>3, <1>4, <1>5

LEMMA ReceivesMessage ==
  ASSUME RunLogTypeOK, SentInv, NEW p \in Loggers, ReceiveAndLogMessage(p)
  PROVE  (\E l \in Entry : Receives(p, l)) /\ RunLogTypeOK'
<1> DEFINE m == logChannel[p][1]
           l == m.line
<1>1. /\ logChannel' \in [Loggers -> Seq(LogMessages)]
      /\ RestOf(logChannel[p], logChannel'[p]) /\ Head(logChannel[p]) = m /\ 1 \in 1..Len(logChannel[p])
      /\ m \in LogMessages /\ m.tag = "LogMessage"
      /\ \A q \in Loggers \ {p} : logChannel'[q] = logChannel[q]
      /\ boardActive /\ logIsOpen
  BY ReceiveType DEF ReceiveAndLogMessage
<1>2. logFile' = Append(logFile, Head(logChannel[p]).line)
  BY <1>1 DEF ReceiveAndLogMessage, Write
<1>3. IsSent(p, m)
  BY <1>1 DEF SentInv
<1> HIDE DEF m
<1>4. l \in Entry /\ l.by = p
  BY <1>1, <1>3 DEF IsSent
<1>6. logFile' = Append(logFile, l)
  BY <1>1, <1>2
<1> HIDE DEF l
<1>7. logFile' \in Seq(LogLines)
  BY <1>4, <1>6 DEF RunLogTypeOK, LogLines
<1>8. UNCHANGED <<logCount, logIsOpen, boardActive, stopAfter>>
  BY DEF ReceiveAndLogMessage
<1>9. RunLogTypeOK'
  BY <1>1, <1>7, <1>8 DEF RunLogTypeOK
<1>10. Receives(p, l)
  <2>1. Extends(logFile, l, logFile')
    BY <1>6 DEF Extends
  <2> QED BY <1>1, <1>4, <1>8, <2>1 DEF Receives, m, l
<1> QED BY <1>4, <1>9, <1>10

LEMMA ReceivesError ==
  ASSUME RunLogTypeOK, SentInv, NEW p \in Loggers, ReceiveAndLogError(p)
  PROVE  (\E l \in Entry : Receives(p, l)) /\ RunLogTypeOK'
<1> DEFINE m == logChannel[p][1]
           sent == m.line
           t == <<"Error: ">> \o sent.text
           l == IF sent.text # << >> /\ Head(sent.text) = "Error: "
                  THEN sent ELSE [sent EXCEPT !.text = t]
<1>1. /\ logChannel' \in [Loggers -> Seq(LogMessages)]
      /\ RestOf(logChannel[p], logChannel'[p]) /\ Head(logChannel[p]) = m /\ 1 \in 1..Len(logChannel[p])
      /\ m \in LogMessages /\ m.tag = "ErrorMessage"
      /\ \A q \in Loggers \ {p} : logChannel'[q] = logChannel[q]
      /\ boardActive /\ logIsOpen
  BY ReceiveType DEF ReceiveAndLogError
<1>2. IsSent(p, m)
  BY <1>1 DEF SentInv
<1>3. logFile' = Append(logFile, l)
  BY <1>1 DEF ReceiveAndLogError, Write
<1>4. UNCHANGED <<logCount, logIsOpen, boardActive, stopAfter>>
  BY DEF ReceiveAndLogError
<1> HIDE DEF m
<1>5. sent \in Entry /\ sent.by = p
  BY <1>1, <1>2 DEF IsSent
<1> HIDE DEF sent
<1>6. t \in Seq(Prefix)
  <2>1. <<"Error: ">> \in Seq(Prefix) /\ sent.text \in Seq(Prefix)
    BY <1>5, OneString DEF Entry, Prefix
  <2> QED BY ONLY <2>1, Joined DEF t
<1> HIDE DEF t
<1>7. l \in Entry /\ l.by = p /\ l.num = sent.num
  BY <1>5, <1>6 DEF Entry
<1> HIDE DEF l
<1>8. logFile' \in Seq(LogLines)
  BY <1>3, <1>7 DEF RunLogTypeOK, LogLines
<1>9. RunLogTypeOK'
  BY <1>1, <1>4, <1>8 DEF RunLogTypeOK
<1>10. Receives(p, l)
  <2>1. Extends(logFile, l, logFile')
    BY <1>3 DEF Extends
  <2>2. l.num = logChannel[p][1].line.num
    BY <1>7 DEF m, sent
  <2> QED BY <1>1, <1>4, <1>7, <2>1, <2>2 DEF Receives, m
<1> QED BY <1>7, <1>9, <1>10

-----------------------------------------------------------------------------
\* The lines of a rank, when a line is written.

LEMMA LinesType ==
  ASSUME RunLogTypeOK, NEW p
  PROVE  LinesOf(p) \in SUBSET (1..Len(logFile)) /\ Len(logFile) \in Nat /\ Cardinality(LinesOf(p)) \in Nat
<1>1. LinesOf(p) \in SUBSET (1..Len(logFile)) /\ Len(logFile) \in Nat
  BY DEF RunLogTypeOK, LinesOf
<1> QED BY <1>1, PositionsFinite

LEMMA LinesGrow ==
  ASSUME RunLogTypeOK, NEW l \in LogLines, Extends(logFile, l, logFile'), NEW p
  PROVE  LinesOf(p)' = IF l.by = p THEN LinesOf(p) \cup {Len(logFile) + 1} ELSE LinesOf(p)
<1> DEFINE n == Len(logFile)
<1>1. /\ DOMAIN logFile = 1..n /\ DOMAIN logFile' = 1..n + 1 /\ n \in Nat
      /\ logFile'[n + 1] = l /\ \A i \in 1..n : logFile'[i] = logFile[i]
  BY DEF RunLogTypeOK, Extends
<1> HIDE DEF n
<1>2. \A i \in 1..n + 1 : i \in 1..n \/ i = n + 1
  BY <1>1
<1>3. n + 1 \in 1..n + 1 /\ \A i \in 1..n : i \in 1..n + 1
  BY <1>1
<1>4. LinesOf(p)' = {i \in 1..n + 1 : logFile'[i].by = p}
  BY <1>1 DEF LinesOf
<1>5. LinesOf(p) = {i \in 1..n : logFile[i].by = p}
  BY <1>1 DEF LinesOf
<1>6. \A i \in 1..n + 1 : i \in LinesOf(p)' <=> i \in LinesOf(p) \/ (i = n + 1 /\ l.by = p)
  <2>1. n + 1 \notin 1..n
    BY <1>1
  <2> QED BY <1>1, <1>2, <1>3, <1>4, <1>5, <2>1
<1>7. LinesOf(p)' \subseteq 1..n + 1 /\ LinesOf(p) \subseteq 1..n
  BY <1>4, <1>5
<1> QED BY <1>3, <1>6, <1>7 DEF n

\* LogInOrder says InOrder of every rank.
LEMMA OrderOf ==
  LogInOrder <=> \A p \in Loggers : InOrder(logChannel[p], logFile, LinesOf(p), logCount[p])
BY DEF LogInOrder, InOrder

-----------------------------------------------------------------------------
\* The messages under way.

LEMMA LogKeepsSent ==
  ASSUME RunLogTypeOK, SentInv, NEW p \in Loggers, NEW m \in LogMessages, Logs(p, m)
  PROVE  SentInv'
<1>1. logChannel[p] \in Seq(LogMessages) /\ Extends(logChannel[p], m, logChannel'[p]) /\ IsSent(p, m)
  BY DEF RunLogTypeOK, Logs
<1>2. \A i \in 1..Len(logChannel'[p]) : IsSent(p, logChannel'[p][i])
  <2>1. /\ Len(logChannel'[p]) = Len(logChannel[p]) + 1 /\ Len(logChannel[p]) \in Nat
        /\ logChannel'[p][Len(logChannel[p]) + 1] = m
        /\ \A i \in 1..Len(logChannel[p]) : logChannel'[p][i] = logChannel[p][i]
    BY <1>1 DEF Extends
  <2>2. \A i \in 1..Len(logChannel[p]) + 1 : i \in 1..Len(logChannel[p]) \/ i = Len(logChannel[p]) + 1
    BY <2>1
  <2> QED BY <1>1, <2>1, <2>2 DEF SentInv
<1>3. \A q \in Loggers \ {p} : logChannel'[q] = logChannel[q]
  BY DEF Logs
<1> HIDE DEF IsSent
<1>5. \A q \in Loggers : \A i \in 1..Len(logChannel'[q]) : IsSent(q, logChannel'[q][i])
  <2>1. ASSUME NEW q \in Loggers \ {p}, NEW i \in 1..Len(logChannel'[q])
        PROVE  IsSent(q, logChannel'[q][i])
    BY <1>3, <2>1 DEF SentInv
  <2> QED BY <1>2, <2>1
<1> QED BY <1>5 DEF SentInv, IsSent

\* A message is taken from the channel of a rank.
LEMMA TakeKeepsSent ==
  ASSUME RunLogTypeOK, SentInv, NEW p \in Loggers, RestOf(logChannel[p], logChannel'[p]),
         \A q \in Loggers \ {p} : logChannel'[q] = logChannel[q]
  PROVE  \A q \in Loggers : \A i \in 1..Len(logChannel'[q]) : IsSent(q, logChannel'[q][i])
<1>1. \A i \in 1..Len(logChannel'[p]) : IsSent(p, logChannel'[p][i])
  <2>1. /\ Len(logChannel'[p]) = Len(logChannel[p]) - 1 /\ Len(logChannel[p]) \in Nat
        /\ \A i \in 1..Len(logChannel[p]) - 1 : logChannel'[p][i] = logChannel[p][i + 1]
    BY DEF RestOf, RunLogTypeOK
  <2>2. \A i \in 1..Len(logChannel[p]) - 1 : i + 1 \in 1..Len(logChannel[p])
    BY <2>1
  <2> QED BY <2>1, <2>2 DEF SentInv
<1>2. ASSUME NEW q \in Loggers \ {p}, NEW i \in 1..Len(logChannel'[q])
      PROVE  IsSent(q, logChannel'[q][i])
  BY <1>2 DEF SentInv
<1> QED BY <1>1, <1>2

-----------------------------------------------------------------------------
\* The order.

LEMMA LogIsInOrder ==
  ASSUME RunLogTypeOK, LogInOrder, NEW p \in Loggers, NEW m \in LogMessages, Logs(p, m)
  PROVE  LogInOrder'
<1>1. /\ logChannel[p] \in Seq(LogMessages) /\ Extends(logChannel[p], m, logChannel'[p])
      /\ m.tag # "StopBlackboard" /\ m.line.num = logCount[p] + 1 /\ logCount[p] \in Nat
      /\ logCount'[p] = logCount[p] + 1
      /\ \A q \in Loggers \ {p} : logChannel'[q] = logChannel[q] /\ logCount'[q] = logCount[q]
      /\ logFile' = logFile
  BY DEF RunLogTypeOK, Logs
<1>2. \A q : LinesOf(q)' = LinesOf(q)
  BY <1>1 DEF LinesOf
<1>3. \A q \in Loggers : InOrder(logChannel[q], logFile, LinesOf(q), logCount[q])
  BY OrderOf
<1>4. Cardinality(LinesOf(p)) \in Nat
  BY LinesType
<1>5. InOrder(logChannel'[p], logFile, LinesOf(p), logCount[p] + 1)
  BY <1>1, <1>3, <1>4, LogKeepsOrder
<1>6. ASSUME NEW q \in Loggers PROVE InOrder(logChannel'[q], logFile', LinesOf(q)', logCount'[q])
  <2>1. CASE q = p
    BY <1>1, <1>2, <1>5, <2>1
  <2>2. CASE q # p
    BY <1>1, <1>2, <1>3, <2>2
  <2> QED BY <2>1, <2>2
<1> QED BY <1>6 DEF LogInOrder, InOrder, LinesOf

\* Positions beyond a set are of no consequence for it.
LEMMA OrderOfOthers ==
  ASSUME RunLogTypeOK, NEW l \in LogLines, Extends(logFile, l, logFile'),
         NEW q, NEW P \in SUBSET (1..Len(logFile)), NEW c, InOrder(q, logFile, P, c)
  PROVE  InOrder(q, logFile', P, c)
<1>1. \A i \in P : logFile'[i] = logFile[i]
  BY DEF Extends, RunLogTypeOK
<1> QED BY <1>1 DEF InOrder

LEMMA ReceiveIsInOrder ==
  ASSUME RunLogTypeOK, LogInOrder, NEW p \in Loggers, NEW l \in Entry, Receives(p, l)
  PROVE  LogInOrder'
<1>1. /\ logChannel[p] \in Seq(LogMessages) /\ RestOf(logChannel[p], logChannel'[p])
      /\ logChannel[p][1].tag # "StopBlackboard" /\ l.by = p /\ l.num = logChannel[p][1].line.num
      /\ \A q \in Loggers \ {p} : logChannel'[q] = logChannel[q]
      /\ logCount' = logCount /\ logCount[p] \in Nat
      /\ Extends(logFile, l, logFile') /\ logFile \in Seq(LogLines) /\ l \in LogLines
  BY DEF RunLogTypeOK, Receives, LogLines
<1>2. LinesOf(p)' = LinesOf(p) \cup {Len(logFile) + 1} /\ \A q \in Loggers \ {p} : LinesOf(q)' = LinesOf(q)
  BY <1>1, LinesGrow
<1>3. \A q \in Loggers : /\ InOrder(logChannel[q], logFile, LinesOf(q), logCount[q])
                         /\ LinesOf(q) \in SUBSET (1..Len(logFile))
  BY OrderOf, LinesType
<1>4. InOrder(logChannel'[p], logFile', LinesOf(p) \cup {Len(logFile) + 1}, logCount[p])
  BY <1>1, <1>3, ReceiveKeepsOrder
<1>5. ASSUME NEW q \in Loggers PROVE InOrder(logChannel'[q], logFile', LinesOf(q)', logCount'[q])
  <2>1. CASE q = p
    BY <1>1, <1>2, <1>4, <2>1
  <2>2. CASE q # p
    <3>1. InOrder(logChannel[q], logFile', LinesOf(q), logCount[q])
      BY <1>1, <1>3, OrderOfOthers
    <3> QED BY <1>1, <1>2, <2>2, <3>1
  <2> QED BY <2>1, <2>2
<1> QED BY <1>5 DEF LogInOrder, InOrder, LinesOf

-----------------------------------------------------------------------------
\* Where the message that stops the blackboard is.

LEMMA NoStopAppend ==
  ASSUME NEW q \in Seq(LogMessages), NEW m \in LogMessages, NEW r, Extends(q, m, r),
         m.tag # "StopBlackboard", NoStop(q)
  PROVE  NoStop(r)
<1>1. Entries(r) = Entries(q) \cup {Len(q) + 1} /\ Len(r) = Len(q) + 1 /\ Len(q) \in Nat
  BY EntriesAppend, EntriesType
<1>2. \A i : i \in 1..Len(q) + 1 <=> i \in 1..Len(q) \/ i = Len(q) + 1
  BY <1>1
<1> QED BY <1>1, <1>2 DEF NoStop

LEMMA NoStopTail ==
  ASSUME NEW q \in Seq(LogMessages), NEW r, RestOf(q, r), NoStop(q)
  PROVE  NoStop(r)
<1>1. Entries(r) = Shifted(Entries(q)) /\ Len(r) = Len(q) - 1 /\ Len(q) \in Nat
  BY EntriesTail, EntriesType
<1>2. \A i : i \in Nat \ {0} /\ i + 1 \in 1..Len(q) <=> i \in 1..Len(q) - 1
  BY <1>1
<1> QED BY <1>1, <1>2 DEF NoStop, Shifted

LEMMA StopStaysBehind ==
  ASSUME NEW q \in Seq(LogMessages), NEW m \in LogMessages, NEW r, Extends(q, m, r),
         m.tag # "StopBlackboard", NEW P, NEW a, StopsAfter(q, P, a)
  PROVE  StopsAfter(r, P, a)
<1> DEFINE n == Len(q)
<1>1. Entries(r) = Entries(q) \cup {n + 1} /\ Len(r) = n + 1 /\ n \in Nat
  BY EntriesAppend, EntriesType
<1>2. PICK s \in 1..n : Entries(q) = (1..n) \ {s} /\ a = Cardinality(P) + Cardinality(UpTo(Entries(q), s))
  BY DEF StopsAfter
<1> HIDE DEF n
<1>3. Entries(r) = (1..n + 1) \ {s}
  <2>1. \A i : i \in (1..n + 1) \ {s} <=> i \in (1..n) \ {s} \/ i = n + 1
    BY <1>1, <1>2
  <2> QED BY <1>1, <1>2, <2>1
<1>4. UpTo(Entries(r), s) = UpTo(Entries(q), s)
  <2>1. ~(n + 1 <= s)
    BY <1>1, <1>2
  <2> QED BY <1>1, <2>1 DEF UpTo
<1>5. s \in 1..n + 1
  BY <1>1, <1>2
<1> QED BY <1>1, <1>2, <1>3, <1>4, <1>5 DEF StopsAfter

LEMMA StopIsSentBehind ==
  ASSUME NEW q \in Seq(LogMessages), NEW m \in LogMessages, NEW r, Extends(q, m, r),
         m.tag = "StopBlackboard", NoStop(q), NEW P
  PROVE  StopsAfter(r, P, Cardinality(P) + Cardinality(Entries(q)))
<1> DEFINE n == Len(q)
<1>1. Entries(r) = Entries(q) /\ Entries(q) = 1..n /\ Len(r) = n + 1 /\ n \in Nat
  BY EntriesAppend, EntriesType DEF NoStop
<1> HIDE DEF n
<1>2. Entries(r) = (1..n + 1) \ {n + 1}
  <2>1. \A i : i \in 1..n <=> i \in (1..n + 1) \ {n + 1}
    BY <1>1
  <2> QED BY <1>1, <2>1
<1>3. UpTo(Entries(r), n + 1) = Entries(q)
  <2>1. \A i \in 1..n : i <= n + 1
    BY <1>1
  <2> QED BY <1>1, <2>1 DEF UpTo
<1>4. n + 1 \in 1..n + 1
  BY <1>1
<1> QED BY <1>1, <1>2, <1>3, <1>4 DEF StopsAfter

LEMMA StopComesForward ==
  ASSUME NEW q \in Seq(LogMessages), NEW r, RestOf(q, r), q[1].tag # "StopBlackboard",
         NEW P, NEW Q, NEW a, StopsAfter(q, P, a),
         Cardinality(P) \in Nat, Cardinality(Q) = Cardinality(P) + 1
  PROVE  StopsAfter(r, Q, a)
<1> DEFINE n == Len(q)
<1>1. /\ Entries(r) = Shifted(Entries(q)) /\ Len(r) = n - 1 /\ n \in Nat
      /\ 1 \in Entries(q)
  BY EntriesTail, EntriesType
<1>2. PICK s \in 1..n : Entries(q) = (1..n) \ {s} /\ a = Cardinality(P) + Cardinality(UpTo(Entries(q), s))
  BY DEF StopsAfter
<1> HIDE DEF n
<1>3. s # 1 /\ s - 1 \in Nat \ {0} /\ s - 1 \in 1..n - 1 /\ (s - 1) + 1 = s
  BY <1>1, <1>2
<1>4. Entries(r) = (1..n - 1) \ {s - 1}
  <2>1. \A i : i \in (1..n - 1) \ {s - 1} <=> i \in Nat \ {0} /\ i + 1 \in (1..n) \ {s}
    BY <1>1, <1>2, <1>3
  <2> QED BY <1>1, <1>2, <2>1 DEF Shifted
<1>5. a = Cardinality(Q) + Cardinality(UpTo(Entries(r), s - 1))
  <2> DEFINE t == s - 1
  <2>1. t \in Nat \ {0} /\ t + 1 = s
    BY <1>3
  <2> HIDE DEF t
  <2>2. /\ Cardinality(UpTo(Entries(q), t + 1)) = Cardinality(UpTo(Entries(r), t)) + 1
        /\ Cardinality(UpTo(Entries(r), t)) \in Nat
    BY <2>1, EntriesTailCount
  <2>3. a = Cardinality(Q) + Cardinality(UpTo(Entries(r), t))
    BY <1>2, <2>1, <2>2
  <2> QED BY <2>3 DEF t
<1> QED BY <1>1, <1>3, <1>4, <1>5 DEF StopsAfter

LEMMA StopIsFirst ==
  ASSUME NEW q \in Seq(LogMessages), NEW r, RestOf(q, r), q[1].tag = "StopBlackboard",
         NEW P, NEW a, StopsAfter(q, P, a), Cardinality(P) \in Nat
  PROVE  a = Cardinality(P)
<1>1. 1 \notin Entries(q) /\ 1 \in 1..Len(q) /\ Len(q) \in Nat
  BY EntriesTail, EntriesType
<1>2. PICK s \in 1..Len(q) : /\ Entries(q) = (1..Len(q)) \ {s}
                             /\ a = Cardinality(P) + Cardinality(UpTo(Entries(q), s))
  BY DEF StopsAfter
<1>3. s = 1
  BY <1>1, <1>2
<1>4. Cardinality(UpTo(Entries(q), 1)) = 0
  BY <1>1, EntriesType, CountFirst
<1> QED BY <1>2, <1>3, <1>4

-----------------------------------------------------------------------------
\* Its place, and the end of the log, in each step.

LEMMA LogKeepsStop ==
  ASSUME RunLogTypeOK, StopInv, NEW p \in Loggers, NEW m \in LogMessages, Logs(p, m)
  PROVE  StopInv'
<1>1. /\ logChannel[p] \in Seq(LogMessages) /\ Extends(logChannel[p], m, logChannel'[p])
      /\ m.tag # "StopBlackboard"
      /\ \A q \in Loggers \ {p} : logChannel'[q] = logChannel[q]
      /\ UNCHANGED <<logFile, logIsOpen, boardActive, stopAfter>>
  BY DEF RunLogTypeOK, Logs
<1>2. \A q \in Loggers : NoStop(logChannel[q]) => NoStop(logChannel'[q])
  <2>1. NoStop(logChannel[p]) => NoStop(logChannel'[p])
    BY <1>1, NoStopAppend
  <2> QED BY <1>1, <2>1
<1>3. StopsAfter(logChannel[Stopper], LinesOf(Stopper), stopAfter) =>
        StopsAfter(logChannel'[Stopper], LinesOf(Stopper), stopAfter)
  <2>1. CASE Stopper = p
    BY <1>1, <2>1, StopStaysBehind
  <2>2. CASE Stopper # p
    BY <1>1, <2>2, RunLogAssumption
  <2> QED BY <2>1, <2>2
<1>4. LinesOf(Stopper)' = LinesOf(Stopper)
  BY <1>1 DEF LinesOf
<1>5. StopEndsLog'
  BY <1>1, <1>4 DEF StopInv, StopEndsLog
<1>6. \A q \in Loggers \ {Stopper} : NoStop(logChannel'[q])
  BY <1>2 DEF StopInv
<1>7. stopAfter' = NotAsked => boardActive' /\ NoStop(logChannel'[Stopper])
  BY <1>1, <1>2, RunLogAssumption DEF StopInv
<1>8. stopAfter' # NotAsked /\ boardActive' =>
        StopsAfter(logChannel'[Stopper], LinesOf(Stopper)', stopAfter')
  BY <1>1, <1>3, <1>4 DEF StopInv
<1> QED BY <1>5, <1>6, <1>7, <1>8 DEF StopInv, NoStop, StopsAfter, Entries, NotAsked

LEMMA ReceiveKeepsStop ==
  ASSUME RunLogTypeOK, StopInv, NEW p \in Loggers, NEW l \in Entry, Receives(p, l)
  PROVE  StopInv'
<1>1. /\ logChannel[p] \in Seq(LogMessages) /\ RestOf(logChannel[p], logChannel'[p])
      /\ logChannel[p][1].tag # "StopBlackboard"
      /\ \A q \in Loggers \ {p} : logChannel'[q] = logChannel[q]
      /\ l.by = p /\ l \in LogLines /\ Extends(logFile, l, logFile')
      /\ boardActive
      /\ UNCHANGED <<logIsOpen, boardActive, stopAfter>>
  BY DEF RunLogTypeOK, Receives, LogLines
<1>2. \A q \in Loggers : NoStop(logChannel[q]) => NoStop(logChannel'[q])
  <2>1. NoStop(logChannel[p]) => NoStop(logChannel'[p])
    BY <1>1, NoStopTail
  <2> QED BY <1>1, <2>1
<1>3. StopsAfter(logChannel[Stopper], LinesOf(Stopper), stopAfter) =>
        StopsAfter(logChannel'[Stopper], LinesOf(Stopper)', stopAfter)
  <2>1. CASE Stopper = p
    <3>1. LinesOf(p)' = LinesOf(p) \cup {Len(logFile) + 1}
      BY <1>1, LinesGrow
    <3>2. Cardinality(LinesOf(p)) \in Nat /\ Cardinality(LinesOf(p)') = Cardinality(LinesOf(p)) + 1
      BY <3>1, LinesType, CountGrows
    <3> QED BY <1>1, <2>1, <3>2, StopComesForward
  <2>2. CASE Stopper # p
    <3>1. LinesOf(Stopper)' = LinesOf(Stopper)
      BY <1>1, <2>2, LinesGrow
    <3> QED BY <1>1, <2>2, <3>1, RunLogAssumption
  <2> QED BY <2>1, <2>2
<1>4. StopEndsLog'
  <2>1. /\ DOMAIN logFile' = 1..Len(logFile) + 1 /\ Len(logFile) \in Nat /\ DOMAIN logFile = 1..Len(logFile)
        /\ logFile'[Len(logFile) + 1] = l
        /\ \A i \in 1..Len(logFile) : logFile'[i] = logFile[i]
    BY <1>1 DEF Extends, RunLogTypeOK
  <2>2. \A i \in 1..Len(logFile) : logFile[i].by # "blackboard"
    BY <1>1, <2>1 DEF StopInv, StopEndsLog
  <2>3. l.by # "blackboard"
    BY <1>1, RunLogAssumption
  <2>4. \A i \in 1..Len(logFile) + 1 : i \in 1..Len(logFile) \/ i = Len(logFile) + 1
    BY <2>1
  <2>5. \A i \in DOMAIN logFile' : logFile'[i].by # "blackboard"
    BY <2>1, <2>2, <2>3, <2>4
  <2> QED BY <1>1, <2>5 DEF StopEndsLog
<1>6. \A q \in Loggers \ {Stopper} : NoStop(logChannel'[q])
  BY <1>2 DEF StopInv
<1>7. stopAfter' = NotAsked => boardActive' /\ NoStop(logChannel'[Stopper])
  BY <1>1, <1>2, RunLogAssumption DEF StopInv
<1>8. stopAfter' # NotAsked /\ boardActive' =>
        StopsAfter(logChannel'[Stopper], LinesOf(Stopper)', stopAfter')
  BY <1>1, <1>3 DEF StopInv
<1> QED BY <1>4, <1>6, <1>7, <1>8 DEF StopInv, NoStop, StopsAfter, Entries, NotAsked

-----------------------------------------------------------------------------
\* The controller asks the blackboard to stop.
LEMMA AskKeepsInv ==
  ASSUME RunLogInv, AskToStop
  PROVE  RunLogInv'
<1> DEFINE q == logChannel[Stopper]
           r == logChannel'[Stopper]
           m == [tag |-> "StopBlackboard"]
<1>0. RunLogTypeOK /\ SentInv /\ LogInOrder /\ StopInv
  BY DEF RunLogInv
<1>1. /\ stopAfter = NotAsked /\ stopAfter' = logCount[Stopper]
      /\ UNCHANGED <<logCount, logFile, logIsOpen, boardActive>>
      /\ logCount[Stopper] \in Nat /\ logCount[Stopper] <= MaxEntries
  BY <1>0, RunLogAssumption DEF AskToStop, RunLogTypeOK
<1>2. m \in LogMessages /\ m.tag = "StopBlackboard"
  BY DEF LogMessages
<1> HIDE DEF m
<1>3. /\ logChannel' = [logChannel EXCEPT ![Stopper] = Append(@, m)]
      /\ logChannel \in [Loggers -> Seq(LogMessages)]
  BY <1>0 DEF AskToStop, RunLogTypeOK, m
<1>4. /\ q \in Seq(LogMessages) /\ r = Append(q, m)
      /\ \A p \in Loggers \ {Stopper} : logChannel'[p] = logChannel[p]
      /\ logChannel' \in [Loggers -> Seq(LogMessages)]
  BY <1>2, <1>3, RunLogAssumption
<1>5. Extends(q, m, r)
  BY <1>4 DEF Extends
<1>6. /\ Entries(r) = Entries(q) /\ \A i \in Entries(q) : r[i] = q[i]
      /\ r[Len(q) + 1] = m /\ Len(r) = Len(q) + 1 /\ Len(q) \in Nat
      /\ \A i \in 1..Len(q) : r[i] = q[i]
  <2>1. \A i \in 1..Len(q) : r[i] = q[i]
    BY <1>4
  <2>2. Entries(r) = Entries(q) /\ Entries(q) \subseteq 1..Len(q)
    BY <1>2, <1>4, <1>5, EntriesAppend, EntriesType
  <2>3. Len(q) \in Nat /\ Len(r) = Len(q) + 1 /\ r[Len(q) + 1] = m
    BY <1>2, <1>4
  <2> QED BY <2>1, <2>2, <2>3
<1>7. LinesOf(Stopper)' = LinesOf(Stopper) /\ \A p : LinesOf(p)' = LinesOf(p)
  BY <1>1 DEF LinesOf
<1>8. RunLogTypeOK'
  BY <1>0, <1>1, <1>4 DEF RunLogTypeOK
<1>9. SentInv'
  <2>1. \A i \in 1..Len(q) + 1 : IsSent(Stopper, r[i])
    <3>1. \A i \in 1..Len(q) + 1 : i \in 1..Len(q) \/ i = Len(q) + 1
      BY <1>6
    <3>2. IsSent(Stopper, m)
      BY <1>2 DEF IsSent
    <3>3. \A i \in 1..Len(q) : IsSent(Stopper, q[i])
      BY <1>0, RunLogAssumption DEF SentInv
    <3> QED BY <1>6, <3>1, <3>2, <3>3
  <2> HIDE DEF IsSent
  <2>2. ASSUME NEW p \in Loggers, NEW i \in 1..Len(logChannel'[p]) PROVE IsSent(p, logChannel'[p][i])
    <3>1. CASE p = Stopper
      BY <1>6, <2>1, <2>2, <3>1
    <3>2. CASE p # Stopper
      BY <1>0, <1>4, <2>2, <3>2 DEF SentInv
    <3> QED BY <3>1, <3>2
  <2> QED BY <2>2 DEF SentInv, IsSent
<1>10. LogInOrder'
  <2>1. \A p \in Loggers : InOrder(logChannel[p], logFile, LinesOf(p), logCount[p])
    BY <1>0, OrderOf
  <2>2. InOrder(r, logFile, LinesOf(Stopper), logCount[Stopper])
    <3>1. InOrder(q, logFile, LinesOf(Stopper), logCount[Stopper])
      BY <2>1, RunLogAssumption
    <3> QED BY <1>6, <3>1 DEF InOrder
  <2>3. ASSUME NEW p \in Loggers PROVE InOrder(logChannel'[p], logFile', LinesOf(p)', logCount'[p])
    <3>1. CASE p = Stopper
      BY <1>1, <1>7, <2>2, <3>1
    <3>2. CASE p # Stopper
      BY <1>1, <1>4, <1>7, <2>1, <3>2
    <3> QED BY <3>1, <3>2
  <2> QED BY <2>3 DEF LogInOrder, InOrder, LinesOf
<1>11. StopInv'
  <2>1. NoStop(q) /\ boardActive /\ StopEndsLog
    BY <1>0, <1>1 DEF StopInv
  <2>2. logCount[Stopper] = Cardinality(LinesOf(Stopper)) + Cardinality(Entries(q))
    BY <1>0, RunLogAssumption DEF LogInOrder
  <2>3. StopsAfter(r, LinesOf(Stopper), logCount[Stopper])
    BY <1>2, <1>4, <1>5, <2>1, <2>2, StopIsSentBehind
  <2>4. stopAfter' # NotAsked
    BY <1>1, RunLogAssumption DEF NotAsked
  <2>5. StopEndsLog'
    BY <1>1, <2>1 DEF StopEndsLog
  <2>6. \A p \in Loggers \ {Stopper} : NoStop(logChannel'[p])
    BY <1>0, <1>4 DEF StopInv
  <2>7. StopsAfter(logChannel'[Stopper], LinesOf(Stopper)', stopAfter')
    BY <1>1, <1>7, <2>3
  <2> QED BY <2>4, <2>5, <2>6, <2>7 DEF StopInv, NoStop, StopsAfter, Entries, NotAsked
<1> QED BY <1>8, <1>9, <1>10, <1>11 DEF RunLogInv

\* The blackboard takes that message, writes its last line and stops.
LEMMA StopKeepsInv ==
  ASSUME RunLogInv, StopBoard
  PROVE  RunLogInv'
<1> DEFINE q == logChannel[Stopper]
           r == logChannel'[Stopper]
<1>0. RunLogTypeOK /\ SentInv /\ LogInOrder /\ StopInv
  BY DEF RunLogInv
<1>1. /\ logChannel' \in [Loggers -> Seq(LogMessages)]
      /\ q \in Seq(LogMessages) /\ RestOf(q, r) /\ q[1].tag = "StopBlackboard"
      /\ \A p \in Loggers \ {Stopper} : logChannel'[p] = logChannel[p]
      /\ boardActive /\ logIsOpen
  BY <1>0, ReceiveType, RunLogAssumption DEF StopBoard, RunLogTypeOK
<1>2. /\ logFile' = Append(logFile, StopLine) /\ boardActive' = FALSE
      /\ UNCHANGED <<logCount, logIsOpen, stopAfter>>
  BY <1>1 DEF StopBoard, Write
<1>3. StopLine \in LogLines /\ StopLine.by = "blackboard"
  BY DEF LogLines, StopLine
<1>4. Extends(logFile, StopLine, logFile')
  BY <1>2 DEF Extends
<1>5. \A p \in Loggers : LinesOf(p)' = LinesOf(p)
  BY <1>0, <1>3, <1>4, LinesGrow, RunLogAssumption
<1>6. RunLogTypeOK'
  <2>1. logFile' \in Seq(LogLines)
    BY <1>0, <1>2, <1>3 DEF RunLogTypeOK
  <2> QED BY <1>0, <1>1, <1>2, <2>1 DEF RunLogTypeOK
<1>7. SentInv'
  <2>1. \A p \in Loggers : \A i \in 1..Len(logChannel'[p]) : IsSent(p, logChannel'[p][i])
    BY <1>0, <1>1, TakeKeepsSent, RunLogAssumption
  <2> QED BY <2>1 DEF SentInv, IsSent
<1>8. LogInOrder'
  <2>1. \A p \in Loggers : /\ InOrder(logChannel[p], logFile, LinesOf(p), logCount[p])
                           /\ LinesOf(p) \in SUBSET (1..Len(logFile)) /\ logCount[p] \in Nat
    BY <1>0, OrderOf, LinesType DEF RunLogTypeOK
  <2>2. \A p \in Loggers : InOrder(logChannel[p], logFile', LinesOf(p), logCount[p])
    BY <1>0, <1>3, <1>4, <2>1, OrderOfOthers
  <2>3. InOrder(r, logFile', LinesOf(Stopper), logCount[Stopper])
    BY <1>1, <2>1, <2>2, StopKeepsOrder, RunLogAssumption
  <2>4. ASSUME NEW p \in Loggers PROVE InOrder(logChannel'[p], logFile', LinesOf(p)', logCount'[p])
    <3>1. CASE p = Stopper
      BY <1>2, <1>5, <2>3, <3>1
    <3>2. CASE p # Stopper
      BY <1>1, <1>2, <1>5, <2>2, <3>2
    <3> QED BY <3>1, <3>2
  <2> QED BY <2>4 DEF LogInOrder, InOrder, LinesOf
<1>9. StopInv'
  <2>1. stopAfter # NotAsked
    <3>1. 1 \in 1..Len(q) /\ 1 \notin Entries(q)
      BY <1>1, EntriesTail, EntriesType
    <3>2. stopAfter = NotAsked => NoStop(q)
      BY <1>0 DEF StopInv
    <3> QED BY <3>1, <3>2 DEF NoStop
  <2>2. stopAfter = Cardinality(LinesOf(Stopper))
    <3>1. StopsAfter(q, LinesOf(Stopper), stopAfter)
      BY <1>0, <1>1, <2>1 DEF StopInv
    <3>2. Cardinality(LinesOf(Stopper)) \in Nat
      BY <1>0, LinesType
    <3> QED BY <1>1, <3>1, <3>2, StopIsFirst
  <2>3. /\ DOMAIN logFile' = 1..Len(logFile) + 1 /\ Len(logFile') = Len(logFile) + 1 /\ Len(logFile) \in Nat
        /\ logFile'[Len(logFile) + 1] = StopLine
    BY <1>0, <1>2 DEF RunLogTypeOK
  <2>4. Last(logFile') = StopLine
    BY <2>3 DEF Last
  <2>5. Len(logFile) + 1 \in DOMAIN logFile' /\ logFile'[Len(logFile) + 1].by = "blackboard"
    BY <1>3, <2>3
  <2>6. StopEndsLog'
    BY <1>2, <1>5, <2>2, <2>4, <2>5, RunLogAssumption DEF StopEndsLog, StopLine, DateTimeStampPrefix
  <2>7. \A p \in Loggers \ {Stopper} : NoStop(logChannel'[p])
    BY <1>0, <1>1 DEF StopInv
  <2>8. boardActive' = FALSE /\ stopAfter' # NotAsked
    BY <1>2, <2>1
  <2> QED BY <2>6, <2>7, <2>8 DEF StopInv, NoStop, Entries, NotAsked
<1> QED BY <1>6, <1>7, <1>8, <1>9 DEF RunLogInv

-----------------------------------------------------------------------------
LEMMA RunLogStepInv == RunLogInv /\ [RunLogNext]_runLogVars => RunLogInv'
<1> SUFFICES ASSUME RunLogInv, [RunLogNext]_runLogVars PROVE RunLogInv'
  OBVIOUS
<1>0. RunLogTypeOK /\ SentInv /\ LogInOrder /\ StopInv
  BY DEF RunLogInv
<1>1. ASSUME NEW p \in Loggers, NEW kind \in Kind, NEW withID \in BOOLEAN, Log(p, kind, withID)
      PROVE  RunLogInv'
  <2>1. PICK m \in LogMessages : Logs(p, m)
    BY <1>0, <1>1, LogIs
  <2>2. RunLogTypeOK'
    BY <1>0, <1>1, LogIs
  <2>3. SentInv' /\ LogInOrder' /\ StopInv'
    BY <1>0, <2>1, LogKeepsSent, LogIsInOrder, LogKeepsStop
  <2> QED BY <2>2, <2>3 DEF RunLogInv
<1>2. ASSUME NEW p \in Loggers, NEW l \in Entry, Receives(p, l), RunLogTypeOK'
      PROVE  RunLogInv'
  <2>1. /\ RestOf(logChannel[p], logChannel'[p])
        /\ \A q \in Loggers \ {p} : logChannel'[q] = logChannel[q]
    BY <1>2 DEF Receives
  <2>2. \A q \in Loggers : \A i \in 1..Len(logChannel'[q]) : IsSent(q, logChannel'[q][i])
    BY <1>0, <2>1, TakeKeepsSent
  <2>4. SentInv'
    BY <2>2 DEF SentInv, IsSent
  <2>5. LogInOrder' /\ StopInv'
    BY <1>0, <1>2, ReceiveIsInOrder, ReceiveKeepsStop
  <2> QED BY <1>2, <2>4, <2>5 DEF RunLogInv
<1>3. ASSUME NEW p \in Loggers, ReceiveAndLogMessage(p) PROVE RunLogInv'
  BY <1>0, <1>2, <1>3, ReceivesMessage
<1>4. ASSUME NEW p \in Loggers, ReceiveAndLogError(p) PROVE RunLogInv'
  BY <1>0, <1>2, <1>4, ReceivesError
<1>5. CASE AskToStop
  BY <1>5, AskKeepsInv
<1>6. CASE StopBoard
  BY <1>6, StopKeepsInv
<1>7. CASE CloseLog
  <2>1. ~boardActive /\ logIsOpen' = FALSE /\ UNCHANGED <<logCount, logChannel, logFile, boardActive, stopAfter>>
    BY <1>7 DEF CloseLog
  <2>2. RunLogTypeOK'
    BY <1>0, <2>1 DEF RunLogTypeOK
  <2>3. SentInv'
    BY <1>0, <2>1 DEF SentInv, IsSent
  <2>4. LogInOrder'
    BY <1>0, <2>1 DEF LogInOrder, LinesOf
  <2>5. StopInv'
    BY <1>0, <2>1 DEF StopInv, StopEndsLog, LinesOf, NoStop, StopsAfter
  <2> QED BY <2>2, <2>3, <2>4, <2>5 DEF RunLogInv
<1>8. CASE UNCHANGED runLogVars
  <2>1. UNCHANGED <<logCount, logChannel, logFile, logIsOpen, boardActive, stopAfter>>
    BY <1>8 DEF runLogVars
  <2>2. RunLogTypeOK'
    BY <1>0, <2>1 DEF RunLogTypeOK
  <2>3. SentInv'
    BY <1>0, <2>1 DEF SentInv, IsSent
  <2>4. LogInOrder'
    BY <1>0, <2>1 DEF LogInOrder, LinesOf
  <2>5. StopInv'
    BY <1>0, <2>1 DEF StopInv, StopEndsLog, LinesOf, NoStop, StopsAfter
  <2> QED BY <2>2, <2>3, <2>4, <2>5 DEF RunLogInv
<1> QED BY <1>1, <1>3, <1>4, <1>5, <1>6, <1>7, <1>8 DEF RunLogNext

THEOREM RunLogInvCorrect == RunLogSpec => []RunLogInv
<1>1. RunLogInit => RunLogInv
  BY RunLogInitInv
<1>2. RunLogInv /\ [RunLogNext]_runLogVars => RunLogInv'
  BY RunLogStepInv
<1> QED BY <1>1, <1>2, PTL DEF RunLogSpec

\* No entry of the log is lost, repeated or overtaken.
THEOREM LogInOrderCorrect == RunLogSpec => []LogInOrder
<1>1. RunLogInv => LogInOrder
  BY DEF RunLogInv
<1> QED BY <1>1, RunLogInvCorrect, PTL

\* The log ends with the blackboard's own line, behind all that the controller
\* has logged before it asked the blackboard to stop.
THEOREM StopEndsLogCorrect == RunLogSpec => []StopEndsLog
<1>1. RunLogInv => StopEndsLog
  BY DEF RunLogInv, StopInv
<1> QED BY <1>1, RunLogInvCorrect, PTL

=============================================================================
