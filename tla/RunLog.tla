-------------------------------- MODULE RunLog --------------------------------
(***************************************************************************)
(* The run log, from a call of LoggerMPI in a task or in the controller to *)
(* the line in the file of the blackboard: what LogMessage puts before the *)
(* words of an entry, the message that carries it, what the blackboard     *)
(* adds when it receives it, and RunLogMgr, which writes it.               *)
(*                                                                         *)
(* The words of an entry are represented by the rank that logs it and its  *)
(* number among that rank's entries; they do not begin like a prefix.      *)
(***************************************************************************)
EXTENDS Naturals, FiniteSets, SequencesExt

CONSTANTS
  Loggers,      \* the tasks and the controller
  Stopper,      \* the controller
  MaxEntries    \* bound on the entries of one rank

ASSUME RunLogAssumption ==
  Stopper \in Loggers /\ "blackboard" \notin Loggers /\ MaxEntries \in Nat

VARIABLES
  logCount,     \* [Loggers -> number of entries the rank has logged]
  logChannel,   \* [Loggers -> sequence of messages under way to the blackboard]
  logFile,      \* the lines of the file
  logIsOpen,    \* RunLogMgr::ofs.is_open()
  boardActive,  \* Blackboard::Activate has not returned
  stopAfter     \* history: the controller's entries before Tag_StopBlackboard,
                \* or MaxEntries + 1 while it has not sent it

runLogVars == <<logCount, logChannel, logFile, logIsOpen, boardActive, stopAfter>>

Kind == {"Message", "Warning", "Error"}

NotAsked == MaxEntries + 1

RunLogInit ==
  /\ logCount = [p \in Loggers |-> 0]
  /\ logChannel = [p \in Loggers |-> <<>>]
  /\ logFile = <<>>
  /\ logIsOpen = TRUE
  /\ boardActive = TRUE
  /\ stopAfter = NotAsked

-----------------------------------------------------------------------------
\* LogMessage: what comes before the words of an entry, without and with the
\* ID of a task.

DateTimeStampPrefix == <<"DateTime">>

MakePrefix(withID) ==
  IF withID THEN DateTimeStampPrefix \o <<"TaskID">> ELSE DateTimeStampPrefix

Message(withID) == MakePrefix(withID)

\* Without an ID the text that is made is not assigned to the message.
Warning(withID) == IF withID THEN MakePrefix(withID) \o <<"Warning: ">> ELSE <<>>

Error(withID) == MakePrefix(withID) \o <<"ERROR: ">>

\* LoggerMPI: the text and the tag of an entry.
LogText(kind, withID) ==
  CASE kind = "Message" -> Message(withID)
    [] kind = "Warning" -> Warning(withID)
    [] kind = "Error"   -> Error(withID)

LogTag(kind) == IF kind = "Error" THEN "ErrorMessage" ELSE "LogMessage"

\* LoggerMPI::SendMsg.
SendMsg(p, tag, line) ==
  logChannel' = [logChannel EXCEPT ![p] = Append(@, [tag |-> tag, line |-> line])]

\* Message, Warning and Error of LoggerMPI, in rank p.
Log(p, kind, withID) ==
  /\ logCount[p] < MaxEntries
  /\ logCount' = [logCount EXCEPT ![p] = @ + 1]
  /\ SendMsg(p, LogTag(kind),
             [text |-> LogText(kind, withID), by |-> p, num |-> logCount[p] + 1,
              kind |-> kind, withID |-> withID])
  /\ UNCHANGED <<logFile, logIsOpen, boardActive, stopAfter>>

\* Controller::StopBlackboard.
AskToStop ==
  /\ stopAfter = NotAsked
  /\ stopAfter' = logCount[Stopper]
  /\ logChannel' = [logChannel EXCEPT ![Stopper] = Append(@, [tag |-> "StopBlackboard"])]
  /\ UNCHANGED <<logCount, logFile, logIsOpen, boardActive>>

-----------------------------------------------------------------------------
\* RunLogMgr::Write.
Write(line) == logFile' = IF logIsOpen THEN Append(logFile, line) ELSE logFile

\* The message the blackboard's Probe returns is the first of its sender.
ReceiveTagged(p, tag) ==
  /\ boardActive
  /\ logChannel[p] # <<>> /\ Head(logChannel[p]).tag = tag
  /\ logChannel' = [logChannel EXCEPT ![p] = Tail(@)]

ReceiveAndLogMessage(p) ==
  /\ ReceiveTagged(p, "LogMessage")
  /\ Write(Head(logChannel[p]).line)
  /\ UNCHANGED <<logCount, logIsOpen, boardActive, stopAfter>>

\* A mistake in the blackboard: an error is received and not written.
DiscardError(p) ==
  ReceiveTagged(p, "ErrorMessage") /\ UNCHANGED <<logCount, logFile, logIsOpen, boardActive, stopAfter>>

\* The blackboard looks for its own prefix, "Error: ", at the very beginning.
ReceiveAndLogError(p) ==
  /\ ReceiveTagged(p, "ErrorMessage")
  /\ LET line == Head(logChannel[p]).line
     IN  Write(IF line.text # <<>> /\ Head(line.text) = "Error: "
                 THEN line
                 ELSE [line EXCEPT !.text = <<"Error: ">> \o @])
  /\ UNCHANGED <<logCount, logIsOpen, boardActive, stopAfter>>

\* Blackboard::Message, for its last line.
StopLine == [text |-> DateTimeStampPrefix, by |-> "blackboard"]

\* A mistake in the blackboard: it looks for the tag that stops it before it
\* takes the messages in front.
StopAtOnce ==
  /\ boardActive
  /\ \E i \in DOMAIN logChannel[Stopper] :
       /\ logChannel[Stopper][i].tag = "StopBlackboard"
       /\ logChannel' = [logChannel EXCEPT ![Stopper] = RemoveAt(@, i)]
  /\ Write(StopLine)
  /\ boardActive' = FALSE
  /\ UNCHANGED <<logCount, logIsOpen, stopAfter>>

\* Blackboard::Activate returns.
StopBoard ==
  /\ ReceiveTagged(Stopper, "StopBlackboard")
  /\ Write(StopLine)
  /\ boardActive' = FALSE
  /\ UNCHANGED <<logCount, logIsOpen, stopAfter>>

\* ~Blackboard destroys the RunLogMgr, which closes the file.
CloseLog ==
  /\ ~boardActive /\ logIsOpen
  /\ logIsOpen' = FALSE
  /\ UNCHANGED <<logCount, logChannel, logFile, boardActive, stopAfter>>

-----------------------------------------------------------------------------
RunLogNext ==
  \/ \E p \in Loggers :
       \/ \E kind \in Kind, withID \in BOOLEAN : Log(p, kind, withID)
       \/ ReceiveAndLogMessage(p) \/ ReceiveAndLogError(p)
  \/ AskToStop \/ StopBoard \/ CloseLog

RunLogSpec == RunLogInit /\ [][RunLogNext]_runLogVars

-----------------------------------------------------------------------------
\* The lines of a rank in the file, and the entries in a channel.
LinesOf(p) == {i \in DOMAIN logFile : logFile[i].by = p}

Entries(channel) == {i \in DOMAIN channel : channel[i].tag # "StopBlackboard"}

UpTo(positions, i) == {j \in positions : j <= i}

\* No entry is lost, repeated or overtaken by a later one of the same rank: the
\* lines of a rank in the file, then its messages that nobody has received, are
\* all that the rank has logged, each as often and in the place in which it was
\* logged (SendMsg, and the cases of Blackboard::Activate that receive).
LogInOrder ==
  \A p \in Loggers :
    LET entries == Entries(logChannel[p])
        written == Cardinality(LinesOf(p))
    IN  /\ \A i \in LinesOf(p) : logFile[i].num = Cardinality(UpTo(LinesOf(p), i))
        /\ \A i \in entries :
             logChannel[p][i].line.num = written + Cardinality(UpTo(entries, i))
        /\ logCount[p] = written + Cardinality(entries)

\* When the blackboard has stopped, the log holds all that the controller has
\* logged before it asked for that, nothing that it logged later, such as
\* "Controller stopped." (Controller.cpp:191), and the blackboard's own line
\* behind everything else.
StopEndsLog ==
  /\ boardActive <=> \A i \in DOMAIN logFile : logFile[i].by # "blackboard"
  /\ ~boardActive =>
       /\ Cardinality(LinesOf(Stopper)) = stopAfter
       /\ Last(logFile) = StopLine

-----------------------------------------------------------------------------
\* A claim that the code does not keep.

\* "Create a warning log message. The input value for msg is replaced."
\* (LogMessage.h:35): what the file has of a warning says when it was made and
\* that it is a warning, also when no ID of a task is given.
WarningsAreMarked ==
  \A i \in DOMAIN logFile :
    LET line == logFile[i]
    IN  line.by # "blackboard" /\ line.kind = "Warning" =>
          {"DateTime", "Warning: "} \subseteq ToSet(line.text)

=============================================================================
