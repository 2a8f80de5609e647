---------------------------- MODULE QuorumProofs ----------------------------
(***************************************************************************)
(* Theorems about what the servers of module PBFT tell clients and each    *)
(* other after the prepare phase: replies, executions and checkpoints.     *)
(***************************************************************************)
EXTENDS PBFTProofs, FiniteSetTheorems

-----------------------------------------------------------------------------
(* The goroutines a step starts.                                            *)

\* Jobs are added to one server's outbox.
LEMMA JobsAdded ==
  ASSUME TypeOK, NEW s \in Server, NEW jobs,
         outbox' = [outbox EXCEPT ![s] = @ \cup jobs]
  PROVE  \A t \in Server : \A job \in outbox'[t] :
           job \in outbox[t] \/ (t = s /\ job \in jobs)
  BY DEF TypeOK, NetType

LEMMA ExitJobs ==
  ASSUME TypeOK, NEW s \in Server, Exit(s)
  PROVE  \A t \in Server : outbox'[t] \subseteq outbox[t]
  BY DEF Exit, TypeOK, NetType

\* The reply and the checkpoint message of a commit.
CommitReply(s, n, asked) ==
  [phase |-> "REPLY_TO_CLIENT", args |-> Reply(s, n, serverLog[s][n].message, asked)]

\* A pre-prepare its receivers have no reason to refuse.
Genuine(t, q) ==
  /\ Digest[q.args.arg.Message] = q.args.arg.Digest
  /\ SigCarried => verifySignatures(q.args, t)

\* Where addLogEntry may find a slot processed: at the number the leader has come to, and
\* where a pre-prepare has come in.
StartedAgain(t, n) ==
  \/ leader(view[t]) = t /\ n = sequenceNumber[t]
  \/ \E m \in msgs : m.to = t /\ Announces(m, n)

\* A new job is a command or a commit, the leader's pre-prepare, a server's own prepare
\* for a pre-prepare it got, the reply to a processed entry, or what HandleCommitRPC
\* starts for a valid commit.
JobOrigin(t, job) ==
  \/ job.phase \in {"FORWARD_COMMAND", "COMMIT"}
  \/ job.phase = "PRE_PREPARE" /\ leader(view[t]) = t /\ Genuine(t, job)
  \/ /\ job.phase = "PREPARE" /\ job.args.arg.SenderIndex = t
     /\ \E m \in msgs : m.to = t /\ m.phase = "PRE_PREPARE"
  \/ \E n \in Slot :
       Processed(t, n) /\ StartedAgain(t, n) /\ \E c : job = CommitReply(t, n, c)
  \/ \E m \in msgs :
       LET n == m.args.arg.SequenceNumber
       IN /\ HandleCommitRPC(t, m) /\ ValidCommit(t, m.args)
          /\ (\E c : job = CommitReply(t, n, c)) \/ job = makeCheckpoint(t, n)

LEMMA StartJobs ==
  ASSUME TypeOK, NEW s \in Server, NEW c, StartBody(s, c)
  PROVE  \A t \in Server : \A job \in outbox'[t] :
           job \in outbox[t] \/ JobOrigin(t, job)
  <1>1. CASE StartForward(s, c)
    <2> DEFINE J == {[phase |-> "FORWARD_COMMAND", args |-> makeArguments(s, "Command", c)]}
    <2>1. outbox' = [outbox EXCEPT ![s] = @ \cup J]
      BY <1>1 DEF StartForward
    <2>2. \A job \in J : job.phase = "FORWARD_COMMAND"
      OBVIOUS
    <2> HIDE DEF J
    <2> QED BY <2>1, <2>2, JobsAdded DEF JobOrigin
  <1>2. CASE StartDrop(s, c)
    BY <1>2 DEF StartDrop
  <1>3. CASE StartPrePrepare(s, c)
    <2> DEFINE v == view[s]
               n == sequenceNumber[s]
               arg == [View |-> v, SequenceNumber |-> n, Digest |-> Digest[c], Message |-> c]
               J == {[phase |-> "PRE_PREPARE",
                      args |-> makeArguments(s, "PrePrepareCommandArg", arg)]}
                    \cup RepeatedReply(s, v, n, c)
    <2>1. outbox' = [outbox EXCEPT ![s] = @ \cup J] /\ n \in Slot /\ leader(view[s]) = s
      BY <1>3 DEF StartPrePrepare
    <2>2. \A job \in J :
            \/ job.phase = "PRE_PREPARE" /\ Genuine(s, job)
            \/ Processed(s, n) /\ job = CommitReply(s, n, c)
      BY DEF RepeatedReply, CommitReply, Genuine, makeArguments, verifySignatures
    <2>3. StartedAgain(s, n)
      BY <2>1 DEF StartedAgain
    <2> HIDE DEF J, n
    <2> QED BY <2>1, <2>2, <2>3, JobsAdded DEF JobOrigin
  <1> QED BY <1>1, <1>2, <1>3 DEF StartBody

LEMMA PrePrepareJobs ==
  ASSUME TypeOK, NEW s \in Server, NEW m \in msgs, HandlePrePrepareRPC(s, m)
  PROVE  \A t \in Server : \A job \in outbox'[t] :
           job \in outbox[t] \/ JobOrigin(t, job)
  <1> DEFINE v == m.args.arg.View
             n == m.args.arg.SequenceNumber
             J == IF ValidPrePrepare(s, m.args) /\ addLogEntry(s, v, n)
                  THEN {[phase |-> "PREPARE",
                         args |-> makeArguments(s, "PrepareCommandArg",
                                                Vote(v, n, m.args.arg.Digest, s, 0))]}
                  ELSE IF ValidPrePrepare(s, m.args)
                       THEN RepeatedReply(s, v, n, m.args.arg.Message) ELSE {}
  <1>1. n \in Slot
    BY MessageFields DEF HandlePrePrepareRPC, Handles, TypeOK, PrePrepareArg
  <1>2. outbox' = [outbox EXCEPT ![s] = @ \cup J]
    BY DEF HandlePrePrepareRPC
  <1>3. \A job \in J :
          \/ job.phase = "PREPARE" /\ job.args.arg.SenderIndex = s
          \/ Processed(s, n) /\ job = CommitReply(s, n, m.args.arg.Message)
    BY DEF RepeatedReply, CommitReply, makeArguments, Vote
  <1>4. m.to = s /\ m.phase = "PRE_PREPARE" /\ StartedAgain(s, n)
    BY DEF HandlePrePrepareRPC, Handles, StartedAgain, Announces
  <1> HIDE DEF J, n
  <1> QED BY <1>1, <1>2, <1>3, <1>4, JobsAdded DEF JobOrigin

LEMMA PrepareJobs ==
  ASSUME TypeOK, NEW s \in Server, NEW m \in msgs, HandlePrepareRPC(s, m)
  PROVE  \A t \in Server : \A job \in outbox'[t] :
           job \in outbox[t] \/ JobOrigin(t, job)
  <1> DEFINE n == m.args.arg.SequenceNumber
             J == IF EntersCommitPhase(RecordPrepare(serverLog[s][n], m.args.arg))
                  THEN {[phase |-> "COMMIT",
                         args |-> makeArguments(s, CommitType,
                                    Vote(view[s], n, m.args.arg.Digest, s,
                                         m.args.arg.SenderIndex))]}
                  ELSE {}
  <1>1. outbox' = outbox \/ outbox' = [outbox EXCEPT ![s] = @ \cup J]
    BY DEF HandlePrepareRPC
  <1>2. \A job \in J : job.phase = "COMMIT"
    OBVIOUS
  <1> HIDE DEF J
  <1> QED BY <1>1, <1>2, JobsAdded DEF JobOrigin

LEMMA CommitJobs ==
  ASSUME TypeOK, NEW s \in Server, NEW m \in msgs, HandleCommitRPC(s, m)
  PROVE  \A t \in Server : \A job \in outbox'[t] :
           job \in outbox[t] \/ JobOrigin(t, job)
  <1> DEFINE n == m.args.arg.SequenceNumber
             c == serverLog[s][n].message
             J == {CommitReply(s, n, c)} \cup
                  IF TakesCheckPoint(n) THEN {makeCheckpoint(s, n)} ELSE {}
  <1>1. CASE ~ValidCommit(s, m.args)
    BY <1>1 DEF HandleCommitRPC
  <1>2. CASE ValidCommit(s, m.args)
    <2>1. outbox' = [outbox EXCEPT ![s] = @ \cup J]
      BY <1>2 DEF HandleCommitRPC, CommitReply
    <2>2. \A job \in J : job \in {CommitReply(s, n, c), makeCheckpoint(s, n)}
      OBVIOUS
    <2> HIDE DEF J, c
    <2> QED BY <1>2, <2>1, <2>2, JobsAdded DEF JobOrigin
  <1> QED BY <1>1, <1>2

\* So it is of every step.
LEMMA NewJobs ==
  ASSUME TypeOK, [Next]_vars
  PROVE  \A t \in Server : \A job \in outbox'[t] :
           job \in outbox[t] \/ JobOrigin(t, job)
  <1> DEFINE Goal == \A t \in Server : \A job \in outbox'[t] :
                       job \in outbox[t] \/ JobOrigin(t, job)
  <1>1. CASE UNCHANGED outbox
    BY <1>1
  <1>2. ASSUME NEW s \in Server, Exit(s)
        PROVE  Goal
    BY <1>2, ExitJobs
  <1>3. ASSUME NEW s \in Server, NEW job \in outbox[s],
               sendRPCs(s, job) \/ replyToClient(s, job), ~Exit(s)
        PROVE  Goal
    <2>1. outbox' = [outbox EXCEPT ![s] = @ \ {job}]
      BY <1>3 DEF sendRPCs, replyToClient
    <2> QED BY <2>1 DEF TypeOK, NetType
  <1>4. ASSUME NEW s \in Server, NEW m \in msgs,
               \/ EnterHandler(s, m) \/ HandleCommitRPC_Fatal(s, m)
               \/ HandleCheckPointRPC_Check(s, m), ~Exit(s)
        PROVE  Goal
    BY <1>1, <1>4 DEF EnterHandler, HandleCommitRPC_Fatal, HandleCheckPointRPC_Check
  <1>5. ASSUME NEW s \in Server, ~Exit(s),
               \/ \E a \in checking[s] : HandleCheckPointRPC_Record(s, a)
               \/ Crash(s) \/ HandleCommitRPC_Save(s) \/ Make(s)
        PROVE  Goal
    BY <1>1, <1>5 DEF HandleCheckPointRPC_Record, Crash,
                      HandleCommitRPC_Save, Make, netVars
  <1>6. CASE UNCHANGED vars
    BY <1>1, <1>6 DEF vars, netVars
  <1> HIDE DEF Goal
  <1>7. Goal
    BY <1>2, <1>3, <1>4, <1>5, <1>6, StartJobs, PrePrepareJobs, PrepareJobs, CommitJobs
    DEF Next, Start, ReceiveForwardedCommand, Goroutine, Handler, GatedHandler, Goal
  <1> QED BY <1>7 DEF Goal

\* The three handlers forward no command and announce none.
LEMMA HandlersStartNothing ==
  ASSUME TypeOK, NEW s \in Server, NEW m \in msgs,
         HandlePrePrepareRPC(s, m) \/ HandlePrepareRPC(s, m) \/ HandleCommitRPC(s, m)
  PROVE  /\ \A t \in Server : \A job \in outbox'[t] :
              \/ job \in outbox[t]
              \/ job.phase # "FORWARD_COMMAND" /\ job.phase # "PRE_PREPARE"
         /\ msgs' \subseteq msgs /\ submitted' = submitted
  <1> DEFINE n == m.args.arg.SequenceNumber
             Prepares == {[phase |-> "PREPARE",
                           args |-> makeArguments(s, "PrepareCommandArg",
                             Vote(m.args.arg.View, n, m.args.arg.Digest, s, 0))]}
             Commits == {[phase |-> "COMMIT",
                          args |-> makeArguments(s, CommitType,
                                     Vote(view[s], n, m.args.arg.Digest, s,
                                          m.args.arg.SenderIndex))]}
             Replies == {CommitReply(s, n, serverLog[s][n].message)} \cup
                        IF TakesCheckPoint(n) THEN {makeCheckpoint(s, n)} ELSE {}
             J == Prepares \cup Commits \cup Replies
                    \cup RepeatedReply(s, m.args.arg.View, n, m.args.arg.Message)
  <1>1. msgs' \subseteq msgs /\ submitted' = submitted
    BY DEF HandlePrePrepareRPC, HandlePrepareRPC, HandleCommitRPC, Handles, envVars
  <1>2. \A job \in J : job.phase # "FORWARD_COMMAND" /\ job.phase # "PRE_PREPARE"
    BY DEF CommitReply, makeCheckpoint, RepeatedReply
  <1>3. \E K \in SUBSET J : outbox' = [outbox EXCEPT ![s] = @ \cup K]
    <2>1. outbox = [outbox EXCEPT ![s] = @ \cup {}]
      BY DEF TypeOK, NetType
    <2>2. CASE HandlePrePrepareRPC(s, m)
      <3>1. \/ outbox' = [outbox EXCEPT ![s] = @ \cup Prepares]
            \/ outbox' = [outbox EXCEPT
                            ![s] = @ \cup RepeatedReply(s, m.args.arg.View, n,
                                                        m.args.arg.Message)]
            \/ outbox' = [outbox EXCEPT ![s] = @ \cup {}]
        BY <2>2 DEF HandlePrePrepareRPC
      <3> HIDE DEF Prepares, Commits, Replies
      <3> QED BY <3>1
    <2>3. CASE HandlePrepareRPC(s, m)
      <3>1. \/ outbox' = [outbox EXCEPT ![s] = @ \cup Commits]
            \/ outbox' = [outbox EXCEPT ![s] = @ \cup {}]
        BY <2>1, <2>3 DEF HandlePrepareRPC
      <3> HIDE DEF Prepares, Commits, Replies
      <3> QED BY <3>1
    <2>4. CASE HandleCommitRPC(s, m)
      <3>1. \/ outbox' = [outbox EXCEPT ![s] = @ \cup Replies]
            \/ outbox' = [outbox EXCEPT ![s] = @ \cup {}]
        BY <2>1, <2>4 DEF HandleCommitRPC, CommitReply
      <3> HIDE DEF Prepares, Commits, Replies
      <3> QED BY <3>1
    <2> QED BY <2>2, <2>3, <2>4
  <1> HIDE DEF J
  <1>4. PICK K \in SUBSET J : outbox' = [outbox EXCEPT ![s] = @ \cup K]
    BY <1>3
  <1> QED BY <1>1, <1>2, <1>4, JobsAdded

-----------------------------------------------------------------------------
(* Nothing is executed.                                                     *)

\* A COMMIT message has the type CommitType.
LEMMA CommitMessageType ==
  ASSUME NetType, NEW m \in msgs, m.phase = "COMMIT"
  PROVE  m.args.type = CommitType
  <1> DEFINE q == [phase |-> m.phase, args |-> m.args]
  <1>1. q \in Request /\ q.phase = "COMMIT" /\ q.args = m.args
    BY DEF NetType
  <1> HIDE DEF q
  <1>2. q.args \in Signed(CommitType, VoteArg)
    BY <1>1 DEF Request
  <1> QED BY <1>1, <1>2 DEF Signed

\* What NothingExecuted says, of commit messages that are none.
Idle ==
  \A s \in Server :
    /\ commandExecuted[s] = 0
    /\ lastCheckPointSeqNumber[s] = 0 /\ disk[s].lastCheckPointSeqNumber = 0
    /\ \A c \in Client : clientRegisters[s][c] = 0
    /\ \A n \in Slot : checkPoints[s][n] = NoCheckPoint
    /\ \A job \in outbox[s] : job.phase # "CHECK_POINT"

\* A step that leaves them alone and saves no other checkpoint number.
LEMMA IdleKept ==
  ASSUME Idle, UNCHANGED <<commandExecuted, lastCheckPointSeqNumber, clientRegisters,
                           checkPoints>>,
         \A s \in Server :
           /\ disk'[s].lastCheckPointSeqNumber = 0
           /\ \A job \in outbox'[s] : job \in outbox[s] \/ job.phase # "CHECK_POINT"
  PROVE  Idle'
  BY DEF Idle

\* Saving with the checkpoint number of this server.
LEMMA SavesZero ==
  ASSUME TypeOK, Idle, NEW s \in Server, NEW seq, persist(s, seq, lastCheckPointSeqNumber[s])
  PROVE  \A t \in Server : disk'[t].lastCheckPointSeqNumber = 0
  BY DEF TypeOK, EnvType, Idle, persist, SavePBFTState

LEMMA IdleStep ==
  ASSUME CommitType # "PrepareCommandArg", TypeOK, Idle, [Next]_vars
  PROVE  Idle'
  <1>1. ~\E s \in Server, m \in msgs : HandleCommitRPC(s, m)
    BY CommitMessageType DEF HandleCommitRPC, Handles, AssertsCommit, TypeOK
  <1>2. \A t \in Server : \A job \in outbox'[t] :
          job \in outbox[t] \/ job.phase # "CHECK_POINT"
    BY <1>1, NewJobs DEF JobOrigin, CommitReply
  <1>3. CASE UNCHANGED <<disk, commandExecuted, lastCheckPointSeqNumber, clientRegisters,
                         checkPoints>>
    BY <1>2, <1>3, IdleKept DEF Idle
  <1>4. ASSUME NEW s \in Server, Exit(s)
        PROVE  Idle'
    BY <1>3, <1>4 DEF Exit, logVars, chanVars
  <1>5. ASSUME NEW s \in Server, NEW m \in msgs,
               HandlePrePrepareRPC(s, m) \/ HandlePrepareRPC(s, m)
        PROVE  Idle'
    <2>1. UNCHANGED <<commandExecuted, lastCheckPointSeqNumber, clientRegisters,
                      checkPoints>>
      BY <1>5 DEF HandlePrePrepareRPC, HandlePrepareRPC, ckptVars
    <2>2. \A t \in Server : disk'[t].lastCheckPointSeqNumber = 0
      BY <1>5, SavesZero DEF HandlePrePrepareRPC, HandlePrepareRPC, Idle
    <2> QED BY <1>2, <2>1, <2>2, IdleKept
  <1>10. ASSUME NEW s \in Server, HandleCommitRPC_Save(s)
         PROVE  Idle'
    <2>1. UNCHANGED <<commandExecuted, lastCheckPointSeqNumber, clientRegisters,
                      checkPoints>>
      BY <1>10 DEF HandleCommitRPC_Save, logVars, ckptVars, chanVars
    <2>2. \A t \in Server : disk'[t].lastCheckPointSeqNumber = 0
      BY <1>10, SavesZero DEF HandleCommitRPC_Save
    <2> QED BY <1>2, <2>1, <2>2, IdleKept
  <1>6. ASSUME NEW s \in Server, NEW a \in checking[s], HandleCheckPointRPC_Record(s, a)
        PROVE  Idle'
    <2>1. a.SequenceNumber \in Slot
      BY DEF TypeOK, CkptType, CheckPointArg
    <2>2. Exit(s)
      BY <1>6, <2>1 DEF HandleCheckPointRPC_Record, Idle
    <2> QED BY <1>4, <2>2
  <1>7. ASSUME NEW s \in Server, Make(s), ~Exit(s)
        PROVE  Idle'
    <2>1. /\ UNCHANGED <<disk, outbox>>
          /\ commandExecuted' = [commandExecuted EXCEPT ![s] = 0]
          /\ lastCheckPointSeqNumber' = [lastCheckPointSeqNumber EXCEPT
               ![s] = disk[s].lastCheckPointSeqNumber]
          /\ clientRegisters' = [clientRegisters EXCEPT ![s] = [c \in Client |-> 0]]
          /\ checkPoints' = [checkPoints EXCEPT ![s] = [n \in Slot |-> NoCheckPoint]]
      BY <1>7 DEF Make, readPersist, netVars
    <2> QED BY <2>1 DEF Idle, TypeOK, LogType, CkptType, ChanType
  <1>8. ASSUME NEW s \in Server, ~Exit(s),
               \/ \E c : StartBody(s, c)
               \/ Goroutine(s) \/ Crash(s)
               \/ \E m \in msgs :
                    \/ EnterHandler(s, m) \/ HandleCommitRPC_Fatal(s, m)
                    \/ HandleCheckPointRPC_Check(s, m)
        PROVE  Idle'
    BY <1>3, <1>8
    DEF StartBody, Goroutine, sendRPCs, replyToClient, Crash, EnterHandler,
        HandleCommitRPC_Fatal, HandleCheckPointRPC_Check, logVars, ckptVars, chanVars
  <1>9. CASE UNCHANGED vars
    BY <1>3, <1>9 DEF vars, logVars, ckptVars, chanVars
  <1> QED BY <1>1, <1>4, <1>5, <1>6, <1>7, <1>8, <1>9, <1>10
          DEF Next, Start, ReceiveForwardedCommand, Handler, GatedHandler

\* No command is executed by servers that send the COMMIT message their own code
\* makes, for any number of servers, commands, crashes and restarts.
THEOREM NothingExecutedCorrect == Spec => []NothingExecuted
  <1>1. CASE CommitType = "PrepareCommandArg"
    <2>1. TypeOK => NothingExecuted
      BY <1>1 DEF NothingExecuted
    <2> QED BY <2>1, TypeCorrect, PTL
  <1>2. CASE CommitType # "PrepareCommandArg"
    <2>1. Init => Idle
      BY DEF Init, Idle
    <2>2. TypeOK /\ Idle /\ [Next]_vars => Idle'
      BY <1>2, IdleStep
    <2>3. Idle => NothingExecuted
      BY DEF Idle, NothingExecuted
    <2> QED BY <2>1, <2>2, <2>3, TypeCorrect, PTL DEF Spec
  <1> QED BY <1>1, <1>2

-----------------------------------------------------------------------------
(* What a log entry holds: one prepare of each sender, and no commit but the    *)
(* server's own, which it makes when it has a prepare.                          *)

SoundEntry(s, e) ==
  /\ \A p, q \in e.prepareArgs : p.SenderIndex = q.SenderIndex => p = q
  /\ e.commitArgs \subseteq {s}
  /\ e.commitArgs # {} => e.prepareArgs # {}

SoundLogs == \A s \in Server, n \in Slot : Logged(s, n) => SoundEntry(s, serverLog[s][n])

\* One entry is replaced by a sound one.
LEMMA EntryWritten ==
  ASSUME TypeOK, SoundLogs, NEW s \in Server, NEW n \in Slot, NEW e, SoundEntry(s, e),
         serverLog' = [serverLog EXCEPT ![s][n] = e]
  PROVE  SoundLogs'
  <1>1. \A t \in Server, k \in Slot :
          serverLog'[t][k] = IF t = s /\ k = n THEN e ELSE serverLog[t][k]
    BY DEF TypeOK, LogType
  <1> QED BY <1>1 DEF SoundLogs, Logged

LEMMA NewEntrySound ==
  ASSUME NEW s, NEW v, NEW c, NEW d, NEW p
  PROVE  /\ SoundEntry(s, logEntry(v, c, d))
         /\ SoundEntry(s, [logEntry(v, c, d) EXCEPT !.prepareArgs = {p}])
  BY DEF SoundEntry, logEntry

LEMMA SoundStep ==
  ASSUME TypeOK, SoundLogs, [Next]_vars
  PROVE  SoundLogs'
  <1>1. CASE UNCHANGED serverLog
    BY <1>1 DEF SoundLogs, Logged
  <1>2. ASSUME NEW s \in Server, NEW c, StartBody(s, c)
        PROVE  SoundLogs'
    <2>1. \/ UNCHANGED serverLog
          \/ /\ sequenceNumber[s] \in Slot
             /\ serverLog' = [serverLog EXCEPT ![s][sequenceNumber[s]] =
                                logEntry(view[s], c, Digest[c])]
      BY <1>2 DEF StartBody, StartForward, StartDrop, StartPrePrepare
    <2> QED BY <1>1, <2>1, NewEntrySound, EntryWritten
  <1>3. ASSUME NEW s \in Server, NEW m \in msgs, HandlePrePrepareRPC(s, m)
        PROVE  SoundLogs'
    <2> DEFINE a == m.args.arg
               vote == Vote(a.View, a.SequenceNumber, a.Digest, s, 0)
               e == [logEntry(a.View, a.Message, a.Digest) EXCEPT !.prepareArgs = {vote}]
    <2>1. a.SequenceNumber \in Slot
      BY <1>3, MessageFields DEF HandlePrePrepareRPC, Handles, TypeOK, PrePrepareArg
    <2>2. UNCHANGED serverLog \/ serverLog' = [serverLog EXCEPT ![s][a.SequenceNumber] = e]
      BY <1>3 DEF HandlePrePrepareRPC
    <2>3. SoundEntry(s, e)
      <3> HIDE DEF vote
      <3> QED BY NewEntrySound
    <2> HIDE DEF a, e
    <2> QED BY <1>1, <2>1, <2>2, <2>3, EntryWritten
  <1>4. ASSUME NEW s \in Server, NEW m \in msgs, HandlePrepareRPC(s, m)
        PROVE  SoundLogs'
    <2> DEFINE a == m.args.arg
               n == a.SequenceNumber
               entry == serverLog[s][n]
               prepares == RecordPrepare(entry, a)
               e == [entry EXCEPT !.prepareArgs = prepares,
                                  !.commitArgs = IF EntersCommitPhase(prepares)
                                                 THEN @ \cup {s} ELSE @]
    <2>1. CASE ~ValidPrepare(s, m.args)
      BY <1>1, <1>4, <2>1 DEF HandlePrepareRPC
    <2>2. CASE ValidPrepare(s, m.args)
      <3>1. serverLog' = [serverLog EXCEPT ![s][n] = e]
        BY <1>4, <2>2 DEF HandlePrepareRPC
      <3>2. n \in Slot
        BY <1>4, MessageFields DEF HandlePrepareRPC, Handles, TypeOK, VoteArg
      <3>3. /\ Logged(s, n) /\ \A p \in entry.prepareArgs : p.SenderIndex # a.SenderIndex
            /\ prepares = entry.prepareArgs \cup {a}
        BY <2>2 DEF ValidPrepare, Logged, RecordPrepare
      <3>4. entry \in Entry /\ SoundEntry(s, entry)
        BY <3>2, <3>3 DEF SoundLogs, TypeOK, LogType, Logged
      <3> HIDE DEF entry, prepares, a, n
      <3>5. /\ e.prepareArgs = prepares
            /\ e.commitArgs \in {entry.commitArgs, entry.commitArgs \cup {s}}
        BY <3>4 DEF Entry
      <3> HIDE DEF e
      <3>6. SoundEntry(s, e)
        BY <3>3, <3>4, <3>5 DEF SoundEntry
      <3> QED BY <3>1, <3>2, <3>6, EntryWritten
    <2> QED BY <2>1, <2>2
  <1>5. ASSUME NEW s \in Server,
               \/ Goroutine(s) \/ Crash(s) \/ HandleCommitRPC_Save(s)
               \/ \E m \in msgs :
                    \/ EnterHandler(s, m)
                    \/ HandleCommitRPC(s, m) \/ HandleCommitRPC_Fatal(s, m)
                    \/ HandleCheckPointRPC_Check(s, m)
               \/ \E a \in checking[s] : HandleCheckPointRPC_Record(s, a)
        PROVE  SoundLogs'
    <2>1. UNCHANGED serverLog
      BY <1>5 DEF Goroutine, sendRPCs, replyToClient, Crash,
                  HandleCommitRPC_Save, Exit, EnterHandler,
                  HandleCommitRPC, HandleCommitRPC_Fatal, HandleCheckPointRPC_Check,
                  HandleCheckPointRPC_Record, logVars
    <2> QED BY <1>1, <2>1
  <1>6. ASSUME NEW s \in Server, Make(s)
        PROVE  SoundLogs'
    <2>1. \/ UNCHANGED serverLog
          \/ serverLog' = [serverLog EXCEPT ![s] = [n \in Slot |-> NoEntry]]
      BY <1>6 DEF Make, readPersist, Exit, logVars
    <2>2. CASE serverLog' = [serverLog EXCEPT ![s] = [n \in Slot |-> NoEntry]]
      <3>1. \A t \in Server, k \in Slot :
              serverLog'[t][k] = IF t = s THEN NoEntry ELSE serverLog[t][k]
        BY <2>2 DEF TypeOK, LogType
      <3> QED BY <3>1 DEF SoundLogs, Logged
    <2> QED BY <1>1, <2>1, <2>2
  <1>7. CASE UNCHANGED vars
    BY <1>1, <1>7 DEF vars, logVars
  <1> QED BY <1>2, <1>3, <1>4, <1>5, <1>6, <1>7
          DEF Next, Start, ReceiveForwardedCommand, Handler, GatedHandler

LEMMA SoundInit == Init => SoundLogs
  BY DEF Init, SoundLogs, Logged

\* A server counts one prepare of each sender, and of commits only its own, for any
\* number of crashes and restarts.
THEOREM EntriesSound == Spec => []SoundLogs
  BY TypeCorrect, SoundInit, SoundStep, PTL DEF Spec

-----------------------------------------------------------------------------
(* The channels.  Each handler works on its own server's; one that waits for the *)
(* lock has its place in commandRecieved already, and nothing else to show.      *)

Waiters(s) == {m \in waiting : m.to = s}

ChannelsFit(s) ==
  /\ IsFiniteSet(Waiters(s))
  /\ Cardinality(Waiters(s)) + newValidCommad[s] + commandExecuted[s] <= commandRecieved[s]
  /\ commandRecieved[s] <= ChanCap

\* A step that leaves a server's channels alone, and its waiting handlers too or ends
\* them all.
LEMMA FitKept ==
  ASSUME TypeOK, NEW t \in Server, ChannelsFit(t),
         /\ commandRecieved'[t] = commandRecieved[t]
         /\ newValidCommad'[t] = newValidCommad[t]
         /\ commandExecuted'[t] = commandExecuted[t],
         Waiters(t)' = Waiters(t) \/ Waiters(t)' = {}
  PROVE  ChannelsFit(t)'
  <1>1. /\ newValidCommad[t] \in Nat /\ commandExecuted[t] \in Nat
        /\ commandRecieved[t] \in Nat
    BY DEF TypeOK, ChanType
  <1>2. /\ Cardinality(Waiters(t)) \in Nat
        /\ IsFiniteSet({}) /\ Cardinality({}) = 0
    BY FS_CardinalityType, FS_EmptySet DEF ChannelsFit
  <1>3. CASE Waiters(t)' = Waiters(t)
    BY <1>3 DEF ChannelsFit
  <1>4. CASE Waiters(t)' = {}
    <2>1. Cardinality(Waiters(t)') = 0 /\ IsFiniteSet(Waiters(t)')
      BY <1>2, <1>4
    <2> QED BY <1>1, <1>2, <2>1 DEF ChannelsFit
  <1> QED BY <1>3, <1>4

\* What a handler does to the channels: it takes a place in commandRecieved or gives up
\* the one it has been waiting on, and pushes to one of the others at most.
Handling(s, m, phase) ==
  /\ Handles(s, m, phase) /\ CountReceived(s, m)
  /\ \/ UNCHANGED <<newValidCommad, commandExecuted>>
     \/ /\ newValidCommad' = [newValidCommad EXCEPT ![s] = @ + 1]
        /\ UNCHANGED commandExecuted
     \/ /\ commandExecuted' = [commandExecuted EXCEPT ![s] = @ + 1]
        /\ UNCHANGED newValidCommad

LEMMA HandlersPush ==
  ASSUME NEW s, NEW m,
         \/ HandlePrePrepareRPC(s, m) \/ HandlePrepareRPC(s, m) \/ HandleCommitRPC(s, m)
  PROVE  \E phase : Handling(s, m, phase)
  <1>1. CASE HandlePrePrepareRPC(s, m)
    <2>1. Handling(s, m, "PRE_PREPARE")
      BY <1>1 DEF HandlePrePrepareRPC, Handling
    <2> QED BY <2>1
  <1>2. CASE HandlePrepareRPC(s, m)
    <2>1. Handling(s, m, "PREPARE")
      BY <1>2 DEF HandlePrepareRPC, Handling
    <2> QED BY <2>1
  <1>3. CASE HandleCommitRPC(s, m)
    <2>1. /\ Handles(s, m, "COMMIT") /\ CountReceived(s, m) /\ UNCHANGED newValidCommad
      BY <1>3, Zenon DEF HandleCommitRPC
    <2>2. \/ UNCHANGED commandExecuted
          \/ commandExecuted' = [commandExecuted EXCEPT ![s] = @ + 1]
      BY <1>3, Zenon DEF HandleCommitRPC
    <2>3. Handling(s, m, "COMMIT")
      BY <2>1, <2>2 DEF Handling
    <2> QED BY <2>3
  <1> QED BY <1>1, <1>2, <1>3

LEMMA FitHandled ==
  ASSUME TypeOK, NEW s \in Server, ChannelsFit(s), NEW m \in msgs, NEW phase,
         Handling(s, m, phase)
  PROVE  ChannelsFit(s)'
  <1> USE DEF Handling
  <1> DEFINE W == Waiters(s)
             pushed == newValidCommad[s] + commandExecuted[s]
  <1>1. /\ newValidCommad[s] \in Nat /\ commandExecuted[s] \in Nat
        /\ commandRecieved[s] \in Nat /\ ChanCap \in Nat
    BY BoundAssumption DEF TypeOK, ChanType
  <1>2. Waiters(s)' = W \ {m} /\ m.to = s
    BY DEF Handles, Waiters
  <1>3. IsFiniteSet(W) /\ Cardinality(W) \in Nat
    BY FS_CardinalityType DEF ChannelsFit
  <1>4. newValidCommad'[s] + commandExecuted'[s] \in {pushed, pushed + 1}
    BY <1>1 DEF TypeOK, ChanType
  <1>5. CASE m \in waiting
    <2>1. m \in W /\ commandRecieved' = commandRecieved
      BY <1>2, <1>5 DEF Waiters, CountReceived
    <2>2. IsFiniteSet(W \ {m}) /\ Cardinality(W \ {m}) = Cardinality(W) - 1
      BY <1>3, <2>1, FS_RemoveElement
    <2> HIDE DEF W
    <2>3. IsFiniteSet(Waiters(s)') /\ Cardinality(Waiters(s)') = Cardinality(W) - 1
      BY <1>2, <2>2
    <2>4. newValidCommad'[s] \in Nat /\ commandExecuted'[s] \in Nat
      BY <1>1 DEF TypeOK, ChanType
    <2> QED BY <1>1, <1>3, <1>4, <2>1, <2>3, <2>4 DEF ChannelsFit, W
  <1>6. CASE m \notin waiting
    <2>1. /\ commandRecieved[s] < ChanCap
          /\ commandRecieved'[s] = commandRecieved[s] + 1
      BY <1>6 DEF CountReceived, TypeOK, ChanType
    <2>2. Waiters(s)' = W
      BY <1>2, <1>6 DEF Waiters
    <2> HIDE DEF W
    <2>3. newValidCommad'[s] \in Nat /\ commandExecuted'[s] \in Nat
      BY <1>1 DEF TypeOK, ChanType
    <2>4. Cardinality(W) + pushed <= commandRecieved[s]
      BY <1>1, <1>3 DEF ChannelsFit, W
    <2> QED BY <1>1, <1>3, <1>4, <2>1, <2>2, <2>3, <2>4 DEF ChannelsFit
  <1> QED BY <1>5, <1>6

LEMMA ChannelsStep ==
  ASSUME TypeOK, TypeOK', [Next]_vars, \A s \in Server \ remade : ChannelsFit(s)
  PROVE  \A s \in Server \ remade' : ChannelsFit(s)'
  <1> SUFFICES ASSUME NEW t \in Server, t \notin remade'
               PROVE  ChannelsFit(t)'
    OBVIOUS
  <1>0. t \notin remade /\ ChannelsFit(t) /\ ~Make(t)
    BY MakesCount DEF Make
  <1>1. CASE UNCHANGED <<commandRecieved, newValidCommad, commandExecuted>>
             /\ (Waiters(t)' = Waiters(t) \/ Waiters(t)' = {})
    BY <1>0, <1>1, FitKept
  <1>2. ASSUME NEW s \in Server, Exit(s)
        PROVE  ChannelsFit(t)'
    <2>1. Waiters(t)' = Waiters(t) \/ Waiters(t)' = {}
      BY <1>2 DEF Exit, Waiters
    <2> QED BY <1>1, <1>2, <2>1 DEF Exit, chanVars
  <1>3. ASSUME NEW s \in Server, NEW m \in msgs,
               \/ HandlePrePrepareRPC(s, m) \/ HandlePrepareRPC(s, m)
               \/ HandleCommitRPC(s, m)
        PROVE  ChannelsFit(t)'
    <2>1. PICK phase : Handling(s, m, phase)
      BY <1>3, HandlersPush
    <2>2. CASE t = s
      BY <1>0, <2>1, <2>2, FitHandled
    <2>3. CASE t # s
      <3>1. Waiters(t)' = Waiters(t)
        BY <2>1, <2>3 DEF Handling, Handles, Waiters
      <3>2. /\ commandRecieved'[t] = commandRecieved[t]
            /\ newValidCommad'[t] = newValidCommad[t]
            /\ commandExecuted'[t] = commandExecuted[t]
        BY <2>1, <2>3 DEF Handling, CountReceived, TypeOK, ChanType
      <3> QED BY <1>0, <3>1, <3>2, FitKept
    <2> QED BY <2>2, <2>3
  <1>4. ASSUME NEW s \in Server, NEW m \in msgs, EnterHandler(s, m)
        PROVE  ChannelsFit(t)'
    <2>1. /\ m \notin waiting /\ m.to = s /\ waiting' = waiting \cup {m}
          /\ commandRecieved[s] < ChanCap
          /\ commandRecieved' = [commandRecieved EXCEPT ![s] = @ + 1]
          /\ UNCHANGED <<newValidCommad, commandExecuted>>
      BY <1>4 DEF EnterHandler
    <2>2. CASE t = s
      <3> DEFINE W == Waiters(t)
      <3>1. IsFiniteSet(W) /\ m \notin W /\ Waiters(t)' = W \cup {m}
        BY <1>0, <2>1, <2>2 DEF ChannelsFit, Waiters
      <3> HIDE DEF W
      <3>2. /\ IsFiniteSet(Waiters(t)') /\ Cardinality(Waiters(t)') = Cardinality(W) + 1
            /\ Cardinality(W) \in Nat
        BY <3>1, FS_AddElement, FS_CardinalityType
      <3>3. /\ commandRecieved'[t] = commandRecieved[t] + 1
            /\ commandRecieved[t] \in Nat /\ newValidCommad[t] \in Nat
            /\ commandExecuted[t] \in Nat /\ ChanCap \in Nat
        BY <2>1, <2>2, BoundAssumption DEF TypeOK, ChanType
      <3>4. Cardinality(W) + newValidCommad[t] + commandExecuted[t] <= commandRecieved[t]
        BY <1>0 DEF ChannelsFit, W
      <3> QED BY <2>1, <2>2, <3>2, <3>3, <3>4 DEF ChannelsFit
    <2>3. CASE t # s
      <3>1. Waiters(t)' = Waiters(t)
        BY <2>1, <2>3 DEF Waiters
      <3>2. commandRecieved'[t] = commandRecieved[t]
        BY <2>1, <2>3 DEF TypeOK, ChanType
      <3> QED BY <1>0, <2>1, <3>1, <3>2, FitKept
    <2> QED BY <2>2, <2>3
  <1>5. ASSUME NEW s \in Server, Make(s), ~Exit(s)
        PROVE  ChannelsFit(t)'
    <2>1. /\ s # t /\ waiting' = waiting
          /\ commandRecieved' = [commandRecieved EXCEPT ![s] = 0]
          /\ newValidCommad' = [newValidCommad EXCEPT ![s] = 0]
          /\ commandExecuted' = [commandExecuted EXCEPT ![s] = 0]
      BY <1>0, <1>5 DEF Make, netVars
    <2> QED BY <1>0, <2>1, FitKept DEF TypeOK, ChanType, Waiters
  <1>6. ASSUME NEW s \in Server, ~Exit(s),
               \/ \E c \in Command : Start(s, c)
               \/ Goroutine(s) \/ Crash(s) \/ HandleCommitRPC_Save(s)
               \/ \E m \in msgs :
                    \/ ReceiveForwardedCommand(s, m)
                    \/ HandleCommitRPC_Fatal(s, m)
                    \/ HandleCheckPointRPC_Check(s, m)
               \/ \E a \in checking[s] : HandleCheckPointRPC_Record(s, a)
        PROVE  ChannelsFit(t)'
    <2>1. UNCHANGED <<waiting, commandRecieved, newValidCommad, commandExecuted>>
      BY <1>6 DEF Start, StartBody, Goroutine, sendRPCs, replyToClient, Crash,
                  HandleCommitRPC_Save,
                  ReceiveForwardedCommand, HandleCommitRPC_Fatal,
                  HandleCheckPointRPC_Check, HandleCheckPointRPC_Record, netVars, chanVars
    <2> QED BY <1>1, <2>1 DEF Waiters
  <1>7. CASE UNCHANGED vars
    BY <1>1, <1>7 DEF vars, netVars, chanVars, Waiters
  <1> QED BY <1>2, <1>3, <1>4, <1>5, <1>6, <1>7 DEF Next, Handler, GatedHandler

LEMMA FitBounds ==
  ASSUME TypeOK, NEW s \in Server, ChannelsFit(s)
  PROVE  /\ newValidCommad[s] + commandExecuted[s] <= commandRecieved[s]
         /\ commandRecieved[s] <= ChanCap
  <1>1. Cardinality(Waiters(s)) \in Nat
    BY FS_CardinalityType DEF ChannelsFit
  <1>2. /\ newValidCommad[s] \in Nat /\ commandExecuted[s] \in Nat
        /\ commandRecieved[s] \in Nat
    BY DEF TypeOK, ChanType
  <1> QED BY <1>1, <1>2 DEF ChannelsFit

\* No handler ever blocks on newValidCommad or commandExecuted, which it pushes to
\* while it holds serverLock, whatever the capacity of the channels and whichever
\* other servers stop or start again, unless Make runs again on this very server.
THEOREM ChannelsCorrect == Spec => []NoBlockUnderLock
  <1> DEFINE Inv == \A s \in Server \ remade : ChannelsFit(s)
  <1>1. Init => Inv
    <2> SUFFICES ASSUME Init, NEW s \in Server
                 PROVE  ChannelsFit(s)
      OBVIOUS
    <2>1. Waiters(s) = {}
      BY DEF Init, Waiters
    <2> QED BY <2>1, FS_EmptySet, BoundAssumption DEF Init, ChannelsFit
  <1>2. TypeOK /\ TypeOK' /\ Inv /\ [Next]_vars => Inv'
    BY ChannelsStep
  <1>3. TypeOK /\ Inv => NoBlockUnderLock
    BY FitBounds DEF NoBlockUnderLock
  <1> QED BY <1>1, <1>2, <1>3, TypeCorrect, PTL DEF Spec

-----------------------------------------------------------------------------
(* Quorums.                                                                 *)

LEMMA ServersFinite ==
  /\ IsFiniteSet(Server)
  /\ numFailableServers \in Nat /\ calculateMajority \in Nat
  /\ calculateMajority = 2 * numFailableServers + 1
  <1>1. IsFiniteSet(Server)
    <2>1. 0 \in Int /\ N - 1 \in Int
      BY ServersAssumption
    <2> QED BY <2>1, FS_Interval DEF Server
  <1>2. numFailableServers \in Nat
    BY ServersAssumption DEF numFailableServers
  <1> QED BY <1>1, <1>2 DEF calculateMajority

\* The senders of an entry's prepares are as many as the prepares.
LEMMA PreparesCount ==
  ASSUME TypeOK, SoundLogs, NEW s \in Server, NEW n \in Slot, Logged(s, n)
  PROVE  LET P == serverLog[s][n].prepareArgs
         IN /\ IsFiniteSet(P) /\ Cardinality(P) \in Nat
            /\ \A S \in SUBSET Server :
                 (\A p \in P : p.SenderIndex \in S) => Cardinality(P) <= Cardinality(S)
  <1> DEFINE P == serverLog[s][n].prepareArgs
             f == [p \in P |-> p.SenderIndex]
  <1>1. \A p, q \in P : p.SenderIndex = q.SenderIndex => p = q
    BY DEF SoundLogs, SoundEntry
  <1>2. \A p \in P : p.SenderIndex \in Server
    BY SendersAreServers
  <1> HIDE DEF P
  <1>3. ASSUME NEW S \in SUBSET Server, \A p \in P : p.SenderIndex \in S
        PROVE  IsFiniteSet(P) /\ Cardinality(P) <= Cardinality(S)
    <2>1. f \in Injection(P, S)
      BY <1>1, <1>3 DEF Injection, IsInjective
    <2>2. IsFiniteSet(S)
      BY ServersFinite, FS_Subset
    <2> QED BY <2>1, <2>2, FS_Injection
  <1>4. IsFiniteSet(P)
    BY <1>2, <1>3
  <1> QED BY <1>3, <1>4, FS_CardinalityType DEF P

\* A larger set of servers is as large a quorum.
LEMMA QuorumGrows ==
  ASSUME NEW A \in SUBSET Server, NEW B \in SUBSET Server, A \subseteq B,
         Cardinality(A) >= calculateMajority
  PROVE  Cardinality(B) >= calculateMajority
  <1>1. IsFiniteSet(B) /\ IsFiniteSet(A)
    BY ServersFinite, FS_Subset
  <1>2. Cardinality(A) <= Cardinality(B)
    BY <1>1, FS_Subset
  <1> QED BY <1>1, <1>2, ServersFinite, FS_CardinalityType

\* A slot a server has prepared is one that 2f + 1 servers have logged with its command.
LEMMA PreparedQuorum ==
  ASSUME OrderInv, SoundLogs, leader(0) \notin remade,
         NEW s \in Server, NEW n \in Slot, Prepared(s, n)
  PROVE  Cardinality(Backers(n, serverLog[s][n].message)) >= calculateMajority
  <1> DEFINE P == serverLog[s][n].prepareArgs
             H == Backers(n, serverLog[s][n].message)
  <1>1. Logged(s, n) /\ Cardinality(P) >= calculateMajority
    BY DEF Prepared
  <1>2. \A p \in P : p.SenderIndex \in H
    BY <1>1, OrderBacksPrepares DEF PrepareBacked
  <1>3. H \in SUBSET Server
    BY DEF Backers
  <1> HIDE DEF P, H
  <1>4. Cardinality(P) <= Cardinality(H) /\ Cardinality(P) \in Nat
    BY <1>1, <1>2, <1>3, PreparesCount DEF P, OrderInv
  <1>5. Cardinality(H) \in Nat
    BY <1>3, ServersFinite, FS_Subset, FS_CardinalityType
  <1> QED BY <1>1, <1>4, <1>5, ServersFinite DEF H

\* What a server has processed, it has prepared.
LEMMA ProcessedPrepared ==
  ASSUME TypeOK, SoundLogs, NEW s \in Server, NEW n \in Slot, Processed(s, n)
  PROVE  Prepared(s, n) /\ numFailableServers = 0
  <1> DEFINE e == serverLog[s][n]
  <1>1. Logged(s, n) /\ Cardinality(e.commitArgs) >= calculateMajority /\ SoundEntry(s, e)
    BY DEF Processed, Logged, SoundLogs
  <1>2. e.commitArgs = {} \/ e.commitArgs = {s}
    BY <1>1 DEF SoundEntry
  <1>3. e.commitArgs # {}
    <2> SUFFICES ASSUME e.commitArgs = {}
                 PROVE  FALSE
      OBVIOUS
    <2>1. Cardinality(e.commitArgs) = 0
      BY FS_EmptySet
    <2> HIDE DEF e
    <2> QED BY <1>1, <2>1, ServersFinite
  <1>4. calculateMajority <= 1 /\ e.prepareArgs # {}
    BY <1>1, <1>2, <1>3, FS_Singleton DEF SoundEntry
  <1>5. IsFiniteSet(e.prepareArgs) /\ Cardinality(e.prepareArgs) \in Nat
    BY <1>1, PreparesCount
  <1> HIDE DEF e
  <1>6. Cardinality(e.prepareArgs) >= 1
    BY <1>4, <1>5, FS_EmptySet
  <1> QED BY <1>1, <1>4, <1>5, <1>6, ServersFinite DEF Prepared, e

-----------------------------------------------------------------------------
(* Replies, while Make does not run again on the leader.                    *)

AgreedInv == OrderInv /\ SoundLogs /\ leader(0) \notin remade

LEMMA AgreedAlways == Spec => [](leader(0) \notin remade => AgreedInv)
  <1>1. (leader(0) \notin remade => OrderInv) /\ SoundLogs =>
          (leader(0) \notin remade => AgreedInv)
    BY DEF AgreedInv
  <1> QED BY <1>1, OrderCorrect, EntriesSound, PTL

\* Where Make has run again it has run again.
LEMMA RemadeGrows ==
  ASSUME [Next]_vars
  PROVE  /\ remade \subseteq remade'
         /\ leader(0) \notin remade' => leader(0) \notin remade
  BY MakesCount

\* Nothing logged is replaced, and no prepare forgotten, by a server that has not been
\* started again.
LEMMA AllStay ==
  ASSUME AgreedInv, [Next]_vars
  PROVE  \A t \in Server, k \in Slot : Logged(t, k) /\ t \notin remade' => Stays(t, k)
  <1>1. CASE UNCHANGED vars
    BY <1>1 DEF vars, logVars, Stays, Logged
  <1>2. CASE Next
    <2> SUFFICES ASSUME NEW t \in Server, NEW k \in Slot, Logged(t, k), t \notin remade'
                 PROVE  Stays(t, k)
      OBVIOUS
    <2>1. serverLog[t][k].view = view[t]
      BY DEF AgreedInv, OrderInv, OneView, LogsFollow
    <2> QED BY <1>2, <2>1, StaysStep DEF AgreedInv, OrderInv
  <1> QED BY <1>1, <1>2

\* So the servers that back a command in a slot become more and more.
LEMMA BackersGrow ==
  ASSUME AgreedInv, [Next]_vars, NEW n \in Slot, NEW c
  PROVE  Backers(n, c) \subseteq Backers(n, c)'
  BY AllStay, RemadeGrows DEF Backers, Holds, Logged, Stays

BackedReply(r) ==
  Cardinality(Backers(r.SequenceNumber, r.Message)) >= calculateMajority

\* The replies a client has got or is being sent.
RepliesBacked ==
  /\ \A r \in replies : BackedReply(r)
  /\ \A t \in Server : \A job \in outbox[t] :
       job.phase = "REPLY_TO_CLIENT" => BackedReply(job.args)

LEMMA BackedStays ==
  ASSUME AgreedInv, [Next]_vars, NEW r \in ReplyArg, BackedReply(r)
  PROVE  BackedReply(r)'
  <1> DEFINE n == r.SequenceNumber
             c == r.Message
  <1>1. n \in Slot
    BY DEF ReplyArg
  <1>2. Backers(n, c) \subseteq Backers(n, c)'
    BY <1>1, BackersGrow
  <1>3. Backers(n, c) \in SUBSET Server /\ Backers(n, c)' \in SUBSET Server
    BY DEF Backers
  <1> QED BY <1>2, <1>3, QuorumGrows DEF BackedReply

\* A client's new reply is one some server was sending.
LEMMA NewReplies ==
  ASSUME TypeOK, [Next]_vars
  PROVE  \A r \in replies' :
           \/ r \in replies
           \/ \E t \in Server : \E job \in outbox[t] :
                job.phase = "REPLY_TO_CLIENT" /\ r = job.args
  <1>1. ASSUME NEW s \in Server, NEW job \in outbox[s], replyToClient(s, job)
        PROVE  \A r \in replies' : r \in replies \/ r = job.args
    BY <1>1 DEF replyToClient, Exit
  <1>2. ASSUME NEW s \in Server,
               \/ (\E c \in Command : Start(s, c)) \/ Crash(s)
               \/ HandleCommitRPC_Save(s) \/ Make(s)
               \/ \E job \in outbox[s] : sendRPCs(s, job)
               \/ Handler(s)
        PROVE  replies' = replies
    BY <1>2 DEF Start, StartBody, Crash,
                HandleCommitRPC_Save, Make, Exit, netVars, sendRPCs, Handler,
                GatedHandler, ReceiveForwardedCommand, EnterHandler,
                HandlePrePrepareRPC, HandlePrepareRPC, HandleCommitRPC,
                HandleCommitRPC_Fatal, HandleCheckPointRPC_Check,
                HandleCheckPointRPC_Record
  <1>3. CASE UNCHANGED vars
    BY <1>3 DEF vars, netVars
  <1> QED BY <1>1, <1>2, <1>3 DEF Next, Goroutine, replyToClient

\* A reply is made for a slot its server has prepared.
LEMMA RepliesPrepared ==
  ASSUME TypeOK, SoundLogs, NEW t \in Server, NEW job, JobOrigin(t, job),
         job.phase = "REPLY_TO_CLIENT"
  PROVE  \E n \in Slot : /\ Prepared(t, n) /\ \E c : job = CommitReply(t, n, c)
                         /\ \/ numFailableServers = 0 /\ StartedAgain(t, n)
                            \/ \E m \in msgs : /\ HandleCommitRPC(t, m)
                                               /\ ValidCommit(t, m.args)
                                               /\ n = m.args.arg.SequenceNumber
  <1>1. CASE \E n \in Slot :
               Processed(t, n) /\ StartedAgain(t, n) /\ \E c : job = CommitReply(t, n, c)
    BY <1>1, ProcessedPrepared
  <1>2. ASSUME NEW m \in msgs, HandleCommitRPC(t, m), ValidCommit(t, m.args),
               \/ \E c : job = CommitReply(t, m.args.arg.SequenceNumber, c)
               \/ job = makeCheckpoint(t, m.args.arg.SequenceNumber)
        PROVE  /\ m.args.arg.SequenceNumber \in Slot
               /\ Prepared(t, m.args.arg.SequenceNumber)
               /\ \E c : job = CommitReply(t, m.args.arg.SequenceNumber, c)
    <2>1. m.args.arg.SequenceNumber \in Slot
      BY <1>2, MessageFields
      DEF HandleCommitRPC, Handles, TypeOK, VoteArg
    <2>2. Prepared(t, m.args.arg.SequenceNumber)
      BY <1>2 DEF ValidCommit, Prepared, Logged
    <2> QED BY <1>2, <2>1, <2>2 DEF makeCheckpoint
  <1> QED BY <1>1, <1>2 DEF JobOrigin

LEMMA RepliesStep ==
  ASSUME AgreedInv, TypeOK', [Next]_vars, RepliesBacked
  PROVE  RepliesBacked'
  <1>1. TypeOK /\ TypeOK' /\ OrderInv /\ SoundLogs /\ leader(0) \notin remade
    BY DEF AgreedInv, OrderInv
  <1>2. ASSUME NEW t \in Server, NEW job \in outbox[t], job.phase = "REPLY_TO_CLIENT"
        PROVE  BackedReply(job.args)'
    <2>1. job.args \in ReplyArg
      BY <1>1, <1>2, RequestFields DEF TypeOK, NetType, Job
    <2> QED BY <1>2, <2>1, BackedStays DEF RepliesBacked
  <1>3. ASSUME NEW r \in replies'
        PROVE  BackedReply(r)'
    <2>1. CASE r \in replies
      BY <1>1, <2>1, BackedStays DEF RepliesBacked, TypeOK, NetType
    <2> QED BY <1>1, <1>2, <2>1, NewReplies
  <1>4. ASSUME NEW t \in Server, NEW job \in outbox'[t], job.phase = "REPLY_TO_CLIENT"
        PROVE  BackedReply(job.args)'
    <2>1. CASE job \in outbox[t]
      BY <1>2, <1>4, <2>1
    <2>2. CASE JobOrigin(t, job)
      <3>1. PICK n \in Slot : Prepared(t, n) /\ \E c : job = CommitReply(t, n, c)
        BY <1>1, <1>4, <2>2, RepliesPrepared
      <3>2. /\ job.args.SequenceNumber = n
            /\ job.args.Message = serverLog[t][n].message
        BY <3>1 DEF CommitReply, Reply
      <3>3. BackedReply(job.args)
        BY <1>1, <3>1, <3>2, PreparedQuorum DEF BackedReply
      <3>4. job.args \in ReplyArg
        BY <1>1, <1>4, RequestFields DEF TypeOK, NetType, Job
      <3> QED BY <3>3, <3>4, BackedStays
    <2> QED BY <1>1, <2>1, <2>2, NewJobs
  <1> QED BY <1>3, <1>4 DEF RepliesBacked

LEMMA RepliesAlways == Spec => [](leader(0) \notin remade => RepliesBacked)
  <1> DEFINE Agreed == leader(0) \notin remade => AgreedInv
             Inv == leader(0) \notin remade => RepliesBacked
  <1>1. Init => Inv
    BY DEF Init, RepliesBacked
  <1>2. Agreed /\ TypeOK' /\ Inv /\ [Next]_vars => Inv'
    BY RepliesStep, RemadeGrows
  <1> QED BY <1>1, <1>2, AgreedAlways, TypeCorrect, PTL DEF Spec

\* A client that has a reply knows that 2f + 1 servers have logged its command in the
\* slot it was executed at, for any number of servers and of crashes, and can have lost
\* it since only by a restart, as long as the leader is not started again.
THEOREM RepliesCorrect == Spec => []ReplyBacked
  <1>1. (leader(0) \notin remade => RepliesBacked) => ReplyBacked
    BY DEF RepliesBacked, ReplyBacked, BackedReply
  <1> QED BY <1>1, RepliesAlways, PTL

-----------------------------------------------------------------------------
(* A pre-prepare goes out once.                                             *)

AtMostOne(A) == \A x, y \in A : x = y

\* The pre-prepares of a slot that are still to be sent, and on their way to a server.
Pending(n) == {job \in outbox[leader(0)] : Announces(job, n)}
Coming(s, n) == {m \in msgs : m.to = s /\ Announces(m, n)}

Once(n) ==
  /\ AtMostOne(Pending(n))
  /\ \A s \in Server :
       /\ AtMostOne(Coming(s, n)) /\ (Pending(n) = {} \/ Coming(s, n) = {})
       /\ Logged(s, n) /\ s \notin remade \cup {leader(0)} =>
            Pending(n) = {} /\ Coming(s, n) = {}

Unrepeated ==
  /\ \A s \in Server : \A job \in outbox[s] : job.phase = "PRE_PREPARE" => s = leader(0)
  /\ \A m \in msgs : m.phase = "PRE_PREPARE" => m.to # leader(0)
  /\ \A n \in Slot : Once(n)

\* A step that adds nothing to a slot.
Shrinks(n) ==
  /\ Pending(n)' \subseteq Pending(n)
  /\ \A s \in Server :
       /\ Coming(s, n)' \subseteq Coming(s, n)
       /\ Logged(s, n)' /\ s \notin remade' => Logged(s, n)

LEMMA OnceShrinks ==
  ASSUME NEW n \in Slot, Once(n), Shrinks(n), remade \subseteq remade'
  PROVE  Once(n)'
  BY DEF Once, Shrinks, AtMostOne, leader

\* A step that sends and starts no pre-prepare and logs nothing.
LEMMA UnrepeatedQuiet ==
  ASSUME Unrepeated, remade \subseteq remade',
         \A t \in Server : \A job \in outbox'[t] :
           job \in outbox[t] \/ job.phase # "PRE_PREPARE",
         \A m \in msgs' : m \in msgs \/ m.phase # "PRE_PREPARE",
         \A t \in Server, k \in Slot : Logged(t, k)' /\ t \notin remade' => Logged(t, k)
  PROVE  Unrepeated'
  <1>1. leader(0) \in Server
    BY LeaderIsServer
  <1>2. \A n \in Slot : Shrinks(n)
    BY <1>1 DEF Shrinks, Pending, Coming, Announces, leader
  <1>3. \A n \in Slot : Once(n)'
    BY <1>2, OnceShrinks DEF Unrepeated
  <1> QED BY <1>3 DEF Unrepeated, leader

LEMMA NeverAgain ==
  ASSUME AgreedInv, Unrepeated, NEW t \in Server, t \notin remade, NEW n \in Slot,
         Logged(t, n)
  PROVE  ~StartedAgain(t, n)
  <1>1. \A m \in msgs : m.to = t /\ Announces(m, n) => t # leader(0) /\ m \in Coming(t, n)
    BY DEF Unrepeated, Coming, Announces
  <1>2. t # leader(0) => Coming(t, n) = {}
    BY DEF Unrepeated, Once
  <1>3. leader(view[t]) = t => t = leader(0)
    BY DEF AgreedInv, OrderInv, OneView
  <1>4. t = leader(0) => n # sequenceNumber[t]
    BY CommandAssumption DEF AgreedInv, OrderInv, LeaderCounts
  <1> QED BY <1>1, <1>2, <1>3, <1>4 DEF StartedAgain

\* A slot that is announced is logged by the leader, and one that anybody logs too.
LEMMA FreshSlot ==
  ASSUME AgreedInv, NEW n \in Slot, ~Logged(leader(0), n)
  PROVE  /\ Pending(n) = {}
         /\ \A s \in Server : Coming(s, n) = {} /\ ~Logged(s, n)
  <1>1. leader(0) \in Server
    BY LeaderIsServer
  <1>2. /\ \A job \in outbox[leader(0)] : ~Announces(job, n)
        /\ \A m \in msgs : ~Announces(m, n)
    BY <1>1 DEF AgreedInv, OrderInv, RequestsFollow, Announced, Announces, Holds
  <1>3. \A s \in Server : ~Logged(s, n)
    BY DEF AgreedInv, OrderInv, LogsFollow, Holds
  <1> QED BY <1>2, <1>3 DEF Pending, Coming

LEMMA UnrepeatedStart ==
  ASSUME AgreedInv, TypeOK', Unrepeated, LeaderStays, NEW s \in Server, NEW c \in Command,
         StartBody(s, c), msgs' \subseteq msgs
  PROVE  Unrepeated'
  <1>1. TypeOK /\ view[s] = 0 /\ leader(0) \in Server
    BY LeaderIsServer DEF AgreedInv, OrderInv, OneView
  <1>2. CASE StartForward(s, c)
    <2>1. /\ serverLog' = serverLog
          /\ \A t \in Server : \A job \in outbox'[t] :
               job \in outbox[t] \/ job.phase # "PRE_PREPARE"
      BY <1>1, <1>2 DEF StartForward, TypeOK, NetType
    <2> QED BY <2>1, UnrepeatedQuiet DEF LeaderStays, Logged
  <1>3. CASE StartDrop(s, c)
    BY <1>3, UnrepeatedQuiet DEF StartDrop, LeaderStays, Logged
  <1>4. CASE StartPrePrepare(s, c)
    <2> DEFINE k == sequenceNumber[s]
               e == logEntry(0, c, Digest[c])
               arg == [View |-> 0, SequenceNumber |-> k, Digest |-> Digest[c],
                       Message |-> c]
               new == [phase |-> "PRE_PREPARE",
                       args |-> makeArguments(s, "PrePrepareCommandArg", arg)]
    <2>1. s = leader(0) /\ k \in Slot /\ k \in Nat
      BY <1>1, <1>4, CommandAssumption DEF StartPrePrepare
    <2>2. ~Logged(s, k)
      BY <2>1 DEF AgreedInv, OrderInv, LeaderCounts
    <2>3. addLogEntry(s, 0, k)
      BY <1>1, <2>2 DEF addLogEntry, Logged
    <2>4. /\ serverLog' = [serverLog EXCEPT ![s][k] = e]
          /\ outbox' = [outbox EXCEPT ![s] = @ \cup
                           ({new} \cup RepeatedReply(s, 0, k, c))]
      BY <1>1, <1>4, <2>3 DEF StartPrePrepare
    <2>5. /\ \A job \in RepeatedReply(s, 0, k, c) : job.phase = "REPLY_TO_CLIENT"
          /\ new.phase = "PRE_PREPARE" /\ new.args.arg.SequenceNumber = k
      BY DEF RepeatedReply, makeArguments
    <2> HIDE DEF e, new
    <2>6. \A t \in Server : \A job \in outbox'[t] :
            \/ job \in outbox[t] \/ job.phase # "PRE_PREPARE" \/ (t = s /\ job = new)
      BY <1>1, <2>4, <2>5 DEF TypeOK, NetType
    <2>7. \A t \in Server, n \in Slot :
            ~(t = s /\ n = k) => serverLog'[t][n] = serverLog[t][n]
      BY <1>1, <2>1, <2>4 DEF TypeOK, LogType
    <2>8. ASSUME NEW n \in Slot, n # k
          PROVE  Once(n)'
      <3>1. Shrinks(n)
        BY <1>1, <2>1, <2>5, <2>6, <2>7, <2>8
        DEF Shrinks, Pending, Coming, Announces, Logged, leader
      <3> QED BY <3>1, OnceShrinks DEF Unrepeated, LeaderStays
    <2>9. ASSUME NEW n \in Slot, n = k
          PROVE  Once(n)'
      <3>1. /\ Pending(n) = {}
            /\ \A t \in Server : Coming(t, n) = {} /\ ~Logged(t, n)
        BY <2>1, <2>2, <2>9, FreshSlot
      <3>2. Pending(n)' \subseteq {new}
        BY <1>1, <2>6, <3>1 DEF Pending, Announces, leader
      <3>3. \A t \in Server : Coming(t, n)' = {}
        BY <3>1 DEF Coming, Announces
      <3>4. \A t \in Server \ {s} : ~Logged(t, n)'
        BY <2>7, <3>1 DEF Logged
      <3> QED BY <2>1, <3>2, <3>3, <3>4 DEF Once, AtMostOne, leader
    <2>10. \A t \in Server : \A job \in outbox'[t] :
             job.phase = "PRE_PREPARE" => t = leader(0)
      BY <2>1, <2>6 DEF Unrepeated
    <2> QED BY <2>8, <2>9, <2>10 DEF Unrepeated, leader
  <1> QED BY <1>2, <1>3, <1>4 DEF StartBody

\* The one pre-prepare of a slot becomes one request to each other server.
LEMMA UnrepeatedSend ==
  ASSUME AgreedInv, Unrepeated, LeaderStays, NEW s \in Server, NEW job \in outbox[s],
         sendRPCs(s, job), ~Exit(s)
  PROVE  Unrepeated'
  <1>1. TypeOK /\ leader(0) \in Server
    BY LeaderIsServer DEF AgreedInv, OrderInv
  <1>2. /\ serverLog' = serverLog
        /\ outbox' = [outbox EXCEPT ![s] = @ \ {job}]
        /\ msgs' = msgs \cup {[to |-> d, phase |-> job.phase, args |-> job.args] :
                                d \in Destinations(s, job)}
    BY DEF sendRPCs, logVars
  <1>3. \A t \in Server : outbox'[t] = IF t = s THEN outbox[t] \ {job} ELSE outbox[t]
    BY <1>1, <1>2 DEF TypeOK, NetType
  <1>4. CASE job.phase # "PRE_PREPARE"
    BY <1>2, <1>3, <1>4, UnrepeatedQuiet DEF LeaderStays, Logged
  <1>5. CASE job.phase = "PRE_PREPARE"
    <2> DEFINE k == job.args.arg.SequenceNumber
    <2>1. s = leader(0) /\ Announces(job, k) /\ k \in Slot
      <3>1. job \in Job
        BY <1>1 DEF TypeOK, NetType
      <3>2. job.args.arg \in PrePrepareArg
        BY <1>5, <3>1, RequestFields DEF Job
      <3> QED BY <1>5, <3>2 DEF Unrepeated, Announces, PrePrepareArg
    <2> HIDE DEF k
    <2>2. \A n \in Slot : Announces(job, n) => n = k
      BY DEF Announces, k
    <2>3. \A m \in msgs' : \/ m \in msgs
                           \/ /\ m.to # s /\ m.phase = job.phase /\ m.args = job.args
                              /\ m = [to |-> m.to, phase |-> job.phase, args |-> job.args]
      BY <1>2, <1>5 DEF Destinations
    <2>4. ASSUME NEW n \in Slot, n # k
          PROVE  Once(n)'
      <3>1. Shrinks(n)
        BY <1>1, <1>2, <1>3, <2>1, <2>2, <2>3, <2>4
        DEF Shrinks, Pending, Coming, Announces, Logged, leader
      <3> QED BY <3>1, OnceShrinks DEF Unrepeated, LeaderStays
    <2>5. ASSUME NEW n \in Slot, n = k
          PROVE  Pending(n)' = {} /\ job \in Pending(n)
      <3>1. job \in Pending(n) /\ AtMostOne(Pending(n))
        BY <2>1, <2>5 DEF Pending, Unrepeated, Once
      <3>2. \A other \in outbox'[s] : ~Announces(other, n)
        BY <1>3, <2>1, <3>1 DEF Pending, AtMostOne
      <3> QED BY <2>1, <3>1, <3>2 DEF Pending, Announces, leader
    <2>6. ASSUME NEW n \in Slot, n = k, NEW t \in Server
          PROVE  /\ AtMostOne(Coming(t, n)')
                 /\ ~(Logged(t, n)' /\ t \notin remade' \cup {leader(0)})
      <3>1. Coming(t, n) = {} /\ ~(Logged(t, n) /\ t \notin remade \cup {leader(0)})
        BY <2>5, <2>6 DEF Unrepeated, Once
      <3>2. \A m \in Coming(t, n)' :
              m = [to |-> t, phase |-> job.phase, args |-> job.args]
        BY <2>3, <3>1 DEF Coming, Announces
      <3> QED BY <1>2, <3>1, <3>2 DEF AtMostOne, LeaderStays, Logged
    <2>7. ASSUME NEW n \in Slot, n = k
          PROVE  Once(n)'
      BY <2>5, <2>6, <2>7 DEF Once, AtMostOne, leader
    <2>8. /\ \A t \in Server : \A other \in outbox'[t] :
               other.phase = "PRE_PREPARE" => t = leader(0)
          /\ \A m \in msgs' : m.phase = "PRE_PREPARE" => m.to # leader(0)
      BY <1>3, <2>1, <2>3 DEF Unrepeated
    <2>9. \A n \in Slot : Once(n)'
      BY <2>4, <2>7
    <2> QED BY <2>8, <2>9 DEF Unrepeated, leader
  <1> QED BY <1>4, <1>5

\* The server it reaches gets no other for the slot.
LEMMA UnrepeatedPrePrepare ==
  ASSUME AgreedInv, Unrepeated, LeaderStays, NEW s \in Server, NEW m \in msgs,
         HandlePrePrepareRPC(s, m)
  PROVE  Unrepeated'
  <1> DEFINE k == m.args.arg.SequenceNumber
  <1>1. TypeOK /\ leader(0) \in Server
    BY LeaderIsServer DEF AgreedInv, OrderInv
  <1>2. /\ msgs' = msgs \ {m} /\ m.to = s /\ m.phase = "PRE_PREPARE" /\ k \in Slot
        /\ s # leader(0)
    <2>1. msgs' = msgs \ {m} /\ m.to = s /\ m.phase = "PRE_PREPARE"
      BY DEF HandlePrePrepareRPC, Handles
    <2> QED BY <1>1, <2>1, MessageFields DEF TypeOK, PrePrepareArg, Unrepeated
  <1>3. \A t \in Server : \A job \in outbox'[t] :
          job \in outbox[t] \/ job.phase # "PRE_PREPARE"
    BY <1>1, HandlersStartNothing
  <1>4. \A t \in Server, n \in Slot :
          ~(t = s /\ n = k) => serverLog'[t][n] = serverLog[t][n]
    <2>1. serverLog' = serverLog \/ \E e : serverLog' = [serverLog EXCEPT ![s][k] = e]
      BY DEF HandlePrePrepareRPC
    <2> QED BY <1>1, <1>2, <2>1 DEF TypeOK, LogType
  <1> HIDE DEF k
  <1>5. \A n \in Slot : /\ Pending(n)' \subseteq Pending(n)
                        /\ \A t \in Server : Coming(t, n)' \subseteq Coming(t, n)
    BY <1>1, <1>2, <1>3 DEF Pending, Coming, Announces, leader
  <1>6. ASSUME NEW n \in Slot, n # k
        PROVE  Once(n)'
    <2>1. Shrinks(n)
      BY <1>4, <1>5, <1>6 DEF Shrinks, Logged
    <2> QED BY <2>1, OnceShrinks DEF Unrepeated, LeaderStays
  <1>7. ASSUME NEW n \in Slot, n = k
        PROVE  Once(n)'
    <2>1. m \in Coming(s, n) /\ AtMostOne(Coming(s, n)) /\ Once(n)
      BY <1>2, <1>7 DEF Coming, Announces, Unrepeated, Once, k
    <2>2. Pending(n)' = {} /\ Coming(s, n)' = {}
      BY <1>2, <1>5, <2>1 DEF Once, Coming, AtMostOne, Announces
    <2>3. \A t \in Server \ {s} : Logged(t, n)' => Logged(t, n)
      BY <1>4 DEF Logged
    <2> QED BY <1>5, <2>1, <2>2, <2>3 DEF Once, AtMostOne, LeaderStays, leader
  <1>8. \A n \in Slot : Once(n)'
    BY <1>6, <1>7
  <1> QED BY <1>2, <1>3, <1>8 DEF Unrepeated, leader

LEMMA UnrepeatedStep ==
  ASSUME AgreedInv, TypeOK', Unrepeated, leader(0) \notin remade', [Next]_vars
  PROVE  Unrepeated'
  <1>1. TypeOK /\ LeaderStays /\ remade \subseteq remade'
    BY RemadeGrows DEF LeaderStays, AgreedInv, OrderInv
  <1>2. ASSUME NEW s \in Server, Exit(s)
        PROVE  Unrepeated'
    <2>1. serverLog' = serverLog /\ msgs' \subseteq msgs
      BY <1>2 DEF Exit, logVars
    <2> QED BY <1>1, <1>2, <2>1, ExitJobs, UnrepeatedQuiet DEF Logged
  <1>3. ASSUME NEW s \in Server, NEW c \in Command, Start(s, c)
        PROVE  Unrepeated'
    BY <1>1, <1>3, UnrepeatedStart DEF Start
  <1>4. ASSUME NEW s \in Server, NEW m \in msgs, ReceiveForwardedCommand(s, m)
        PROVE  Unrepeated'
    <2>1. m.args.arg \in Command /\ StartBody(s, m.args.arg) /\ msgs' \subseteq msgs
      BY <1>1, <1>4, MessageFields DEF ReceiveForwardedCommand, TypeOK
    <2> QED BY <1>1, <2>1, UnrepeatedStart
  <1>5. ASSUME NEW s \in Server, NEW job \in outbox[s], replyToClient(s, job), ~Exit(s)
        PROVE  Unrepeated'
    <2>1. /\ serverLog' = serverLog /\ msgs' = msgs
          /\ outbox' = [outbox EXCEPT ![s] = @ \ {job}]
      BY <1>5 DEF replyToClient, logVars
    <2>2. \A t \in Server : outbox'[t] \subseteq outbox[t]
      BY <1>1, <2>1 DEF TypeOK, NetType
    <2> QED BY <1>1, <2>1, <2>2, UnrepeatedQuiet DEF Logged
  <1>6. ASSUME NEW s \in Server, NEW m \in msgs, HandlePrepareRPC(s, m)
        PROVE  Unrepeated'
    <2>1. /\ msgs' \subseteq msgs
          /\ \A t \in Server : \A job \in outbox'[t] :
               job \in outbox[t] \/ job.phase # "PRE_PREPARE"
      BY <1>1, <1>6, HandlersStartNothing
    <2>2. \A t \in Server, n \in Slot : Logged(t, n)' => Logged(t, n)
      <3> DEFINE k == m.args.arg.SequenceNumber
      <3>1. k \in Slot
        BY <1>1, <1>6, MessageFields DEF HandlePrepareRPC, Handles, TypeOK, VoteArg
      <3>2. \/ serverLog' = serverLog
            \/ Logged(s, k) /\ \E e : serverLog' = [serverLog EXCEPT ![s][k] = e]
        BY <1>6 DEF HandlePrepareRPC, ValidPrepare, Logged
      <3> HIDE DEF k
      <3> QED BY <1>1, <3>1, <3>2 DEF TypeOK, LogType, Logged
    <2> QED BY <1>1, <2>1, <2>2, UnrepeatedQuiet
  <1>7. ASSUME NEW s \in Server, NEW m \in msgs, HandleCommitRPC(s, m)
        PROVE  Unrepeated'
    <2>1. serverLog' = serverLog
      BY <1>7 DEF HandleCommitRPC
    <2> QED BY <1>1, <1>7, <2>1, HandlersStartNothing, UnrepeatedQuiet DEF Logged
  <1>8. ASSUME NEW s \in Server, ~Exit(s),
               \/ \E m \in msgs :
                    \/ EnterHandler(s, m) \/ HandleCommitRPC_Fatal(s, m)
                    \/ HandleCheckPointRPC_Check(s, m)
               \/ \E a \in checking[s] : HandleCheckPointRPC_Record(s, a)
               \/ Crash(s) \/ HandleCommitRPC_Save(s)
        PROVE  Unrepeated'
    <2>1. UNCHANGED <<serverLog, outbox>> /\ msgs' \subseteq msgs
      BY <1>8 DEF EnterHandler, HandleCommitRPC_Fatal, HandleCheckPointRPC_Check,
                  HandleCheckPointRPC_Record, Crash,
                  HandleCommitRPC_Save, logVars, netVars
    <2> QED BY <1>1, <2>1, UnrepeatedQuiet DEF Logged
  <1>9. ASSUME NEW s \in Server, Make(s), ~Exit(s)
        PROVE  Unrepeated'
    <2>1. /\ serverLog' = [serverLog EXCEPT ![s] = [n \in Slot |-> NoEntry]]
          /\ UNCHANGED <<outbox, msgs>>
      BY <1>9 DEF Make, readPersist, netVars
    <2>2. \A t \in Server, n \in Slot : Logged(t, n)' => Logged(t, n)
      BY <1>1, <2>1 DEF TypeOK, LogType, Logged
    <2> QED BY <1>1, <2>1, <2>2, UnrepeatedQuiet
  <1>10. CASE UNCHANGED vars
    <2>1. UNCHANGED <<serverLog, outbox, msgs>>
      BY <1>10 DEF vars, logVars, netVars
    <2> QED BY <1>1, <2>1, UnrepeatedQuiet DEF Logged
  <1> QED BY <1>1, <1>2, <1>3, <1>4, <1>5, <1>6, <1>7, <1>8, <1>9, <1>10,
             UnrepeatedSend, UnrepeatedPrePrepare
          DEF Next, Goroutine, Handler, GatedHandler

LEMMA UnrepeatedInit == Init => Unrepeated
  <1> SUFFICES ASSUME Init
               PROVE  Unrepeated
    OBVIOUS
  <1>1. \A n \in Slot : Pending(n) = {} /\ \A s \in Server : Coming(s, n) = {}
    BY LeaderIsServer DEF Init, Pending, Coming
  <1> QED BY <1>1 DEF Init, Unrepeated, Once, AtMostOne

\* The leader sends each pre-prepare once, and no server gets one for a slot it has
\* logged and not forgotten.
LEMMA UnrepeatedAlways == Spec => [](leader(0) \notin remade => Unrepeated)
  <1> DEFINE Agreed == leader(0) \notin remade => AgreedInv
             Inv == leader(0) \notin remade => Unrepeated
  <1>1. Init => Inv
    BY UnrepeatedInit
  <1>2. Agreed /\ TypeOK' /\ Inv /\ [Next]_vars => Inv'
    BY UnrepeatedStep, RemadeGrows
  <1> QED BY <1>1, <1>2, AgreedAlways, TypeCorrect, PTL DEF Spec

-----------------------------------------------------------------------------
(* The registers.                                                           *)

\* What RegisterCoversReplies says of one server and one reply.
Covered(s, r) == clientRegisters[s][r.Message.ClientID] >= r.Message.Timestamp

\* Of a server that Make has not run on again, and of the replies it is sending.
Covers ==
  /\ \A r \in replies : r.ServerID \notin remade => Covered(r.ServerID, r)
  /\ \A s \in Server : \A job \in outbox[s] :
       job.phase = "REPLY_TO_CLIENT" =>
         job.args.ServerID = s /\ (s \notin remade => Covered(s, job.args))

\* No register goes back without Make, and a valid commit moves its client's far enough.
LEMMA RegistersGrow ==
  ASSUME TypeOK, [Next]_vars
  PROVE  /\ \A t \in Server, c \in Client :
              t \notin remade' => clientRegisters'[t][c] >= clientRegisters[t][c]
         /\ \A t \in Server, m \in msgs :
              LET command == serverLog[t][m.args.arg.SequenceNumber].message
              IN HandleCommitRPC(t, m) /\ ValidCommit(t, m.args) =>
                   clientRegisters'[t][command.ClientID] >= command.Timestamp
  <1> USE DEF TypeOK, LogType
  <1>1. ASSUME NEW s \in Server, NEW m \in msgs, HandleCommitRPC(s, m),
               ValidCommit(s, m.args)
        PROVE  LET c == serverLog[s][m.args.arg.SequenceNumber].message
               IN /\ c \in Command
                  /\ clientRegisters' = [clientRegisters EXCEPT ![s][c.ClientID] =
                                           LaterTimestamp(@, c.Timestamp)]
    <2>1. m.args.arg.SequenceNumber \in Slot
      BY <1>1, MessageFields DEF HandleCommitRPC, Handles, VoteArg
    <2>2. serverLog[s][m.args.arg.SequenceNumber] \in Entry
      BY <1>1, <2>1 DEF ValidCommit
    <2> QED BY <1>1, <2>2 DEF HandleCommitRPC, Entry
  <1>2. ASSUME NEW s \in Server, NEW c \in Command,
               clientRegisters' = [clientRegisters EXCEPT ![s][c.ClientID] =
                                     LaterTimestamp(@, c.Timestamp)]
        PROVE  /\ \A t \in Server, d \in Client :
                    clientRegisters'[t][d] >= clientRegisters[t][d]
               /\ clientRegisters'[s][c.ClientID] >= c.Timestamp
    <2>1. c.ClientID \in Client /\ c.Timestamp \in Nat
      BY CommandAssumption
    <2> DEFINE new == LaterTimestamp(clientRegisters[s][c.ClientID], c.Timestamp)
    <2>2. new \in Nat /\ new >= clientRegisters[s][c.ClientID] /\ new >= c.Timestamp
      BY <2>1 DEF LaterTimestamp
    <2>3. \A t \in Server, d \in Client :
            clientRegisters'[t][d] =
              IF t = s /\ d = c.ClientID THEN new ELSE clientRegisters[t][d]
      <3>1. clientRegisters' = [clientRegisters EXCEPT ![s][c.ClientID] = new]
        BY <1>2
      <3> HIDE DEF new
      <3> QED BY <2>1, <3>1
    <2>4. \A t \in Server, d \in Client : clientRegisters[t][d] \in Nat
      OBVIOUS
    <2> HIDE DEF new
    <2> QED BY <2>1, <2>2, <2>3, <2>4
  <1>3. ASSUME NEW s \in Server, NEW m \in msgs, HandleCommitRPC(s, m)
        PROVE  \A t \in Server, d \in Client :
                 clientRegisters'[t][d] >= clientRegisters[t][d]
    <2>1. CASE ValidCommit(s, m.args)
      BY <1>1, <1>2, <1>3, <2>1
    <2>2. CASE ~ValidCommit(s, m.args)
      BY <1>3, <2>2 DEF HandleCommitRPC
    <2> QED BY <2>1, <2>2
  <1>4. ASSUME NEW s \in Server,
               \/ (\E c \in Command : Start(s, c)) \/ Crash(s)
               \/ HandleCommitRPC_Save(s) \/ Goroutine(s)
               \/ \E m \in msgs :
                    \/ ReceiveForwardedCommand(s, m) \/ EnterHandler(s, m)
                    \/ HandlePrePrepareRPC(s, m) \/ HandlePrepareRPC(s, m)
                    \/ HandleCommitRPC_Fatal(s, m) \/ HandleCheckPointRPC_Check(s, m)
               \/ \E a \in checking[s] : HandleCheckPointRPC_Record(s, a)
        PROVE  clientRegisters' = clientRegisters
    BY <1>4 DEF Start, StartBody, Crash,
                HandleCommitRPC_Save, Exit, Goroutine, sendRPCs, replyToClient,
                ReceiveForwardedCommand, EnterHandler, HandlePrePrepareRPC,
                HandlePrepareRPC, HandleCommitRPC_Fatal, HandleCheckPointRPC_Check,
                HandleCheckPointRPC_Record, logVars
  <1>5. ASSUME NEW s \in Server, Make(s)
        PROVE  \A t \in Server, d \in Client :
                 t \notin remade' => clientRegisters'[t][d] >= clientRegisters[t][d]
    <2>1. s \in remade'
      BY <1>5 DEF Make
    <2>2. \A t \in Server : t # s => clientRegisters'[t] = clientRegisters[t]
      BY <1>5 DEF Make, Exit, logVars
    <2>3. \A t \in Server, d \in Client : clientRegisters[t][d] \in Nat
      OBVIOUS
    <2> QED BY <2>1, <2>2, <2>3
  <1>6. ASSUME clientRegisters' = clientRegisters, NEW t \in Server, NEW d \in Client
        PROVE  clientRegisters'[t][d] >= clientRegisters[t][d]
    <2>1. clientRegisters[t][d] \in Nat
      OBVIOUS
    <2>2. clientRegisters'[t][d] = clientRegisters[t][d]
      BY <1>6
    <2> QED BY <2>1, <2>2
  <1>7. ASSUME UNCHANGED vars
        PROVE  clientRegisters' = clientRegisters
    BY <1>7 DEF vars, logVars
  <1>8. \A t \in Server, c \in Client :
          t \notin remade' => clientRegisters'[t][c] >= clientRegisters[t][c]
    <2> HIDE DEF TypeOK, LogType
    <2> QED BY <1>3, <1>4, <1>5, <1>6, <1>7 DEF Next, Handler, GatedHandler
  <1> QED BY <1>1, <1>2, <1>8

LEMMA CoversStep ==
  ASSUME numFailableServers > 0 \/ (AgreedInv /\ Unrepeated),
         TypeOK, TypeOK', SoundLogs, [Next]_vars, Covers
  PROVE  Covers'
  <1>1. remade \subseteq remade'
    BY RemadeGrows
  <1>2. ASSUME NEW s \in Server, NEW r \in ReplyArg, s \notin remade', Covered(s, r)
        PROVE  Covered(s, r)'
    <2>1. /\ r.Message.ClientID \in Client /\ r.Message.Timestamp \in Nat
      BY CommandAssumption DEF ReplyArg
    <2>2. /\ clientRegisters[s][r.Message.ClientID] \in Nat
          /\ clientRegisters'[s][r.Message.ClientID] \in Nat
          /\ clientRegisters'[s][r.Message.ClientID] >= clientRegisters[s][r.Message.ClientID]
      BY <1>2, <2>1, RegistersGrow DEF TypeOK, LogType
    <2> QED BY <1>2, <2>1, <2>2 DEF Covered
  <1>3. ASSUME NEW t \in Server, NEW job \in outbox[t], job.phase = "REPLY_TO_CLIENT"
        PROVE  job.args.ServerID = t /\ (t \notin remade' => Covered(t, job.args)')
    <2>1. job.args \in ReplyArg
      BY <1>3, RequestFields DEF TypeOK, NetType, Job
    <2> QED BY <1>1, <1>2, <1>3, <2>1 DEF Covers
  <1>4. ASSUME NEW r \in replies', r.ServerID \notin remade'
        PROVE  Covered(r.ServerID, r)'
    <2>1. CASE r \in replies
      <3>1. r \in ReplyArg /\ r.ServerID \in Server
        BY <2>1 DEF TypeOK, NetType, ReplyArg
      <3> QED BY <1>1, <1>2, <1>4, <2>1, <3>1 DEF Covers
    <2> QED BY <1>3, <1>4, <2>1, NewReplies
  <1>5. ASSUME NEW t \in Server, NEW job \in outbox'[t], job.phase = "REPLY_TO_CLIENT"
        PROVE  job.args.ServerID = t /\ (t \notin remade' => Covered(t, job.args)')
    <2>1. CASE job \in outbox[t]
      BY <1>3, <1>5, <2>1
    <2>2. CASE JobOrigin(t, job)
      <3>1. PICK n \in Slot :
              /\ Prepared(t, n) /\ \E c : job = CommitReply(t, n, c)
              /\ \/ numFailableServers = 0 /\ StartedAgain(t, n)
                 \/ \E m \in msgs : /\ HandleCommitRPC(t, m) /\ ValidCommit(t, m.args)
                                    /\ n = m.args.arg.SequenceNumber
        BY <1>5, <2>2, RepliesPrepared
      <3>2. job.args.Message = serverLog[t][n].message /\ job.args.ServerID = t
        BY <3>1 DEF CommitReply, Reply
      <3>3. CASE t \in remade
        BY <1>1, <3>2, <3>3
      <3>4. CASE t \notin remade
        <4>1. numFailableServers = 0 => ~StartedAgain(t, n)
          BY <3>1, <3>4, ServersFinite, NeverAgain DEF Prepared
        <4>2. PICK m \in msgs : /\ HandleCommitRPC(t, m) /\ ValidCommit(t, m.args)
                                /\ n = m.args.arg.SequenceNumber
          BY <3>1, <4>1
        <4> QED BY <3>2, <4>2, RegistersGrow DEF Covered
      <3> QED BY <3>3, <3>4
    <2> QED BY <2>1, <2>2, NewJobs
  <1> QED BY <1>4, <1>5 DEF Covers

\* The register of a server that is not started again covers every command it has
\* replied to, for any number of servers, whatever the order in which the commits
\* arrive and whoever else stops or starts again.  (Where the system tolerates no
\* failure, only the leader's pre-prepares being sent once keeps a processed slot from
\* being answered before it is executed.)
THEOREM RegistersCorrect == Spec => []RegisterCoversReplies
  <1> DEFINE Condition == numFailableServers > 0 \/ leader(0) \notin remade
             Agreed == leader(0) \notin remade => AgreedInv
             Sent == leader(0) \notin remade => Unrepeated
             Inv == Condition => Covers
  <1>1. Init => Inv
    BY DEF Init, Covers
  <1>2. /\ TypeOK /\ TypeOK' /\ SoundLogs /\ Agreed /\ Sent /\ Inv
        /\ [Next]_vars
        => Inv'
    <2> SUFFICES ASSUME TypeOK, TypeOK', SoundLogs, Agreed, Sent, Inv, [Next]_vars,
                        Condition'
                 PROVE  Covers'
      OBVIOUS
    <2>1. Condition /\ (numFailableServers > 0 \/ leader(0) \notin remade)
      BY RemadeGrows DEF numFailableServers, leader
    <2> QED BY <2>1, CoversStep
  <1>3. Inv => RegisterCoversReplies
    BY DEF Covers, Covered, RegisterCoversReplies
  <1> QED BY <1>1, <1>2, <1>3, EntriesSound, TypeCorrect, AgreedAlways,
             UnrepeatedAlways, PTL DEF Spec

-----------------------------------------------------------------------------
(* The last checkpoint.                                                     *)

LEMMA FirstInterval ==
  ASSUME NEW n \in Nat, NEW i \in Nat \ {0}, n < i
  PROVE  n \div i = 0
  BY SMTT(30)

LEMMA RetainedStep ==
  ASSUME \A n \in Slot : n < CheckPointInterval,
         TypeOK, LastCheckpointRetained, [Next]_vars
  PROVE  LastCheckpointRetained'
  <1> USE DEF LastCheckpointRetained
  <1>1. CASE UNCHANGED <<commandExecuted, lastCheckPointSeqNumber, checkPoints>>
    BY <1>1
  <1>2. ASSUME NEW s \in Server, NEW m \in msgs, HandleCommitRPC(s, m)
        PROVE  LastCheckpointRetained'
    <2> DEFINE n == m.args.arg.SequenceNumber
               info == [ConfirmedServers |-> {}, IsStable |-> FALSE]
    <2>1. CASE ~ValidCommit(s, m.args)
      BY <1>1, <1>2, <2>1 DEF HandleCommitRPC
    <2>2. CASE ValidCommit(s, m.args)
      <3>1. n \in Slot
        BY <1>2, MessageFields DEF HandleCommitRPC, Handles, TypeOK, VoteArg
      <3>2. TakesCheckPoint(n)
        BY <3>1, CommandAssumption, BoundAssumption, FirstInterval DEF TakesCheckPoint
      <3>3. /\ checkPoints' = [checkPoints EXCEPT ![s][n] = info]
            /\ lastCheckPointSeqNumber' = [lastCheckPointSeqNumber EXCEPT ![s] = n]
            /\ commandExecuted' = [commandExecuted EXCEPT ![s] = @ + 1]
        BY <1>2, <2>2, <3>2 DEF HandleCommitRPC
      <3>4. info # NoCheckPoint
        <4>1. info \in CheckPointInfo
          BY DEF CheckPointInfo
        <4> HIDE DEF info
        <4> QED BY <4>1, AbsentAssumption
      <3> HIDE DEF n, info
      <3> QED BY <3>1, <3>3, <3>4 DEF TypeOK, CkptType, ChanType
    <2> QED BY <2>1, <2>2
  <1>3. ASSUME NEW s \in Server, NEW a \in checking[s], HandleCheckPointRPC_Record(s, a)
        PROVE  LastCheckpointRetained'
    <2>1. CASE Exit(s)
      BY <1>1, <2>1 DEF Exit, chanVars
    <2>2. CASE ~Exit(s)
      <3> DEFINE n == a.SequenceNumber
                 info == checkPoints[s][n]
                 noted == [ConfirmedServers |-> info.ConfirmedServers \cup {a.SenderIndex},
                           IsStable |-> info.IsStable \/ BecomesStable(s, a)]
                 kept(k) == IF BecomesStable(s, a) /\ ~Retained(s, k) THEN NoCheckPoint
                            ELSE IF k = n THEN noted ELSE checkPoints[s][k]
      <3>1. /\ checkPoints' = [checkPoints EXCEPT ![s] = [k \in Slot |-> kept(k)]]
            /\ UNCHANGED <<lastCheckPointSeqNumber, commandExecuted>>
        BY <1>3, <2>2 DEF HandleCheckPointRPC_Record, chanVars
      <3>2. noted # NoCheckPoint
        <4>1. info \in CheckPointInfo /\ a.SenderIndex \in Server
          BY <1>3, <2>2 DEF HandleCheckPointRPC_Record, TypeOK, CkptType, CheckPointArg
        <4>2. /\ info.ConfirmedServers \subseteq Server /\ info.IsStable \in BOOLEAN
              /\ BecomesStable(s, a) \in BOOLEAN
          BY <4>1 DEF CheckPointInfo, BecomesStable
        <4>3. (info.IsStable \/ BecomesStable(s, a)) \in BOOLEAN
          BY <4>2, Zenon
        <4> HIDE DEF info
        <4>4. noted \in CheckPointInfo
          BY <4>1, <4>2, <4>3 DEF CheckPointInfo
        <4> QED BY <4>4, AbsentAssumption
      <3>3. Retained(s, lastCheckPointSeqNumber[s])
        BY DEF Retained, TypeOK, CkptType
      <3>4. ASSUME NEW k \in Slot, Retained(s, k), checkPoints[s][k] # NoCheckPoint
            PROVE  kept(k) # NoCheckPoint
        BY <3>2, <3>4
      <3> HIDE DEF kept
      <3> QED BY <3>1, <3>3, <3>4 DEF TypeOK, CkptType
    <2> QED BY <2>1, <2>2
  <1>4. ASSUME NEW s \in Server, Make(s)
        PROVE  LastCheckpointRetained'
    <2>1. CASE Exit(s)
      BY <1>1, <2>1 DEF Exit, chanVars
    <2>2. CASE ~Exit(s)
      <3>1. /\ commandExecuted' = [commandExecuted EXCEPT ![s] = 0]
            /\ lastCheckPointSeqNumber' = [lastCheckPointSeqNumber EXCEPT
                 ![s] = disk[s].lastCheckPointSeqNumber]
            /\ checkPoints' = [checkPoints EXCEPT ![s] = [k \in Slot |-> NoCheckPoint]]
        BY <1>4, <2>2 DEF Make, readPersist
      <3> QED BY <3>1 DEF TypeOK, CkptType, ChanType
    <2> QED BY <2>1, <2>2
  <1>5. ASSUME NEW s \in Server,
               \/ (\E c \in Command : Start(s, c)) \/ Crash(s)
               \/ HandleCommitRPC_Save(s) \/ Goroutine(s)
               \/ \E m \in msgs :
                    \/ ReceiveForwardedCommand(s, m) \/ EnterHandler(s, m)
                    \/ HandlePrePrepareRPC(s, m) \/ HandlePrepareRPC(s, m)
                    \/ HandleCommitRPC_Fatal(s, m) \/ HandleCheckPointRPC_Check(s, m)
        PROVE  UNCHANGED <<commandExecuted, lastCheckPointSeqNumber, checkPoints>>
    BY <1>5 DEF Start, StartBody, Crash,
                HandleCommitRPC_Save, Exit, Goroutine, sendRPCs, replyToClient,
                ReceiveForwardedCommand, EnterHandler, HandlePrePrepareRPC,
                HandlePrepareRPC, HandleCommitRPC_Fatal, HandleCheckPointRPC_Check,
                ckptVars, chanVars
  <1>6. CASE UNCHANGED vars
    BY <1>1, <1>6 DEF vars, ckptVars, chanVars
  <1> QED BY <1>1, <1>2, <1>3, <1>4, <1>5, <1>6 DEF Next, Handler, GatedHandler

\* A server that has executed a command still has the checkpoint its last checkpoint
\* number names, while every slot is in the first checkpoint interval, for any number
\* of servers, crashes and restarts.
THEOREM LastCheckpointCorrect ==
  ASSUME \A n \in Slot : n < CheckPointInterval
  PROVE  Spec => []LastCheckpointRetained
  <1>1. Init => LastCheckpointRetained
    BY DEF Init, LastCheckpointRetained
  <1>2. TypeOK /\ LastCheckpointRetained /\ [Next]_vars => LastCheckpointRetained'
    BY RetainedStep
  <1> QED BY <1>1, <1>2, TypeCorrect, PTL DEF Spec

-----------------------------------------------------------------------------
(* The newest checkpoint.                                                   *)

HasLater(s, n) == \E k \in Slot : k >= n /\ checkPoints[s][k] # NoCheckPoint

\* A server that has any checkpoint has the one its last checkpoint number names.
LastKept ==
  \A s \in Server :
    (\E k \in Slot : checkPoints[s][k] # NoCheckPoint) =>
      /\ lastCheckPointSeqNumber[s] \in Slot
      /\ checkPoints[s][lastCheckPointSeqNumber[s]] # NoCheckPoint

\* Only Make makes a server have no checkpoint as late as one it had: what is removed is
\* older than the last, which is kept.
LEMMA LaterStay ==
  ASSUME TypeOK, LastKept, [Next]_vars
  PROVE  /\ LastKept'
         /\ \A s \in Server \ remade', n \in Slot : HasLater(s, n) => HasLater(s, n)'
  <1> USE DEF LastKept, HasLater
  <1> DEFINE Stay == \A s \in Server \ remade', n \in Slot : HasLater(s, n) => HasLater(s, n)'
  <1>1. CASE UNCHANGED <<lastCheckPointSeqNumber, checkPoints>>
    BY <1>1
  <1>2. ASSUME NEW s \in Server, NEW m \in msgs, HandleCommitRPC(s, m)
        PROVE  LastKept' /\ Stay
    <2> DEFINE n == m.args.arg.SequenceNumber
               info == [ConfirmedServers |-> {}, IsStable |-> FALSE]
    <2>1. n \in Slot
      BY <1>2, MessageFields DEF HandleCommitRPC, Handles, TypeOK, VoteArg
    <2>2. CASE ~(ValidCommit(s, m.args) /\ TakesCheckPoint(n))
      <3>1. UNCHANGED <<lastCheckPointSeqNumber, checkPoints>>
        <4> HIDE DEF HasLater, LastKept
        <4>1. CASE ~ValidCommit(s, m.args)
          BY <1>2, <4>1 DEF HandleCommitRPC
        <4>2. CASE ValidCommit(s, m.args)
          <5>1. ~TakesCheckPoint(n)
            BY <2>2, <4>2
          <5>2. /\ checkPoints' = [checkPoints EXCEPT ![s][n] = checkPoints[s][n]]
                /\ lastCheckPointSeqNumber' =
                     [lastCheckPointSeqNumber EXCEPT ![s] = lastCheckPointSeqNumber[s]]
            BY <1>2, <4>2, <5>1 DEF HandleCommitRPC
          <5> HIDE DEF n
          <5> QED BY <2>1, <5>2 DEF TypeOK, CkptType
        <4> QED BY <4>1, <4>2
      <3> QED BY <1>1, <3>1
    <2>3. CASE ValidCommit(s, m.args) /\ TakesCheckPoint(n)
      <3>1. /\ checkPoints' = [checkPoints EXCEPT ![s][n] = info]
            /\ lastCheckPointSeqNumber' = [lastCheckPointSeqNumber EXCEPT ![s] = n]
        BY <1>2, <2>3 DEF HandleCommitRPC
      <3>2. info # NoCheckPoint
        <4>1. info \in CheckPointInfo
          BY DEF CheckPointInfo
        <4> HIDE DEF info
        <4> QED BY <4>1, AbsentAssumption
      <3> HIDE DEF n, info
      <3>3. \A t \in Server, k \in Slot :
              checkPoints'[t][k] = IF t = s /\ k = n THEN info ELSE checkPoints[t][k]
        BY <2>1, <3>1 DEF TypeOK, CkptType
      <3>4. \A t \in Server :
              lastCheckPointSeqNumber'[t] = IF t = s THEN n ELSE lastCheckPointSeqNumber[t]
        BY <3>1 DEF TypeOK, CkptType
      <3> QED BY <2>1, <3>2, <3>3, <3>4
    <2> QED BY <2>2, <2>3
  <1>3. ASSUME NEW s \in Server, NEW a \in checking[s], HandleCheckPointRPC_Record(s, a)
        PROVE  LastKept' /\ Stay
    <2>1. CASE Exit(s)
      BY <1>1, <2>1 DEF Exit
    <2>2. CASE ~Exit(s)
      <3> DEFINE n == a.SequenceNumber
                 last == lastCheckPointSeqNumber[s]
                 info == checkPoints[s][n]
                 noted == [ConfirmedServers |-> info.ConfirmedServers \cup {a.SenderIndex},
                           IsStable |-> info.IsStable \/ BecomesStable(s, a)]
                 kept(k) == IF BecomesStable(s, a) /\ ~Retained(s, k) THEN NoCheckPoint
                            ELSE IF k = n THEN noted ELSE checkPoints[s][k]
      <3>1. /\ checkPoints' = [checkPoints EXCEPT ![s] = [k \in Slot |-> kept(k)]]
            /\ UNCHANGED lastCheckPointSeqNumber
            /\ n \in Slot /\ info # NoCheckPoint
        BY <1>3, <2>2 DEF HandleCheckPointRPC_Record, TypeOK, CkptType, CheckPointArg
      <3>2. noted # NoCheckPoint
        <4>1. info \in CheckPointInfo /\ a.SenderIndex \in Server
          BY <1>3, <3>1 DEF TypeOK, CkptType, CheckPointArg
        <4>2. /\ info.ConfirmedServers \subseteq Server /\ info.IsStable \in BOOLEAN
              /\ BecomesStable(s, a) \in BOOLEAN
          BY <4>1 DEF CheckPointInfo, BecomesStable
        <4>3. (info.IsStable \/ BecomesStable(s, a)) \in BOOLEAN
          BY <4>2, Zenon
        <4> HIDE DEF info
        <4>4. noted \in CheckPointInfo
          BY <4>1, <4>2, <4>3 DEF CheckPointInfo
        <4> QED BY <4>4, AbsentAssumption
      <3>3. last \in Slot /\ checkPoints[s][last] # NoCheckPoint
        BY <3>1
      <3>4. \A k \in Slot : k >= last /\ checkPoints[s][k] # NoCheckPoint => kept(k) # NoCheckPoint
        BY <3>2 DEF Retained
      <3>5. \A k \in Slot : k \in Nat
        BY CommandAssumption
      <3> HIDE DEF kept, noted, info, last, n
      <3>6. /\ \A k \in Slot : checkPoints'[s][k] = kept(k)
            /\ \A t \in Server \ {s} : checkPoints'[t] = checkPoints[t]
        BY <3>1 DEF TypeOK, CkptType
      <3>7. checkPoints'[s][last] # NoCheckPoint
        BY <3>3, <3>4, <3>5, <3>6
      <3>8. LastKept'
        BY <3>1, <3>3, <3>6, <3>7 DEF last
      <3>9. ASSUME NEW j \in Slot, HasLater(s, j)
            PROVE  HasLater(s, j)'
        <4>1. PICK k \in Slot : k >= j /\ checkPoints[s][k] # NoCheckPoint
          BY <3>9
        <4>2. CASE k >= last
          BY <3>4, <3>6, <4>1, <4>2
        <4>3. CASE k < last
          BY <3>3, <3>5, <3>7, <4>1, <4>3
        <4> QED BY <3>3, <3>5, <4>2, <4>3
      <3> QED BY <3>6, <3>8, <3>9
    <2> QED BY <2>1, <2>2
  <1>4. ASSUME NEW s \in Server, Make(s)
        PROVE  LastKept' /\ Stay
    <2>1. CASE Exit(s)
      BY <1>1, <2>1 DEF Exit
    <2>2. CASE ~Exit(s)
      <3>1. checkPoints' = [checkPoints EXCEPT ![s] = [k \in Slot |-> NoCheckPoint]]
        BY <1>4, <2>2 DEF Make, readPersist
      <3>2. /\ \A t \in Server \ {s} : lastCheckPointSeqNumber'[t] = lastCheckPointSeqNumber[t]
            /\ s \in remade'
        BY <1>4, <2>2 DEF Make, readPersist, TypeOK, CkptType
      <3>3. /\ \A t \in Server \ {s} : checkPoints'[t] = checkPoints[t]
            /\ \A k \in Slot : checkPoints'[s][k] = NoCheckPoint
        BY <3>1 DEF TypeOK, CkptType
      <3> QED BY <3>2, <3>3
    <2> QED BY <2>1, <2>2
  <1>5. ASSUME NEW s \in Server,
               \/ (\E c \in Command : Start(s, c)) \/ Crash(s)
               \/ HandleCommitRPC_Save(s) \/ Goroutine(s)
               \/ \E m \in msgs :
                    \/ ReceiveForwardedCommand(s, m) \/ EnterHandler(s, m)
                    \/ HandlePrePrepareRPC(s, m) \/ HandlePrepareRPC(s, m)
                    \/ HandleCommitRPC_Fatal(s, m) \/ HandleCheckPointRPC_Check(s, m)
        PROVE  UNCHANGED <<lastCheckPointSeqNumber, checkPoints>>
    BY <1>5 DEF Start, StartBody, Crash,
                HandleCommitRPC_Save, Exit, Goroutine, sendRPCs, replyToClient,
                ReceiveForwardedCommand, EnterHandler, HandlePrePrepareRPC,
                HandlePrepareRPC, HandleCommitRPC_Fatal, HandleCheckPointRPC_Check,
                ckptVars, chanVars
  <1>6. CASE UNCHANGED vars
    BY <1>1, <1>6 DEF vars, ckptVars
  <1> HIDE DEF LastKept, HasLater, Stay
  <1>7. ASSUME UNCHANGED <<lastCheckPointSeqNumber, checkPoints>>
        PROVE  LastKept' /\ Stay
    BY <1>1, <1>7 DEF Stay
  <1>8. ASSUME Next
        PROVE  LastKept' /\ Stay
    BY <1>2, <1>3, <1>4, <1>5, <1>7, <1>8 DEF Next, Handler, GatedHandler
  <1> QED BY <1>6, <1>8 DEF Stay

\* A confirmation that waits for the lock has waited before, or has just found its
\* checkpoint.
LEMMA ChecksFind ==
  ASSUME TypeOK, [Next]_vars
  PROVE  \A s \in Server : \A a \in checking'[s] :
           \/ a \in checking[s]
           \/ a.SequenceNumber \in Slot /\ checkPoints'[s][a.SequenceNumber] # NoCheckPoint
  <1>1. ASSUME NEW t \in Server, NEW m \in msgs, HandleCheckPointRPC_Check(t, m)
        PROVE  \A s \in Server : \A a \in checking'[s] :
                 \/ a \in checking[s]
                 \/ a.SequenceNumber \in Slot /\ checkPoints'[s][a.SequenceNumber] # NoCheckPoint
    <2>1. CASE Exit(t)
      BY <2>1 DEF Exit, TypeOK, CkptType
    <2>2. CASE ~Exit(t)
      <3>1. /\ checking' = [checking EXCEPT ![t] = @ \cup {m.args.arg}]
            /\ checkPoints' = checkPoints /\ m.phase = "CHECK_POINT"
            /\ checkPoints[t][m.args.arg.SequenceNumber] # NoCheckPoint
        BY <1>1, <2>2 DEF HandleCheckPointRPC_Check, KnownCheckPoint
      <3>2. m.args.arg.SequenceNumber \in Slot
        BY <3>1, MessageFields DEF TypeOK, CheckPointArg
      <3> QED BY <3>1, <3>2 DEF TypeOK, CkptType
    <2> QED BY <2>1, <2>2
  <1>2. ASSUME NEW s \in Server, NEW a \in checking[s], HandleCheckPointRPC_Record(s, a)
        PROVE  \A t \in Server : checking'[t] \subseteq checking[t]
    BY <1>2 DEF HandleCheckPointRPC_Record, Exit, TypeOK, CkptType
  <1>3. ASSUME NEW s \in Server, Exit(s)
        PROVE  \A t \in Server : checking'[t] \subseteq checking[t]
    BY <1>3 DEF Exit, TypeOK, CkptType
  <1>4. ASSUME NEW s \in Server, ~Exit(s),
               \/ (\E c \in Command : Start(s, c)) \/ Crash(s)
               \/ HandleCommitRPC_Save(s) \/ Make(s) \/ Goroutine(s)
               \/ \E m \in msgs :
                    \/ ReceiveForwardedCommand(s, m) \/ EnterHandler(s, m)
                    \/ HandlePrePrepareRPC(s, m) \/ HandlePrepareRPC(s, m)
                    \/ HandleCommitRPC(s, m) \/ HandleCommitRPC_Fatal(s, m)
        PROVE  checking' = checking
    BY <1>4 DEF Start, StartBody, Crash,
                HandleCommitRPC_Save, Make, Goroutine, sendRPCs, replyToClient,
                ReceiveForwardedCommand, EnterHandler, HandlePrePrepareRPC,
                HandlePrepareRPC, HandleCommitRPC, HandleCommitRPC_Fatal, ckptVars
  <1>5. CASE UNCHANGED vars
    BY <1>5 DEF vars, ckptVars
  <1> QED BY <1>1, <1>2, <1>3, <1>4, <1>5 DEF Next, Handler, GatedHandler

LEMMA NewestStep ==
  ASSUME TypeOK, LastKept, NewestCheckPointStays, [Next]_vars
  PROVE  LastKept' /\ NewestCheckPointStays'
  <1>1. LastKept' /\ \A s \in Server \ remade', n \in Slot : HasLater(s, n) => HasLater(s, n)'
    BY LaterStay
  <1>2. SUFFICES ASSUME NEW s \in Server \ remade', NEW a \in checking'[s]
                 PROVE  HasLater(s, a.SequenceNumber)'
    BY <1>1 DEF NewestCheckPointStays, HasLater
  <1>3. CASE a \in checking[s]
    <2>1. s \notin remade /\ a.SequenceNumber \in Slot
      BY <1>3, RemadeGrows DEF TypeOK, CkptType, CheckPointArg
    <2>2. HasLater(s, a.SequenceNumber)
      BY <1>3, <2>1 DEF NewestCheckPointStays, HasLater
    <2> QED BY <1>1, <2>1, <2>2
  <1>4. CASE a.SequenceNumber \in Slot /\ checkPoints'[s][a.SequenceNumber] # NoCheckPoint
    <2>1. PICK n \in Nat : n = a.SequenceNumber
      BY <1>4, CommandAssumption
    <2>2. n >= n
      OBVIOUS
    <2> QED BY <1>4, <2>1, <2>2 DEF HasLater
  <1> QED BY <1>2, <1>3, <1>4, ChecksFind

\* A confirmation that finds its checkpoint gone when it has the lock is of one that a
\* later one follows, for any number of servers, crashes and restarts, and in every
\* checkpoint interval.
THEOREM NewestCheckPointCorrect == Spec => []NewestCheckPointStays
  <1>1. Init => LastKept /\ NewestCheckPointStays
    BY DEF Init, LastKept, NewestCheckPointStays
  <1>2. TypeOK /\ LastKept /\ NewestCheckPointStays /\ [Next]_vars
        => LastKept' /\ NewestCheckPointStays'
    BY NewestStep
  <1> QED BY <1>1, <1>2, TypeCorrect, PTL DEF Spec

-----------------------------------------------------------------------------
(* Checkpoints, while Make does not run again on the leader.                *)

Vouches(a) == StandsBy(a.SenderIndex, a.SequenceNumber)

\* A checkpoint is of a prepared slot, and so is each confirmation of it.
SoundCheckPoint(s, n, info) ==
  /\ StandsBy(s, n)
  /\ \A t \in info.ConfirmedServers : t # s /\ StandsBy(t, n)
  /\ info.IsStable => Cardinality(info.ConfirmedServers) >= 2 * numFailableServers

\* Who asks for a confirmation has prepared the slot, and asks the others only.
CheckPointsSound ==
  /\ \A m \in msgs :
       m.phase = "CHECK_POINT" => m.to # m.args.arg.SenderIndex /\ Vouches(m.args.arg)
  /\ \A t \in Server : \A job \in outbox[t] :
       job.phase = "CHECK_POINT" =>
         job.args.arg.SenderIndex = t /\ Vouches(job.args.arg)
  /\ \A s \in Server : \A a \in checking[s] : a.SenderIndex # s /\ Vouches(a)
  /\ \A s \in Server, n \in Slot :
       checkPoints[s][n] # NoCheckPoint => SoundCheckPoint(s, n, checkPoints[s][n])

\* A prepared slot stays prepared, but where Make has run again.
LEMMA PreparedStays ==
  ASSUME AgreedInv, AgreedInv', [Next]_vars
  PROVE  \A t \in Server, k \in Slot : StandsBy(t, k) => StandsBy(t, k)'
  <1> SUFFICES ASSUME NEW t \in Server, NEW k \in Slot, Prepared(t, k), t \notin remade'
               PROVE  Prepared(t, k)'
    BY RemadeGrows DEF StandsBy
  <1> DEFINE P == serverLog[t][k].prepareArgs
             f == [p \in P |-> p.SenderIndex]
             Q == serverLog'[t][k].prepareArgs
  <1>1. Stays(t, k)
    BY AllStay DEF Prepared
  <1>2. Logged(t, k)' /\ P \subseteq Q
    BY <1>1 DEF Stays, Logged
  <1>3. /\ \A p, q \in Q : p.SenderIndex = q.SenderIndex => p = q
        /\ \A p \in Q : p.SenderIndex \in Server
    BY <1>2 DEF AgreedInv, SoundLogs, SoundEntry, OrderInv, TypeOK, LogType, Logged,
                Entry, VoteArg
  <1>4. Cardinality(P) >= calculateMajority
    BY DEF Prepared
  <1> HIDE DEF P, Q
  <1>5. IsFiniteSet(Q)
    <2> DEFINE g == [p \in Q |-> p.SenderIndex]
    <2>1. g \in Injection(Q, Server)
      BY <1>3 DEF Injection, IsInjective
    <2> QED BY <2>1, ServersFinite, FS_Injection
  <1>6. /\ Cardinality(P) <= Cardinality(Q)
        /\ Cardinality(P) \in Nat /\ Cardinality(Q) \in Nat
    BY <1>2, <1>5, FS_Subset, FS_CardinalityType
  <1>7. Cardinality(Q) >= calculateMajority
    BY <1>4, <1>6, ServersFinite
  <1> QED BY <1>2, <1>7 DEF Prepared, Q

\* Where a request in flight comes from.
LEMMA NewMessages ==
  ASSUME TypeOK, [Next]_vars
  PROVE  \A m \in msgs' :
           \/ m \in msgs
           \/ \E t \in Server : \E job \in outbox[t] :
                /\ job.phase = m.phase /\ job.args = m.args
                /\ m.phase # "FORWARD_COMMAND" => m.to # t
  <1>1. ASSUME NEW s \in Server, NEW job \in outbox[s], sendRPCs(s, job)
        PROVE  \A m \in msgs' :
                 \/ m \in msgs
                 \/ /\ job.phase = m.phase /\ job.args = m.args
                    /\ m.phase # "FORWARD_COMMAND" => m.to # s
    BY <1>1 DEF sendRPCs, Destinations, Exit
  <1>2. ASSUME NEW s \in Server,
               \/ (\E c \in Command : Start(s, c)) \/ Crash(s)
               \/ HandleCommitRPC_Save(s) \/ Make(s)
               \/ \E job \in outbox[s] : replyToClient(s, job)
               \/ Handler(s)
        PROVE  msgs' \subseteq msgs
    BY <1>2 DEF Start, Crash,
                HandleCommitRPC_Save, Make, Exit, netVars, replyToClient, Handler,
                GatedHandler, ReceiveForwardedCommand, EnterHandler, Handles,
                HandlePrePrepareRPC, HandlePrepareRPC, HandleCommitRPC,
                HandleCommitRPC_Fatal, HandleCheckPointRPC_Check,
                HandleCheckPointRPC_Record
  <1>3. CASE UNCHANGED vars
    BY <1>3 DEF vars, netVars
  <1> QED BY <1>1, <1>2, <1>3 DEF Next, Goroutine

\* Where a confirmation comes from that waits for the lock.
LEMMA NewChecks ==
  ASSUME TypeOK, [Next]_vars
  PROVE  \A s \in Server : \A a \in checking'[s] :
           \/ a \in checking[s]
           \/ \E m \in msgs : m.to = s /\ m.phase = "CHECK_POINT" /\ a = m.args.arg
  <1> USE DEF TypeOK, CkptType
  <1>1. ASSUME NEW s \in Server, NEW m \in msgs, HandleCheckPointRPC_Check(s, m)
        PROVE  \A t \in Server : \A a \in checking'[t] :
                 \/ a \in checking[t]
                 \/ t = s /\ m.to = s /\ m.phase = "CHECK_POINT" /\ a = m.args.arg
    BY <1>1 DEF HandleCheckPointRPC_Check, Exit
  <1>2. ASSUME NEW s \in Server, NEW a \in checking[s], HandleCheckPointRPC_Record(s, a)
        PROVE  \A t \in Server : checking'[t] \subseteq checking[t]
    BY <1>2 DEF HandleCheckPointRPC_Record, Exit
  <1>3. ASSUME NEW s \in Server, Exit(s)
        PROVE  \A t \in Server : checking'[t] \subseteq checking[t]
    BY <1>3 DEF Exit
  <1>4. ASSUME NEW s \in Server, ~Exit(s),
               \/ (\E c \in Command : Start(s, c)) \/ Crash(s)
               \/ HandleCommitRPC_Save(s) \/ Make(s) \/ Goroutine(s)
               \/ \E m \in msgs :
                    \/ ReceiveForwardedCommand(s, m) \/ EnterHandler(s, m)
                    \/ HandlePrePrepareRPC(s, m) \/ HandlePrepareRPC(s, m)
                    \/ HandleCommitRPC(s, m) \/ HandleCommitRPC_Fatal(s, m)
        PROVE  checking' = checking
    BY <1>4 DEF Start, StartBody, Crash,
                HandleCommitRPC_Save, Make, Goroutine, sendRPCs, replyToClient,
                ReceiveForwardedCommand, EnterHandler, HandlePrePrepareRPC,
                HandlePrepareRPC, HandleCommitRPC, HandleCommitRPC_Fatal, ckptVars
  <1>5. CASE UNCHANGED vars
    BY <1>5 DEF vars, ckptVars
  <1> HIDE DEF TypeOK, CkptType
  <1> QED BY <1>1, <1>2, <1>3, <1>4, <1>5 DEF Next, Handler, GatedHandler

\* What a step does to a checkpoint: a commit makes it anew, and a confirmation that
\* waited for the lock is added to it.
FreshCheckPoint(s, n, info) ==
  info.ConfirmedServers = {} /\ ~info.IsStable /\ Prepared(s, n)
NotedCheckPoint(s, n, info) ==
  \E a \in checking[s] :
    /\ a.SequenceNumber = n /\ checkPoints[s][n] # NoCheckPoint
    /\ info.ConfirmedServers = checkPoints[s][n].ConfirmedServers \cup {a.SenderIndex}
    /\ info.IsStable =>
         \/ checkPoints[s][n].IsStable
         \/ Cardinality(info.ConfirmedServers) >= 2 * numFailableServers

LEMMA NewCheckPoints ==
  ASSUME TypeOK, [Next]_vars
  PROVE  \A s \in Server, n \in Slot :
           checkPoints'[s][n] # NoCheckPoint =>
             \/ checkPoints'[s][n] = checkPoints[s][n]
             \/ FreshCheckPoint(s, n, checkPoints'[s][n])
             \/ NotedCheckPoint(s, n, checkPoints'[s][n])
  <1> DEFINE Goal == \A s \in Server, n \in Slot :
                       checkPoints'[s][n] # NoCheckPoint =>
                         \/ checkPoints'[s][n] = checkPoints[s][n]
                         \/ FreshCheckPoint(s, n, checkPoints'[s][n])
                         \/ NotedCheckPoint(s, n, checkPoints'[s][n])
  <1>1. CASE UNCHANGED checkPoints
    BY <1>1
  <1>2. ASSUME NEW s \in Server, NEW m \in msgs, HandleCommitRPC(s, m)
        PROVE  Goal
    <2> DEFINE n == m.args.arg.SequenceNumber
               info == [ConfirmedServers |-> {}, IsStable |-> FALSE]
    <2>1. CASE ~ValidCommit(s, m.args)
      BY <1>1, <1>2, <2>1 DEF HandleCommitRPC
    <2>2. CASE ValidCommit(s, m.args) /\ ~TakesCheckPoint(n)
      <3>1. checkPoints' = [checkPoints EXCEPT ![s][n] = checkPoints[s][n]]
        BY <1>2, <2>2 DEF HandleCommitRPC
      <3> HIDE DEF n
      <3>2. \A t \in Server, k \in Slot : checkPoints'[t][k] = checkPoints[t][k]
        BY <3>1 DEF TypeOK, CkptType
      <3> QED BY <3>2
    <2>3. CASE ValidCommit(s, m.args) /\ TakesCheckPoint(n)
      <3>1. n \in Slot
        BY <1>2, MessageFields DEF HandleCommitRPC, Handles, TypeOK, VoteArg
      <3>2. Prepared(s, n)
        BY <2>3 DEF ValidCommit, Prepared, Logged
      <3>3. checkPoints' = [checkPoints EXCEPT ![s][n] = info]
        BY <1>2, <2>3 DEF HandleCommitRPC
      <3>4. info.ConfirmedServers = {} /\ ~info.IsStable
        OBVIOUS
      <3> HIDE DEF n, info
      <3>5. \A t \in Server, k \in Slot :
              checkPoints'[t][k] = IF t = s /\ k = n THEN info ELSE checkPoints[t][k]
        BY <3>1, <3>3 DEF TypeOK, CkptType
      <3> QED BY <3>2, <3>4, <3>5 DEF FreshCheckPoint
    <2> QED BY <2>1, <2>2, <2>3
  <1>3. ASSUME NEW s \in Server, NEW a \in checking[s], HandleCheckPointRPC_Record(s, a)
        PROVE  Goal
    <2>1. CASE Exit(s)
      BY <1>1, <2>1 DEF Exit
    <2>2. CASE ~Exit(s)
      <3> DEFINE n == a.SequenceNumber
                 noted == [ConfirmedServers |->
                             checkPoints[s][n].ConfirmedServers \cup {a.SenderIndex},
                           IsStable |-> checkPoints[s][n].IsStable \/ BecomesStable(s, a)]
                 kept(k) == IF BecomesStable(s, a) /\ ~Retained(s, k) THEN NoCheckPoint
                            ELSE IF k = n THEN noted ELSE checkPoints[s][k]
      <3>1. /\ checkPoints' = [checkPoints EXCEPT ![s] = [k \in Slot |-> kept(k)]]
            /\ checkPoints[s][n] # NoCheckPoint
        BY <1>3, <2>2 DEF HandleCheckPointRPC_Record
      <3>2. \A k \in Slot : kept(k) \in {NoCheckPoint, noted, checkPoints[s][k]}
                            /\ (kept(k) = noted \/ kept(k) \in {NoCheckPoint, checkPoints[s][k]})
                            /\ (k # n => kept(k) \in {NoCheckPoint, checkPoints[s][k]})
        OBVIOUS
      <3>3. NotedCheckPoint(s, n, noted)
        <4>1. /\ noted.ConfirmedServers =
                   checkPoints[s][n].ConfirmedServers \cup {a.SenderIndex}
              /\ noted.IsStable <=> checkPoints[s][n].IsStable \/ BecomesStable(s, a)
          OBVIOUS
        <4>2. BecomesStable(s, a) =>
                Cardinality(noted.ConfirmedServers) >= 2 * numFailableServers
          BY DEF BecomesStable, StableQuorum
        <4> HIDE DEF noted
        <4> QED BY <3>1, <4>1, <4>2 DEF NotedCheckPoint
      <3> HIDE DEF kept, noted
      <3>4. \A t \in Server, k \in Slot :
              checkPoints'[t][k] = IF t = s THEN kept(k) ELSE checkPoints[t][k]
        BY <3>1 DEF TypeOK, CkptType
      <3>5. ASSUME NEW k \in Slot, checkPoints'[s][k] # NoCheckPoint
            PROVE  \/ checkPoints'[s][k] = checkPoints[s][k]
                   \/ NotedCheckPoint(s, k, checkPoints'[s][k])
        <4>1. CASE k = n
          BY <3>2, <3>3, <3>4, <3>5, <4>1
        <4>2. CASE k # n
          BY <3>2, <3>4, <3>5, <4>2
        <4> QED BY <4>1, <4>2
      <3> QED BY <3>4, <3>5
    <2> QED BY <2>1, <2>2
  <1>4. ASSUME NEW s \in Server,
               \/ (\E c \in Command : Start(s, c)) \/ Crash(s)
               \/ HandleCommitRPC_Save(s) \/ Goroutine(s)
               \/ \E m \in msgs :
                    \/ ReceiveForwardedCommand(s, m) \/ EnterHandler(s, m)
                    \/ HandlePrePrepareRPC(s, m) \/ HandlePrepareRPC(s, m)
                    \/ HandleCommitRPC_Fatal(s, m) \/ HandleCheckPointRPC_Check(s, m)
        PROVE  UNCHANGED checkPoints
    BY <1>4 DEF Start, StartBody, Crash,
                HandleCommitRPC_Save, Exit, Goroutine, sendRPCs, replyToClient,
                ReceiveForwardedCommand, EnterHandler, HandlePrePrepareRPC,
                HandlePrepareRPC, HandleCommitRPC_Fatal, HandleCheckPointRPC_Check,
                ckptVars
  <1>5. ASSUME NEW s \in Server, Make(s)
        PROVE  Goal
    <2>1. CASE Exit(s)
      BY <1>1, <2>1 DEF Exit
    <2>2. CASE ~Exit(s)
      <3>1. checkPoints' = [checkPoints EXCEPT ![s] = [k \in Slot |-> NoCheckPoint]]
        BY <1>5, <2>2 DEF Make, readPersist
      <3> QED BY <3>1 DEF TypeOK, CkptType
    <2> QED BY <2>1, <2>2
  <1>6. CASE UNCHANGED vars
    BY <1>1, <1>6 DEF vars, ckptVars
  <1> HIDE DEF Goal
  <1>7. Goal
    BY <1>2, <1>3, <1>4, <1>5, <1>6 DEF Next, Handler, GatedHandler, Goal
  <1> QED BY <1>7 DEF Goal

LEMMA CheckPointsStep ==
  ASSUME AgreedInv, AgreedInv', [Next]_vars, CheckPointsSound
  PROVE  CheckPointsSound'
  <1>1. TypeOK /\ TypeOK'
    BY DEF AgreedInv, OrderInv
  <1>2. ASSUME NEW a \in CheckPointArg, Vouches(a)
        PROVE  Vouches(a)'
    BY <1>2, PreparedStays DEF Vouches, CheckPointArg
  <1>3. ASSUME NEW m \in msgs, m.phase = "CHECK_POINT"
        PROVE  /\ m.to # m.args.arg.SenderIndex /\ Vouches(m.args.arg)
               /\ Vouches(m.args.arg)'
    BY <1>1, <1>2, <1>3, MessageFields DEF CheckPointsSound, TypeOK
  <1>4. ASSUME NEW t \in Server, NEW job \in outbox[t], job.phase = "CHECK_POINT"
        PROVE  job.args.arg.SenderIndex = t /\ Vouches(job.args.arg)'
    <2>1. job.args.arg \in CheckPointArg
      BY <1>1, <1>4, RequestFields DEF TypeOK, NetType, Job
    <2> QED BY <1>2, <1>4, <2>1 DEF CheckPointsSound
  <1>5. ASSUME NEW m \in msgs', m.phase = "CHECK_POINT"
        PROVE  m.to # m.args.arg.SenderIndex /\ Vouches(m.args.arg)'
    <2>1. CASE m \in msgs
      BY <1>3, <1>5, <2>1
    <2>2. ASSUME NEW t \in Server, NEW job \in outbox[t], job.phase = m.phase,
                 job.args = m.args, m.to # t
          PROVE  m.to # m.args.arg.SenderIndex /\ Vouches(m.args.arg)'
      BY <1>4, <1>5, <2>2
    <2> QED BY <1>1, <1>5, <2>1, <2>2, NewMessages
  <1>6. ASSUME NEW t \in Server, NEW job \in outbox'[t], job.phase = "CHECK_POINT"
        PROVE  job.args.arg.SenderIndex = t /\ Vouches(job.args.arg)'
    <2>1. CASE job \in outbox[t]
      BY <1>4, <1>6, <2>1
    <2>2. CASE JobOrigin(t, job)
      <3>1. PICK m \in msgs : /\ HandleCommitRPC(t, m) /\ ValidCommit(t, m.args)
                              /\ job = makeCheckpoint(t, m.args.arg.SequenceNumber)
        BY <1>6, <2>2 DEF JobOrigin, CommitReply
      <3> DEFINE n == m.args.arg.SequenceNumber
      <3>2. n \in Slot
        BY <1>1, <3>1, MessageFields DEF HandleCommitRPC, Handles, TypeOK, VoteArg
      <3>3. Prepared(t, n)
        BY <3>1 DEF ValidCommit, Prepared, Logged
      <3>4. job.args.arg.SenderIndex = t /\ job.args.arg.SequenceNumber = n
        BY <3>1 DEF makeCheckpoint, makeArguments
      <3> HIDE DEF n
      <3>5. StandsBy(t, n)'
        BY <3>2, <3>3, PreparedStays DEF StandsBy
      <3> QED BY <3>4, <3>5 DEF Vouches
    <2> QED BY <1>1, <2>1, <2>2, NewJobs
  <1>7. ASSUME NEW s \in Server, NEW a \in checking'[s]
        PROVE  a.SenderIndex # s /\ Vouches(a)'
    <2>1. CASE a \in checking[s]
      BY <1>1, <1>2, <2>1 DEF CheckPointsSound, TypeOK, CkptType
    <2>2. ASSUME NEW m \in msgs, m.to = s, m.phase = "CHECK_POINT", a = m.args.arg
          PROVE  a.SenderIndex # s /\ Vouches(a)'
      BY <1>3, <2>2
    <2> QED BY <1>1, <2>1, <2>2, NewChecks
  <1>8. ASSUME NEW s \in Server, NEW n \in Slot, NEW info, SoundCheckPoint(s, n, info),
               info.ConfirmedServers \subseteq Server
        PROVE  SoundCheckPoint(s, n, info)'
    BY <1>8, PreparedStays DEF SoundCheckPoint
  <1>9. ASSUME NEW s \in Server, NEW n \in Slot, checkPoints'[s][n] # NoCheckPoint
        PROVE  SoundCheckPoint(s, n, checkPoints[s][n])'
    <2>1. checkPoints'[s][n].ConfirmedServers \subseteq Server
      BY <1>1, <1>9 DEF TypeOK, CkptType, CheckPointInfo
    <2>2. SoundCheckPoint(s, n, checkPoints'[s][n])
      <3>1. CASE checkPoints'[s][n] = checkPoints[s][n]
        BY <1>9, <3>1 DEF CheckPointsSound
      <3>2. CASE FreshCheckPoint(s, n, checkPoints'[s][n])
        BY <3>2 DEF FreshCheckPoint, SoundCheckPoint, StandsBy
      <3>3. CASE NotedCheckPoint(s, n, checkPoints'[s][n])
        <4>1. PICK a \in checking[s] :
                /\ a.SequenceNumber = n /\ checkPoints[s][n] # NoCheckPoint
                /\ checkPoints'[s][n].ConfirmedServers =
                     checkPoints[s][n].ConfirmedServers \cup {a.SenderIndex}
                /\ checkPoints'[s][n].IsStable =>
                     \/ checkPoints[s][n].IsStable
                     \/ Cardinality(checkPoints'[s][n].ConfirmedServers)
                          >= 2 * numFailableServers
          BY <3>3 DEF NotedCheckPoint
        <4>2. /\ a.SenderIndex # s /\ StandsBy(a.SenderIndex, n)
              /\ SoundCheckPoint(s, n, checkPoints[s][n])
          BY <4>1 DEF CheckPointsSound, Vouches
        <4>3. ASSUME checkPoints[s][n].IsStable
              PROVE  Cardinality(checkPoints'[s][n].ConfirmedServers)
                       >= 2 * numFailableServers
          <5>1. /\ IsFiniteSet(checkPoints'[s][n].ConfirmedServers)
                /\ IsFiniteSet(checkPoints[s][n].ConfirmedServers)
                /\ checkPoints[s][n].ConfirmedServers
                     \subseteq checkPoints'[s][n].ConfirmedServers
            BY <2>1, <4>1, ServersFinite, FS_Subset
          <5>2. Cardinality(checkPoints[s][n].ConfirmedServers)
                  <= Cardinality(checkPoints'[s][n].ConfirmedServers)
            BY <5>1, FS_Subset
          <5> QED BY <4>2, <4>3, <5>1, <5>2, ServersFinite, FS_CardinalityType
                  DEF SoundCheckPoint
        <4> QED BY <4>1, <4>2, <4>3 DEF SoundCheckPoint
      <3> QED BY <1>1, <1>9, <3>1, <3>2, <3>3, NewCheckPoints
    <2>3. ASSUME NEW info, info = checkPoints'[s][n]
          PROVE  SoundCheckPoint(s, n, info)'
      BY <1>8, <2>1, <2>2, <2>3
    <2> QED BY <2>3 DEF SoundCheckPoint
  <1> QED BY <1>5, <1>6, <1>7, <1>9 DEF CheckPointsSound

\* A checkpoint that 2f others have confirmed is of a slot 2f + 1 have prepared.
LEMMA SoundMeansBacked ==
  ASSUME CheckPointsSound, TypeOK
  PROVE  CheckpointBacked
  <1> SUFFICES ASSUME NEW s \in Server, NEW n \in Slot, checkPoints[s][n] # NoCheckPoint,
                      checkPoints[s][n].IsStable
               PROVE  Cardinality({t \in Server : StandsBy(t, n)}) >= calculateMajority
    BY DEF CheckpointBacked, CheckPointsSound, SoundCheckPoint
  <1> DEFINE C == checkPoints[s][n].ConfirmedServers
             P == {t \in Server : StandsBy(t, n)}
  <1>1. /\ C \subseteq Server /\ s \notin C /\ C \cup {s} \subseteq P /\ P \subseteq Server
        /\ Cardinality(C) >= 2 * numFailableServers
    BY DEF CheckPointsSound, SoundCheckPoint, TypeOK, CkptType, CheckPointInfo
  <1> HIDE DEF C, P
  <1>2. IsFiniteSet(C)
    BY <1>1, ServersFinite, FS_Subset
  <1>3. Cardinality(C \cup {s}) = Cardinality(C) + 1 /\ Cardinality(C) \in Nat
    BY <1>1, <1>2, FS_AddElement, FS_CardinalityType
  <1>4. Cardinality(C \cup {s}) >= calculateMajority
    BY <1>1, <1>3, ServersFinite
  <1> QED BY <1>1, <1>4, QuorumGrows DEF P

\* Who confirms a checkpoint has prepared its slot, and a stable checkpoint is of a
\* slot that 2f + 1 servers have prepared, for any number of servers and of crashes;
\* they can have lost it since only by a restart, as long as the leader is not started
\* again.
THEOREM CheckpointsCorrect == Spec => []CheckpointBacked
  <1> DEFINE Agreed == leader(0) \notin remade => AgreedInv
             Inv == leader(0) \notin remade => CheckPointsSound
  <1>1. Init => Inv
    BY DEF Init, CheckPointsSound
  <1>2. Agreed /\ Agreed' /\ Inv /\ [Next]_vars => Inv'
    BY CheckPointsStep, RemadeGrows
  <1>3. Inv /\ TypeOK => CheckpointBacked
    BY SoundMeansBacked DEF CheckpointBacked
  <1> QED BY <1>1, <1>2, <1>3, AgreedAlways, TypeCorrect, PTL DEF Spec
=============================================================================
