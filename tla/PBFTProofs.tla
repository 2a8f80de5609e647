----------------------------- MODULE PBFTProofs -----------------------------
(***************************************************************************)
(* Theorems about the servers of module PBFT, for any number of servers,   *)
(* commands, slots and failures.                                           *)
(***************************************************************************)
EXTENDS PBFTProperties, TLAPS

\* Updating one place of a table of tables.
LEMMA UpdateAt ==
  ASSUME NEW A, NEW B, NEW C, NEW f \in [A -> [B -> C]],
         NEW a \in A, NEW b \in B, NEW c \in C
  PROVE  [f EXCEPT ![a][b] = c] \in [A -> [B -> C]]
  OBVIOUS

\* Filling one row of a table with one value.
LEMMA FillRow ==
  ASSUME NEW A, NEW B, NEW C, NEW f \in [A -> [B -> C]], NEW a \in A, NEW c \in C
  PROVE  [f EXCEPT ![a] = [b \in B |-> c]] \in [A -> [B -> C]]
  <1>1. [b \in B |-> c] \in [B -> C]
    OBVIOUS
  <1> QED BY <1>1

\* The leader of a view is a server.
LEMMA LeaderIsServer ==
  ASSUME NEW v \in Nat
  PROVE  leader(v) \in Server
  BY ServersAssumption DEF leader, Server

\* What a request of each phase carries.
LEMMA RequestFields ==
  ASSUME NEW q \in Request
  PROVE  /\ q.phase # "REPLY_TO_CLIENT"
         /\ q.phase = "FORWARD_COMMAND" => q.args.arg \in Command
         /\ q.phase = "PRE_PREPARE" => q.args.arg \in PrePrepareArg
         /\ q.phase = "PREPARE" => q.args.arg \in VoteArg
         /\ q.phase = "COMMIT" => q.args.arg \in VoteArg
         /\ q.phase = "CHECK_POINT" => q.args.arg \in CheckPointArg
  BY DEF Request, Signed

\* A request in flight is of the type of its phase.
LEMMA MessageFields ==
  ASSUME NetType, NEW m \in msgs
  PROVE  /\ m.phase = "FORWARD_COMMAND" => m.args.arg \in Command
         /\ m.phase = "PRE_PREPARE" => m.args.arg \in PrePrepareArg
         /\ m.phase = "PREPARE" => m.args.arg \in VoteArg
         /\ m.phase = "COMMIT" => m.args.arg \in VoteArg
         /\ m.phase = "CHECK_POINT" => m.args.arg \in CheckPointArg
  <1> DEFINE q == [phase |-> m.phase, args |-> m.args]
  <1>1. q \in Request
    BY DEF NetType
  <1>2. q.phase = m.phase /\ q.args = m.args
    OBVIOUS
  <1> HIDE DEF q
  <1> QED BY <1>1, <1>2, RequestFields

\* What a job that is not a reply carries can be sent as a request.
LEMMA JobRequest ==
  ASSUME NEW job \in Job, job.phase # "REPLY_TO_CLIENT"
  PROVE  [phase |-> job.phase, args |-> job.args] \in Request
  <1>1. job \in Request
    BY DEF Job
  <1>2. job = [phase |-> job.phase, args |-> job.args]
    BY <1>1 DEF Request
  <1> QED BY <1>1, <1>2

LEMMA ServerIsNat == Server \subseteq Nat
  BY ServersAssumption DEF Server

\* What tells copies apart, and the votes and checkpoint messages made with it.
LEMMA CopyType ==
  ASSUME EnvType, NEW s \in Server, NEW k \in Nat
  PROVE  Nth(s, k) \in Copy
  BY DEF EnvType, Nth, Copy

LEMMA VoteType ==
  ASSUME EnvType, NEW s \in Server, NEW v \in Nat, NEW n \in Slot, NEW d \in Nat,
         NEW k \in Nat
  PROVE  Vote(v, n, d, s, k) \in VoteArg
  BY CopyType DEF Vote, VoteArg

\* The requests the servers make are of the type of their phase.
LEMMA MadeRequests ==
  ASSUME EnvType, ChanType, NEW s \in Server
  PROVE  /\ \A c \in Command :
              [phase |-> "FORWARD_COMMAND",
               args |-> makeArguments(s, "Command", c)] \in Job
         /\ \A a \in PrePrepareArg :
              [phase |-> "PRE_PREPARE",
               args |-> makeArguments(s, "PrePrepareCommandArg", a)] \in Job
         /\ \A a \in VoteArg :
              /\ [phase |-> "PREPARE",
                  args |-> makeArguments(s, "PrepareCommandArg", a)] \in Job
              /\ [phase |-> "COMMIT",
                  args |-> makeArguments(s, CommitType, a)] \in Job
         /\ \A n \in Slot : makeCheckpoint(s, n) \in Job
  <1>1. Nth(s, commandExecuted[s]) \in Copy
    BY CopyType DEF ChanType
  <1> QED BY <1>1, ReadingAssumption, DigestAssumption
          DEF makeArguments, makeCheckpoint, Job, Request, Signed, CheckPointArg

-----------------------------------------------------------------------------
(* Types.                                                                   *)

\* The end of a process leaves every variable well typed.
LEMMA ExitType ==
  ASSUME TypeOK, WaitType', NEW s \in Server, Exit(s), UNCHANGED envVars
  PROVE  TypeOK'
  BY DEF TypeOK, EnvType, NetType, LogType, CkptType, ChanType, Exit, envVars,
         logVars, chanVars

\* A new log entry is one, and not the absent one.
LEMMA EntryType ==
  ASSUME NEW v \in Nat, NEW c \in Command, NEW d \in Nat
  PROVE  /\ logEntry(v, c, d) \in Entry
         /\ logEntry(v, c, d) # NoEntry
  BY AbsentAssumption DEF logEntry, Entry

\* The reply to a processed entry is a job.
LEMMA ReplyType ==
  ASSUME EnvType, LogType, ChanType, NEW s \in Server, NEW n \in Slot,
         NEW c \in Command, NEW asked \in Command
  PROVE  [phase |-> "REPLY_TO_CLIENT", args |-> Reply(s, n, c, asked)] \in Job
  <1>1. Nth(s, commandExecuted[s]) \in Copy
    BY CopyType DEF ChanType
  <1> QED BY <1>1 DEF LogType, Reply, Job, ReplyArg

LEMMA RepeatedReplyType ==
  ASSUME EnvType, LogType, ChanType, NEW s \in Server, NEW v \in Nat, NEW n \in Slot,
         NEW asked \in Command
  PROVE  RepeatedReply(s, v, n, asked) \subseteq Job
  <1>1. ASSUME Processed(s, n)
        PROVE  serverLog[s][n].message \in Command
    BY <1>1 DEF Processed, LogType, Entry
  <1> QED BY <1>1, ReplyType DEF RepeatedReply

\* Saving and counting keep the types of what they write.
LEMMA PersistType ==
  ASSUME EnvType, NEW s \in Server, NEW seq \in Nat, NEW last \in Nat,
         persist(s, seq, last)
  PROVE  disk' \in [Server -> Saved]
  BY DEF EnvType, persist, SavePBFTState, Saved

LEMMA AdvanceType ==
  ASSUME LogType, NEW s \in Server, AdvanceSequenceNumber(s)
  PROVE  sequenceNumber' \in [Server -> Nat]
  BY DEF LogType, AdvanceSequenceNumber

LEMMA StartType ==
  ASSUME TypeOK, WaitType', NEW s \in Server, NEW c \in Command, StartBody(s, c)
  PROVE  /\ outbox' \in [Server -> SUBSET Job]
         /\ LogType' /\ CkptType' /\ ChanType'
         /\ UNCHANGED <<running, disk, replies, failed, makes, remade, serverLock>>
  <1> USE DEF TypeOK, NetType, LogType
  <1>1. UNCHANGED <<running, disk, replies, failed, makes, remade, serverLock, view,
                    clientRegisters>>
        /\ CkptType' /\ ChanType'
    BY DEF StartBody, ckptVars, chanVars, CkptType, ChanType
  <1>2. CASE StartForward(s, c)
    BY <1>1, <1>2, MadeRequests DEF StartForward
  <1>3. CASE StartDrop(s, c)
    BY <1>1, <1>3 DEF StartDrop
  <1>4. CASE StartPrePrepare(s, c)
    <2> DEFINE v == view[s]
               n == sequenceNumber[s]
               arg == [View |-> v, SequenceNumber |-> n, Digest |-> Digest[c],
                       Message |-> c]
    <2>1. v \in Nat /\ n \in Slot /\ arg \in PrePrepareArg /\ Digest[c] \in Nat
      BY <1>4, DigestAssumption DEF StartPrePrepare, PrePrepareArg
    <2>2. outbox' \in [Server -> SUBSET Job]
      <3>1. [phase |-> "PRE_PREPARE",
             args |-> makeArguments(s, "PrePrepareCommandArg", arg)] \in Job
        BY <2>1, MadeRequests
      <3>2. RepeatedReply(s, v, n, c) \subseteq Job
        BY <2>1, RepeatedReplyType
      <3> QED BY <1>4, <3>1, <3>2 DEF StartPrePrepare
    <2>3. serverLog' \in [Server -> [Slot -> Entry \cup {NoEntry}]]
      <3>1. logEntry(v, c, Digest[c]) \in Entry \cup {NoEntry}
        BY <2>1, EntryType
      <3>2. [serverLog EXCEPT ![s][n] = logEntry(v, c, Digest[c])]
              \in [Server -> [Slot -> Entry \cup {NoEntry}]]
        BY <2>1, <3>1, UpdateAt
      <3> QED BY <1>4, <3>2 DEF StartPrePrepare
    <2>4. sequenceNumber' \in [Server -> Nat]
      BY <1>4 DEF StartPrePrepare, AdvanceSequenceNumber
    <2> QED BY <1>1, <2>2, <2>3, <2>4
  <1> QED BY <1>2, <1>3, <1>4 DEF StartBody

LEMMA SendType ==
  ASSUME TypeOK, WaitType', NEW s \in Server, NEW job \in outbox[s],
         sendRPCs(s, job) \/ replyToClient(s, job)
  PROVE  TypeOK'
  <1> USE DEF TypeOK, EnvType, envVars
  <1>0. job \in Job
    BY DEF NetType
  <1>1. CASE Exit(s)
    BY <1>1, ExitType DEF sendRPCs, replyToClient
  <1>2. CASE sendRPCs(s, job) /\ ~Exit(s)
    <2>1. /\ outbox' = [outbox EXCEPT ![s] = @ \ {job}]
          /\ msgs' = msgs \cup {[to |-> d, phase |-> job.phase, args |-> job.args] :
                                  d \in Destinations(s, job)}
          /\ UNCHANGED <<running, disk, replies, logVars, ckptVars, chanVars>>
          /\ UNCHANGED envVars
          /\ job.phase # "REPLY_TO_CLIENT"
      BY <1>2 DEF sendRPCs
    <2>2. [phase |-> job.phase, args |-> job.args] \in Request
      BY <1>0, <2>1, JobRequest
    <2>3. Destinations(s, job) \subseteq Server
      BY LeaderIsServer DEF Destinations, LogType
    <2>4. NetType'
      BY <2>1, <2>2, <2>3 DEF NetType
    <2> QED BY <2>1, <2>4 DEF LogType, logVars, CkptType, ckptVars, ChanType, chanVars
  <1>3. CASE replyToClient(s, job) /\ ~Exit(s)
    <2>1. job.args \in ReplyArg
      BY <1>0, <1>3, RequestFields DEF replyToClient, Job
    <2> QED BY <1>3, <2>1
            DEF replyToClient, NetType, LogType, logVars, CkptType, ckptVars,
                ChanType, chanVars
  <1> QED BY <1>1, <1>2, <1>3

LEMMA PrePrepareType ==
  ASSUME TypeOK, WaitType', NEW s \in Server, NEW m \in msgs, HandlePrePrepareRPC(s, m)
  PROVE  TypeOK'
  <1> USE DEF TypeOK
  <1> DEFINE v == m.args.arg.View
             n == m.args.arg.SequenceNumber
             d == m.args.arg.Digest
             vote == Vote(v, n, d, s, 0)
             entry == [logEntry(v, m.args.arg.Message, d) EXCEPT !.prepareArgs = {vote}]
  <1>1. v \in Nat /\ n \in Slot /\ d \in Nat /\ m.args.arg.Message \in Command
    BY MessageFields DEF HandlePrePrepareRPC, Handles, PrePrepareArg
  <1>2. vote \in VoteArg
    BY <1>1, VoteType
  <1>3. entry \in Entry
    BY <1>1, <1>2 DEF logEntry, Entry
  <1>4. EnvType'
    <2>1. sequenceNumber[s] + 1 \in Nat /\ lastCheckPointSeqNumber[s] \in Nat
      BY DEF LogType, CkptType
    <2>2. \/ disk' = disk
          \/ persist(s, sequenceNumber[s] + 1, lastCheckPointSeqNumber[s])
      BY DEF HandlePrePrepareRPC
    <2>3. disk' \in [Server -> Saved]
      BY <2>1, <2>2, PersistType DEF EnvType
    <2> QED BY <2>3 DEF HandlePrePrepareRPC, EnvType, envVars
  <1>5. NetType'
    <2>1. [phase |-> "PREPARE", args |-> makeArguments(s, "PrepareCommandArg", vote)]
            \in Job
      BY <1>2, MadeRequests
    <2>2. RepeatedReply(s, v, n, m.args.arg.Message) \subseteq Job
      BY <1>1, RepeatedReplyType
    <2>3. outbox' \in [Server -> SUBSET Job]
      BY <2>1, <2>2 DEF HandlePrePrepareRPC, NetType
    <2> QED BY <2>3 DEF HandlePrePrepareRPC, Handles, NetType
  <1>6. LogType'
    <2>1. [serverLog EXCEPT ![s][n] = entry]
            \in [Server -> [Slot -> Entry \cup {NoEntry}]]
      BY <1>1, <1>3, UpdateAt DEF LogType
    <2>2. serverLog' = serverLog \/ serverLog' = [serverLog EXCEPT ![s][n] = entry]
      BY DEF HandlePrePrepareRPC
    <2>3. sequenceNumber' \in [Server -> Nat]
      <3>1. UNCHANGED sequenceNumber \/ AdvanceSequenceNumber(s)
        BY DEF HandlePrePrepareRPC
      <3> QED BY <3>1, AdvanceType DEF LogType
    <2> QED BY <2>1, <2>2, <2>3 DEF HandlePrePrepareRPC, LogType
  <1>7. CkptType'
    BY DEF HandlePrePrepareRPC, CkptType, ckptVars
  <1>8. ChanType'
    BY DEF HandlePrePrepareRPC, CountReceived, ChanType
  <1> QED BY <1>4, <1>5, <1>6, <1>7, <1>8

LEMMA PrepareType ==
  ASSUME TypeOK, WaitType', NEW s \in Server, NEW m \in msgs, HandlePrepareRPC(s, m)
  PROVE  TypeOK'
  <1> USE DEF TypeOK
  <1> DEFINE n == m.args.arg.SequenceNumber
             entry == serverLog[s][n]
             prepares == RecordPrepare(entry, m.args.arg)
             vote == Vote(view[s], n, m.args.arg.Digest, s, m.args.arg.SenderIndex)
             newEntry == [entry EXCEPT !.prepareArgs = prepares,
                                       !.commitArgs = IF EntersCommitPhase(prepares)
                                                      THEN @ \cup {s} ELSE @]
  <1>1. m.args.arg \in VoteArg /\ n \in Slot /\ m.args.arg.Digest \in Nat
    BY MessageFields DEF HandlePrepareRPC, Handles, VoteArg
  <1>2. vote \in VoteArg
    BY <1>1, ServerIsNat, VoteType DEF VoteArg, LogType
  <1>3. ASSUME ValidPrepare(s, m.args)
        PROVE  newEntry \in Entry
    <2>1. entry \in Entry
      BY <1>1, <1>3 DEF ValidPrepare, LogType
    <2>2. prepares \subseteq VoteArg
      BY <1>1, <2>1 DEF Entry, RecordPrepare
    <2>3. entry.commitArgs \cup {s} \subseteq Server
      BY <2>1 DEF Entry
    <2> HIDE DEF entry, prepares
    <2> QED BY <2>1, <2>2, <2>3 DEF Entry
  <1>4. EnvType'
    <2>1. sequenceNumber[s] \in Nat /\ lastCheckPointSeqNumber[s] \in Nat
      BY DEF LogType, CkptType
    <2>2. \/ disk' = disk
          \/ persist(s, sequenceNumber[s], lastCheckPointSeqNumber[s])
      BY DEF HandlePrepareRPC
    <2>3. disk' \in [Server -> Saved]
      BY <2>1, <2>2, PersistType DEF EnvType
    <2> QED BY <2>3 DEF HandlePrepareRPC, EnvType, envVars
  <1>5. NetType'
    <2>1. [phase |-> "COMMIT", args |-> makeArguments(s, CommitType, vote)] \in Job
      BY <1>2, MadeRequests
    <2>2. outbox' \in [Server -> SUBSET Job]
      BY <2>1 DEF HandlePrepareRPC, NetType
    <2> QED BY <2>2 DEF HandlePrepareRPC, Handles, NetType
  <1>6. LogType'
    <2>1. CASE ValidPrepare(s, m.args)
      <3>1. [serverLog EXCEPT ![s][n] = newEntry]
              \in [Server -> [Slot -> Entry \cup {NoEntry}]]
        BY <1>1, <1>3, <2>1, UpdateAt DEF LogType
      <3>2. serverLog' = [serverLog EXCEPT ![s][n] = newEntry]
        BY <2>1 DEF HandlePrepareRPC
      <3> QED BY <3>1, <3>2 DEF HandlePrepareRPC, LogType
    <2>2. CASE ~ValidPrepare(s, m.args)
      BY <2>2 DEF HandlePrepareRPC, LogType
    <2> QED BY <2>1, <2>2
  <1>7. CkptType'
    BY DEF HandlePrepareRPC, CkptType, ckptVars
  <1>8. ChanType'
    BY DEF HandlePrepareRPC, CountReceived, ChanType
  <1> QED BY <1>4, <1>5, <1>6, <1>7, <1>8

LEMMA CommitHandlerType ==
  ASSUME TypeOK, WaitType', NEW s \in Server, NEW m \in msgs, HandleCommitRPC(s, m)
  PROVE  TypeOK'
  <1> USE DEF TypeOK
  <1> DEFINE n == m.args.arg.SequenceNumber
             c == serverLog[s][n].message
             last == IF TakesCheckPoint(n) THEN n ELSE lastCheckPointSeqNumber[s]
  <1>1. n \in Slot /\ n \in Nat
    BY MessageFields, CommandAssumption DEF HandleCommitRPC, Handles, VoteArg
  <1>2. ASSUME ValidCommit(s, m.args)
        PROVE  c \in Command
    BY <1>1, <1>2 DEF ValidCommit, LogType, Entry
  <1>3. last \in Nat
    BY <1>1 DEF CkptType
  <1>4. EnvType'
    <2>1. serverLock' \in {serverLock, [serverLock EXCEPT ![s] = TRUE]}
      BY DEF HandleCommitRPC
    <2> QED BY <2>1 DEF HandleCommitRPC, EnvType
  <1>5. NetType'
    <2>1. ASSUME ValidCommit(s, m.args)
          PROVE  [phase |-> "REPLY_TO_CLIENT", args |-> Reply(s, n, c, c)] \in Job
      BY <1>1, <1>2, <2>1, ReplyType
    <2>2. makeCheckpoint(s, n) \in Job
      BY <1>1, MadeRequests
    <2>3. outbox' \in [Server -> SUBSET Job]
      <3>1. CASE ValidCommit(s, m.args)
        <4> DEFINE started ==
                     {[phase |-> "REPLY_TO_CLIENT", args |-> Reply(s, n, c, c)]} \cup
                     IF TakesCheckPoint(n) THEN {makeCheckpoint(s, n)} ELSE {}
        <4>1. started \subseteq Job
          BY <2>1, <2>2, <3>1
        <4>2. outbox' = [outbox EXCEPT ![s] = @ \cup started]
          BY <3>1 DEF HandleCommitRPC
        <4> HIDE DEF started
        <4> QED BY <4>1, <4>2 DEF NetType
      <3>2. CASE ~ValidCommit(s, m.args)
        BY <3>2 DEF HandleCommitRPC, NetType
      <3> QED BY <3>1, <3>2
    <2> QED BY <2>3 DEF HandleCommitRPC, Handles, NetType
  <1>6. LogType'
    <2>1. clientRegisters' \in [Server -> [Client -> Nat]]
      <3>1. CASE ValidCommit(s, m.args)
        <4>1. c.ClientID \in Client /\ c.Timestamp \in Nat
          BY <1>2, <3>1, CommandAssumption
        <4>2. LaterTimestamp(clientRegisters[s][c.ClientID], c.Timestamp) \in Nat
          BY <4>1 DEF LaterTimestamp, LogType
        <4>3. clientRegisters' = [clientRegisters EXCEPT ![s][c.ClientID] =
                LaterTimestamp(clientRegisters[s][c.ClientID], c.Timestamp)]
          BY <3>1 DEF HandleCommitRPC
        <4> QED BY <4>1, <4>2, <4>3, UpdateAt DEF LogType
      <3>2. CASE ~ValidCommit(s, m.args)
        BY <3>2 DEF HandleCommitRPC, LogType
      <3> QED BY <3>1, <3>2
    <2> QED BY <2>1 DEF HandleCommitRPC, LogType
  <1>7. CkptType'
    <2>1. CASE ValidCommit(s, m.args)
      <3> DEFINE old == checkPoints[s][n]
                 new == IF TakesCheckPoint(n)
                        THEN [ConfirmedServers |-> {}, IsStable |-> FALSE] ELSE old
      <3>1. new \in CheckPointInfo \cup {NoCheckPoint}
        BY <1>1 DEF CkptType, CheckPointInfo
      <3>2. checkPoints' = [checkPoints EXCEPT ![s][n] = new]
        BY <2>1 DEF HandleCommitRPC
      <3>3. checkPoints' \in [Server -> [Slot -> CheckPointInfo \cup {NoCheckPoint}]]
        <4> HIDE DEF new
        <4> QED BY <1>1, <3>1, <3>2, UpdateAt DEF CkptType
      <3>4. lastCheckPointSeqNumber' \in [Server -> Nat]
        BY <1>3, <2>1 DEF HandleCommitRPC, CkptType
      <3> QED BY <3>3, <3>4 DEF HandleCommitRPC, CkptType
    <2>2. CASE ~ValidCommit(s, m.args)
      BY <2>2 DEF HandleCommitRPC, CkptType
    <2> QED BY <2>1, <2>2
  <1>8. ChanType'
    <2>1. commandExecuted' \in [Server -> Nat]
      <3>1. \/ commandExecuted' = commandExecuted
            \/ commandExecuted' = [commandExecuted EXCEPT ![s] = @ + 1]
        BY DEF HandleCommitRPC
      <3> QED BY <3>1 DEF ChanType
    <2>2. CountReceived(s, m) /\ UNCHANGED newValidCommad
      BY DEF HandleCommitRPC
    <2> QED BY <2>1, <2>2 DEF CountReceived, ChanType
  <1> QED BY <1>4, <1>5, <1>6, <1>7, <1>8

\* The rest of the handler saves and unlocks.
LEMMA CommitSaveType ==
  ASSUME TypeOK, WaitType', NEW s \in Server, HandleCommitRPC_Save(s)
  PROVE  TypeOK'
  <1> USE DEF TypeOK
  <1>1. sequenceNumber[s] \in Nat /\ lastCheckPointSeqNumber[s] \in Nat
    BY DEF LogType, CkptType
  <1>2. disk' \in [Server -> Saved]
    BY <1>1, PersistType DEF HandleCommitRPC_Save
  <1>3. serverLock' \in [Server -> BOOLEAN]
    BY DEF HandleCommitRPC_Save, EnvType
  <1> QED BY <1>2, <1>3
          DEF HandleCommitRPC_Save, EnvType, NetType, netVars, LogType, logVars, CkptType,
              ckptVars, ChanType, chanVars

LEMMA CheckPointCheckType ==
  ASSUME TypeOK, WaitType', NEW s \in Server, NEW m \in msgs, HandleCheckPointRPC_Check(s, m)
  PROVE  TypeOK'
  <1>1. CASE Exit(s)
    BY <1>1, ExitType DEF HandleCheckPointRPC_Check
  <1>2. CASE ~Exit(s)
    <2>1. m.args.arg \in CheckPointArg
      BY MessageFields DEF HandleCheckPointRPC_Check, TypeOK
    <2>2. msgs' \subseteq msgs /\ UNCHANGED <<outbox, replies>>
      BY <1>2 DEF HandleCheckPointRPC_Check
    <2>3. NetType'
      BY <2>2 DEF TypeOK, NetType
    <2>4. CkptType'
      BY <1>2, <2>1 DEF HandleCheckPointRPC_Check, TypeOK, CkptType
    <2> QED BY <1>2, <2>3, <2>4
            DEF HandleCheckPointRPC_Check, TypeOK, EnvType, envVars, LogType, logVars,
                ChanType, chanVars
  <1> QED BY <1>1, <1>2

LEMMA CheckPointRecordType ==
  ASSUME TypeOK, WaitType', NEW s \in Server, NEW a \in checking[s],
         HandleCheckPointRPC_Record(s, a)
  PROVE  TypeOK'
  <1> DEFINE n == a.SequenceNumber
             info == checkPoints[s][n]
             confirmed == info.ConfirmedServers \cup {a.SenderIndex}
             stable == BecomesStable(s, a)
             noted == [ConfirmedServers |-> confirmed,
                       IsStable |-> info.IsStable \/ stable]
             kept == [k \in Slot |->
                        IF stable /\ ~Retained(s, k) THEN NoCheckPoint
                        ELSE IF k = n THEN noted ELSE checkPoints[s][k]]
  <1>1. CASE info = NoCheckPoint
    BY <1>1, ExitType DEF HandleCheckPointRPC_Record
  <1>2. CASE info # NoCheckPoint
    <2>1. n \in Slot /\ a.SenderIndex \in Server /\ info \in CheckPointInfo
      BY <1>2 DEF TypeOK, CkptType, CheckPointArg
    <2>2. noted \in CheckPointInfo
      BY <2>1 DEF CheckPointInfo, BecomesStable, StableQuorum
    <2>3. kept \in [Slot -> CheckPointInfo \cup {NoCheckPoint}]
      <3> HIDE DEF noted, stable
      <3> QED BY <2>2 DEF TypeOK, CkptType
    <2>4. checkPoints' = [checkPoints EXCEPT ![s] = kept]
      BY <1>2 DEF HandleCheckPointRPC_Record
    <2>5. CkptType'
      <3> HIDE DEF kept
      <3> QED BY <1>2, <2>3, <2>4 DEF HandleCheckPointRPC_Record, TypeOK, CkptType
    <2> QED BY <1>2, <2>5
            DEF HandleCheckPointRPC_Record, TypeOK, EnvType, envVars, NetType, netVars,
                LogType, logVars, ChanType, chanVars
  <1> QED BY <1>1, <1>2

LEMMA MakeType ==
  ASSUME TypeOK, WaitType', NEW s \in Server, Make(s)
  PROVE  TypeOK'
  <1> USE DEF TypeOK
  <1>1. /\ makes' \in Nat /\ remade' \subseteq Server /\ UNCHANGED <<failed, submitted>>
        /\ serverLock' \in [Server -> BOOLEAN]
    <2>1. serverLock' = serverLock \/ serverLock' = [serverLock EXCEPT ![s] = FALSE]
      BY DEF Make, Exit
    <2>2. serverLock' \in [Server -> BOOLEAN]
      <3>1. CASE serverLock' = serverLock
        BY <3>1 DEF EnvType
      <3>2. CASE serverLock' = [serverLock EXCEPT ![s] = FALSE]
        BY <3>2 DEF EnvType
      <3> QED BY <2>1, <3>1, <3>2
    <2> QED BY <2>2 DEF Make, EnvType
  <1>2. CASE ReadMayFault(s) /\ Exit(s)
    BY <1>1, <1>2
    DEF Exit, EnvType, NetType, LogType, logVars, CkptType, ChanType, chanVars
  <1>3. CASE ~(ReadMayFault(s) /\ Exit(s))
    <2>1. EnvType' /\ NetType'
      BY <1>1, <1>3 DEF Make, EnvType, NetType, netVars
    <2>2. disk[s].sequenceNumber \in Nat /\ disk[s].lastCheckPointSeqNumber \in Nat
      BY DEF EnvType, Saved
    <2>3. LogType' /\ CkptType'
      <3>1. view' \in [Server -> Nat] /\ clientRegisters' \in [Server -> [Client -> Nat]]
        <4>1. view' = [view EXCEPT ![s] = 0]
          BY <1>3 DEF Make
        <4>2. clientRegisters' = [clientRegisters EXCEPT ![s] = [c \in Client |-> 0]]
          BY <1>3 DEF Make
        <4> QED BY <4>1, <4>2, FillRow DEF LogType
      <3>2. sequenceNumber' \in [Server -> Nat]
        BY <1>3, <2>2 DEF Make, readPersist, LogType
      <3>3. serverLog' \in [Server -> [Slot -> Entry \cup {NoEntry}]]
        <4>1. serverLog' = [serverLog EXCEPT ![s] = [n \in Slot |-> NoEntry]]
          BY <1>3 DEF Make, readPersist
        <4> QED BY <4>1, FillRow DEF LogType
      <3>4. lastCheckPointSeqNumber' \in [Server -> Nat]
        BY <1>3, <2>2 DEF Make, readPersist, CkptType
      <3>5. checkPoints' \in [Server -> [Slot -> CheckPointInfo \cup {NoCheckPoint}]]
        BY <1>3 DEF Make, readPersist, CkptType
      <3>6. checking' = checking
        BY <1>3 DEF Make
      <3> QED BY <3>1, <3>2, <3>3, <3>4, <3>5, <3>6 DEF LogType, CkptType
    <2>4. ChanType'
      BY <1>3 DEF Make, ChanType
    <2> QED BY <2>1, <2>3, <2>4
  <1> QED BY <1>2, <1>3

\* A handler takes or leaves other requests than those that wait for the lock.
LEMMA WaitStep ==
  ASSUME WaitType, [Next]_vars
  PROVE  WaitType'
  <1>1. ASSUME NEW s \in Server, Exit(s)
        PROVE  WaitType'
    BY <1>1 DEF Exit, WaitType
  <1>2. ASSUME NEW s \in Server, Goroutine(s)
        PROVE  WaitType'
    BY <1>1, <1>2 DEF Goroutine, sendRPCs, replyToClient, WaitType
  <1>3. ASSUME NEW s \in Server, NEW m \in msgs,
               ReceiveForwardedCommand(s, m) \/ EnterHandler(s, m)
        PROVE  WaitType'
    BY <1>3 DEF ReceiveForwardedCommand, EnterHandler, WaitType
  <1>4. ASSUME NEW s \in Server, NEW m \in msgs,
               \/ HandlePrePrepareRPC(s, m) \/ HandlePrepareRPC(s, m)
               \/ HandleCommitRPC(s, m)
        PROVE  WaitType'
    BY <1>4 DEF HandlePrePrepareRPC, HandlePrepareRPC, HandleCommitRPC, Handles, WaitType
  <1>5. ASSUME NEW s \in Server, NEW m \in msgs,
               HandleCommitRPC_Fatal(s, m) \/ HandleCheckPointRPC_Check(s, m)
        PROVE  WaitType'
    BY <1>1, <1>5 DEF HandleCommitRPC_Fatal, HandleCheckPointRPC_Check, WaitType
  <1>6. ASSUME NEW s \in Server,
               \/ HandleCommitRPC_Save(s)
               \/ \E a \in checking[s] : HandleCheckPointRPC_Record(s, a)
        PROVE  WaitType'
    BY <1>1, <1>6 DEF HandleCommitRPC_Save, HandleCheckPointRPC_Record, netVars, WaitType
  <1>7. ASSUME NEW s \in Server,
               (\E c \in Command : Start(s, c)) \/ Crash(s) \/ Make(s)
        PROVE  WaitType'
    BY <1>1, <1>7 DEF Start, Crash, Make, netVars, WaitType
  <1>8. CASE UNCHANGED vars
    BY <1>8 DEF vars, netVars, WaitType
  <1> QED BY <1>2, <1>3, <1>4, <1>5, <1>6, <1>7, <1>8 DEF Next, Handler, GatedHandler

\* The part of a handler before the lock touches no more than its channel.
LEMMA EnterType ==
  ASSUME TypeOK, WaitType', NEW s \in Server, NEW m \in msgs, EnterHandler(s, m)
  PROVE  TypeOK'
  BY DEF EnterHandler, TypeOK, EnvType, envVars, NetType, LogType, logVars, CkptType,
         ckptVars, ChanType

\* Every step keeps the types.
LEMMA TypeStep ==
  ASSUME TypeOK, [Next]_vars
  PROVE  TypeOK'
  <1>0. WaitType'
    BY WaitStep DEF TypeOK
  <1>1. CASE UNCHANGED vars
    BY <1>0, <1>1
    DEF vars, envVars, netVars, logVars, ckptVars, chanVars, TypeOK, EnvType, NetType,
        LogType, CkptType, ChanType
  <1>2. ASSUME NEW s \in Server, NEW c \in Command, Start(s, c)
        PROVE  TypeOK'
    BY <1>0, <1>2, StartType DEF Start, TypeOK, EnvType, NetType
  <1>3. ASSUME NEW s \in Server, Goroutine(s)
        PROVE  TypeOK'
    BY <1>0, <1>3, SendType DEF Goroutine
  <1>4. ASSUME NEW s \in Server, NEW m \in msgs, ReceiveForwardedCommand(s, m)
        PROVE  TypeOK'
    <2>1. m.args.arg \in Command
      BY <1>4, MessageFields DEF ReceiveForwardedCommand, TypeOK
    <2> QED BY <1>0, <1>4, <2>1, StartType
            DEF ReceiveForwardedCommand, TypeOK, EnvType, NetType
  <1>5. ASSUME NEW s \in Server, Handler(s)
        PROVE  TypeOK'
    BY <1>0, <1>4, <1>5, EnterType, PrePrepareType, PrepareType, CommitHandlerType,
       CommitSaveType, ExitType, CheckPointCheckType, CheckPointRecordType
    DEF Handler, GatedHandler, HandleCommitRPC_Fatal
  <1>6. ASSUME NEW s \in Server, Crash(s)
        PROVE  TypeOK'
    BY <1>0, <1>6 DEF Crash, Exit, TypeOK, EnvType, NetType, LogType, logVars, CkptType,
                ChanType, chanVars
  <1> QED BY <1>0, <1>1, <1>2, <1>3, <1>5, <1>6, MakeType DEF Next

\* The system starts well typed.
LEMMA TypeInit ==
  ASSUME Init
  PROVE  TypeOK
  BY DEF Init, TypeOK, EnvType, Saved, NetType, WaitType, LogType, CkptType,
         ChanType

\* Every variable keeps the type of its Go declaration, and every request carries the
\* argument type its sender gives that phase (which for a COMMIT is not the one its
\* handler asserts), for any number of servers, commands, crashes and restarts.
THEOREM TypeCorrect == Spec => []TypeOK
  <1>1. Init => TypeOK
    BY TypeInit
  <1>2. TypeOK /\ [Next]_vars => TypeOK'
    BY TypeStep
  <1> QED BY <1>1, <1>2, PTL DEF Spec

-----------------------------------------------------------------------------
(* One order of commands, while Make does not run again on the leader.      *)

\* No other action touches what counts the runs of Make.
LEMMA OnlyMakeCounts ==
  ASSUME NEW s \in Server,
         \/ (\E c \in Command : Start(s, c)) \/ Goroutine(s) \/ Handler(s) \/ Crash(s)
  PROVE  UNCHANGED <<makes, remade>>
  BY DEF Start, StartBody, Goroutine, sendRPCs, replyToClient, Handler, GatedHandler,
         ReceiveForwardedCommand, EnterHandler, HandlePrePrepareRPC, HandlePrepareRPC,
         HandleCommitRPC, HandleCommitRPC_Fatal, HandleCommitRPC_Save,
         HandleCheckPointRPC_Check, HandleCheckPointRPC_Record, Crash, envVars

\* A step is one run of Make more, or none.
LEMMA MakesCount ==
  ASSUME [Next]_vars
  PROVE  \/ UNCHANGED <<makes, remade>>
         \/ \E s \in Server : /\ Make(s) /\ makes < MaxMake /\ makes' = makes + 1
                              /\ remade' = remade \cup {s}
  BY OnlyMakeCounts DEF Next, Make, vars, envVars

\* A step after which Make has not run again on the leader.
LeaderStays == remade \subseteq remade' /\ leader(0) \notin remade'

\* A step that forgets nothing logged on a server that Make has not run on again.
Keeps ==
  \A s \in Server, n \in Slot :
    Logged(s, n) /\ s \notin remade' =>
      /\ serverLog'[s][n] # NoEntry
      /\ serverLog'[s][n].message = serverLog[s][n].message

\* What a request says of the logs stays true in such a step.
LEMMA RequestStays ==
  ASSUME NEW q, LeaderStays, Keeps, Announced(q), Vouched(q),
         q.phase = "PRE_PREPARE" => q.args.arg \in PrePrepareArg,
         q.phase = "PREPARE" => q.args.arg \in VoteArg
  PROVE  /\ q.phase = "PRE_PREPARE" =>
              /\ q.args.arg.View = 0
              /\ serverLog'[leader(0)][q.args.arg.SequenceNumber] # NoEntry
              /\ serverLog'[leader(0)][q.args.arg.SequenceNumber].message
                   = q.args.arg.Message
         /\ q.phase = "PREPARE" =>
              \/ serverLog'[q.args.arg.SenderIndex][q.args.arg.SequenceNumber] # NoEntry
              \/ q.args.arg.SenderIndex \in remade'
  <1>1. leader(0) \in Server
    BY LeaderIsServer
  <1> QED BY <1>1
          DEF LeaderStays, Keeps, Announced, Vouched, Recorded, Holds, Logged, PrePrepareArg,
              VoteArg

\* So the requests follow the logs after the step, if every new one does.
LEMMA RequestsStay ==
  ASSUME TypeOK, RequestsFollow, LeaderStays, Keeps,
         \A m \in msgs' :
           m \in msgs \/ \E t \in Server : \E job \in outbox[t] :
                           job.phase = m.phase /\ job.args = m.args,
         \A t \in Server : \A job \in outbox'[t] :
           job \in outbox[t] \/ (Announced(job)' /\ Vouched(job)')
  PROVE  RequestsFollow'
  <1>1. ASSUME NEW m \in msgs
        PROVE  Announced(m)' /\ Vouched(m)'
    BY <1>1, MessageFields, RequestStays
    DEF TypeOK, RequestsFollow, Announced, Vouched, Recorded, Holds, Logged
  <1>2. ASSUME NEW t \in Server, NEW job \in outbox[t]
        PROVE  Announced(job)' /\ Vouched(job)'
    <2>1. /\ job.phase = "PRE_PREPARE" => job.args.arg \in PrePrepareArg
          /\ job.phase = "PREPARE" => job.args.arg \in VoteArg
      <3>1. job \in Job
        BY DEF TypeOK, NetType
      <3> QED BY <3>1, RequestFields DEF Job
    <2> QED BY <2>1, RequestStays
            DEF RequestsFollow, Announced, Vouched, Recorded, Holds, Logged
  <1>3. ASSUME NEW m \in msgs'
        PROVE  Announced(m)' /\ Vouched(m)'
    <2>1. CASE m \in msgs
      BY <1>1, <2>1
    <2>2. CASE m \notin msgs
      <3>1. PICK t \in Server : \E job \in outbox[t] :
                   job.phase = m.phase /\ job.args = m.args
        BY <2>2
      <3>2. PICK job \in outbox[t] : job.phase = m.phase /\ job.args = m.args
        BY <3>1
      <3>3. Announced(job)' /\ Vouched(job)'
        BY <1>2
      <3> QED BY <3>2, <3>3 DEF Announced, Vouched
    <2> QED BY <2>1, <2>2
  <1> QED BY <1>2, <1>3 DEF RequestsFollow

\* A step that leaves the logs alone and starts neither a pre-prepare nor a prepare
\* keeps the order.
LEMMA OrderQuiet ==
  ASSUME OrderInv, TypeOK', LeaderStays, UNCHANGED <<view, serverLog, sequenceNumber>>,
         \A m \in msgs' :
           m \in msgs \/ \E t \in Server : \E job \in outbox[t] :
                           job.phase = m.phase /\ job.args = m.args,
         \A t \in Server : \A job \in outbox'[t] :
           job \in outbox[t] \/ job.phase \notin {"PRE_PREPARE", "PREPARE"}
  PROVE  OrderInv'
  <1>1. Keeps
    BY DEF Keeps, Logged
  <1>2. RequestsFollow'
    BY <1>1, RequestsStay DEF OrderInv, Announced, Vouched
  <1> QED BY <1>2
          DEF OrderInv, LeaderStays, OneView, LeaderCounts, LogsFollow, Recorded, Holds, Logged

\* One new entry that copies the leader's, or is the leader's next one, keeps the
\* logs following the leader.
LEMMA LogsGrow ==
  ASSUME TypeOK, LogsFollow, LeaderStays, Keeps, NEW s \in Server, NEW n \in Slot, NEW e,
         serverLog' = [serverLog EXCEPT ![s][n] = e],
         e.view = 0,
         serverLog'[leader(0)][n] # NoEntry,
         e.message = serverLog'[leader(0)][n].message,
         \A p \in e.prepareArgs : Recorded(p.SenderIndex, n)',
         \A t \in Server, k \in Slot : Logged(t, k) =>
           \A p \in serverLog[t][k].prepareArgs : p.SenderIndex \in Server
  PROVE  LogsFollow'
  <1>0. leader(0) \in Server
    BY LeaderIsServer
  <1>1. ASSUME NEW t \in Server, NEW k \in Slot, serverLog'[t][k] # NoEntry
        PROVE  /\ serverLog'[t][k].view = 0
               /\ serverLog'[leader(0)][k] # NoEntry
               /\ serverLog'[leader(0)][k].message = serverLog'[t][k].message
               /\ \A p \in serverLog'[t][k].prepareArgs : Recorded(p.SenderIndex, k)'
    <2>1. CASE t = s /\ k = n
      <3>1. serverLog'[t][k] = e
        BY <2>1 DEF TypeOK, LogType
      <3> QED BY <2>1, <3>1
    <2>2. CASE ~(t = s /\ k = n)
      <3>1. serverLog'[t][k] = serverLog[t][k]
        BY <2>2 DEF TypeOK, LogType
      <3>2. Logged(t, k)
        BY <1>1, <3>1 DEF Logged
      <3>3. Logged(leader(0), k)
            /\ serverLog[leader(0)][k].message = serverLog[t][k].message
            /\ serverLog[t][k].view = 0
            /\ \A p \in serverLog[t][k].prepareArgs : Recorded(p.SenderIndex, k)
        BY <3>2 DEF LogsFollow, Holds
      <3>4. \A p \in serverLog[t][k].prepareArgs : p.SenderIndex \in Server
        BY <3>2
      <3>5. serverLog'[leader(0)][k] # NoEntry
            /\ serverLog'[leader(0)][k].message = serverLog[leader(0)][k].message
        BY <1>0, <3>3 DEF Keeps, LeaderStays
      <3>6. \A p \in serverLog[t][k].prepareArgs : Recorded(p.SenderIndex, k)'
        BY <3>3, <3>4 DEF Keeps, LeaderStays, Recorded, Logged
      <3> QED BY <3>1, <3>3, <3>5, <3>6
    <2> QED BY <2>1, <2>2
  <1> QED BY <1>1 DEF LogsFollow, Holds, Logged

\* Senders of counted prepares are servers.
LEMMA SendersAreServers ==
  ASSUME TypeOK, NEW t \in Server, NEW k \in Slot, Logged(t, k)
  PROVE  \A p \in serverLog[t][k].prepareArgs : p.SenderIndex \in Server
  BY DEF TypeOK, LogType, Logged, Entry, VoteArg

LEMMA OrderStart ==
  ASSUME OrderInv, TypeOK', LeaderStays, NEW s \in Server, NEW c \in Command, StartBody(s, c),
         msgs' \subseteq msgs
  PROVE  OrderInv'
  <1>1. CASE StartForward(s, c)
    <2>1. UNCHANGED <<view, serverLog, sequenceNumber>>
      BY <1>1 DEF StartBody, StartForward
    <2>2. \A t \in Server : \A job \in outbox'[t] :
            job \in outbox[t] \/ job.phase \notin {"PRE_PREPARE", "PREPARE"}
      BY <1>1 DEF StartForward, OrderInv, TypeOK, NetType
    <2> QED BY <2>1, <2>2, OrderQuiet
  <1>2. CASE StartDrop(s, c)
    BY <1>2, OrderQuiet DEF StartBody, StartDrop
  <1>3. CASE StartPrePrepare(s, c)
    <2> DEFINE n == sequenceNumber[s]
               e == logEntry(0, c, Digest[c])
               arg == [View |-> 0, SequenceNumber |-> n, Digest |-> Digest[c],
                       Message |-> c]
               new == [phase |-> "PRE_PREPARE",
                       args |-> makeArguments(s, "PrePrepareCommandArg", arg)]
    <2>1. view[s] = 0 /\ s = leader(0) /\ n \in Slot /\ n \in Nat /\ view' = view
      BY <1>3, CommandAssumption DEF OrderInv, OneView, StartPrePrepare, StartBody
    <2>2. ~Logged(s, n)
      BY <2>1 DEF OrderInv, LeaderCounts
    <2>3. addLogEntry(s, 0, n)
      BY <2>1, <2>2 DEF addLogEntry, Logged
    <2>4. /\ serverLog' = [serverLog EXCEPT ![s][n] = e]
          /\ sequenceNumber' = [sequenceNumber EXCEPT ![s] = n + 1]
          /\ outbox' = [outbox EXCEPT ![s] = @ \cup ({new} \cup RepeatedReply(s, 0, n, c))]
      BY <1>3, <2>1, <2>3 DEF StartPrePrepare, AdvanceSequenceNumber
    <2>5. serverLog'[s][n] = e
      BY <2>1, <2>4 DEF OrderInv, TypeOK, LogType
    <2>6. \A t \in Server, k \in Slot :
            ~(t = s /\ k = n) => serverLog'[t][k] = serverLog[t][k]
      BY <2>1, <2>4 DEF OrderInv, TypeOK, LogType
    <2>7. e # NoEntry /\ e.view = 0 /\ e.message = c /\ e.prepareArgs = {}
      <3>1. Digest[c] \in Nat
        BY DigestAssumption
      <3> QED BY <3>1, EntryType DEF logEntry
    <2>8. Keeps
      BY <2>2, <2>6 DEF Keeps, Logged
    <2>9. LogsFollow'
      BY <2>1, <2>4, <2>5, <2>7, <2>8, LogsGrow, SendersAreServers DEF OrderInv
    <2>10. LeaderCounts'
      <3>1. sequenceNumber'[s] = n + 1
        BY <2>1, <2>4 DEF OrderInv, TypeOK, LogType
      <3>2. ASSUME NEW k \in Slot, k # n, serverLog'[s][k] # NoEntry
            PROVE  k < n
        BY <2>1, <2>6, <3>2 DEF OrderInv, LeaderCounts, Logged
      <3>3. \A k \in Slot : k \in Nat
        BY CommandAssumption
      <3>4. ASSUME NEW k \in Slot, serverLog'[s][k] # NoEntry
            PROVE  k < sequenceNumber'[s]
        BY <2>1, <3>1, <3>2, <3>3, <3>4
      <3> QED BY <2>1, <3>4 DEF LeaderCounts, Logged
    <2>11. RequestsFollow'
      <3>1. ASSUME NEW job, job = new
            PROVE  Announced(job)' /\ Vouched(job)'
        <4>1. /\ job.phase = "PRE_PREPARE" /\ job.args.arg.View = 0
              /\ job.args.arg.SequenceNumber = n /\ job.args.arg.Message = c
          BY <3>1 DEF makeArguments
        <4> QED BY <2>1, <2>5, <2>7, <4>1 DEF Announced, Vouched, Holds, Logged
      <3>2. \A job \in RepeatedReply(s, 0, n, c) : Announced(job)' /\ Vouched(job)'
        BY DEF RepeatedReply, Announced, Vouched
      <3>3. \A t \in Server : \A job \in outbox'[t] :
              job \in outbox[t] \/ (Announced(job)' /\ Vouched(job)')
        <4> HIDE DEF new
        <4>1. \A t \in Server : \A job \in outbox'[t] :
                job \in outbox[t] \/ job = new \/ job \in RepeatedReply(s, 0, n, c)
          BY <2>4 DEF OrderInv, TypeOK, NetType
        <4> QED BY <3>1, <3>2, <4>1
      <3> QED BY <2>8, <3>3, RequestsStay DEF OrderInv
    <2> QED BY <2>1, <2>9, <2>10, <2>11 DEF OrderInv, OneView
  <1> QED BY <1>1, <1>2, <1>3 DEF StartBody

\* Sending copies what a goroutine was started with; the end of a process only
\* drops messages.
LEMMA OrderExit ==
  ASSUME OrderInv, TypeOK', LeaderStays, NEW s \in Server, Exit(s)
  PROVE  OrderInv'
  <1>1. UNCHANGED <<view, serverLog, sequenceNumber>> /\ msgs' \subseteq msgs
    BY DEF Exit, logVars
  <1>2. \A t \in Server : outbox'[t] \subseteq outbox[t]
    BY DEF Exit, OrderInv, TypeOK, NetType
  <1> QED BY <1>1, <1>2, OrderQuiet

LEMMA OrderSend ==
  ASSUME OrderInv, TypeOK', LeaderStays, NEW s \in Server, NEW job \in outbox[s],
         sendRPCs(s, job) \/ replyToClient(s, job)
  PROVE  OrderInv'
  <1>1. CASE Exit(s)
    BY <1>1, OrderExit
  <1>2. CASE ~Exit(s)
    <2>1. UNCHANGED <<view, serverLog, sequenceNumber>>
      BY <1>2 DEF sendRPCs, replyToClient, logVars
    <2>2. \A m \in msgs' :
            m \in msgs \/ (m.phase = job.phase /\ m.args = job.args)
      BY <1>2 DEF sendRPCs, replyToClient
    <2>3. outbox' = [outbox EXCEPT ![s] = @ \ {job}]
      BY <1>2 DEF sendRPCs, replyToClient
    <2>4. \A t \in Server : outbox'[t] \subseteq outbox[t]
      BY <2>3 DEF OrderInv, TypeOK, NetType
    <2> QED BY <2>1, <2>2, <2>4, OrderQuiet
  <1> QED BY <1>1, <1>2

LEMMA OrderPrePrepare ==
  ASSUME OrderInv, TypeOK', LeaderStays, NEW s \in Server, NEW m \in msgs,
         HandlePrePrepareRPC(s, m)
  PROVE  OrderInv'
  <1> DEFINE n == m.args.arg.SequenceNumber
             d == m.args.arg.Digest
             c == m.args.arg.Message
             vote == Vote(0, n, d, s, 0)
             e == [logEntry(0, c, d) EXCEPT !.prepareArgs = {vote}]
             prepare == [phase |-> "PREPARE",
                         args |-> makeArguments(s, "PrepareCommandArg", vote)]
  <1>1. /\ n \in Slot /\ d \in Nat /\ c \in Command
        /\ m.phase = "PRE_PREPARE" /\ m.args.arg.View = 0
        /\ Holds(leader(0), n, c)
    <2>1. m.phase = "PRE_PREPARE" /\ m.args.arg \in PrePrepareArg
      BY MessageFields DEF HandlePrePrepareRPC, Handles, OrderInv, TypeOK
    <2>2. Announced(m)
      BY DEF OrderInv, RequestsFollow
    <2> QED BY <2>1, <2>2 DEF Announced, PrePrepareArg
  <1>2. msgs' \subseteq msgs /\ UNCHANGED view
    BY DEF HandlePrePrepareRPC, Handles
  <1>3. CASE ~(ValidPrePrepare(s, m.args) /\ addLogEntry(s, 0, n))
    <2>1. UNCHANGED <<serverLog, sequenceNumber>>
      BY <1>1, <1>3 DEF HandlePrePrepareRPC
    <2>2. outbox' = outbox \/ outbox' = [outbox EXCEPT ![s] = @ \cup RepeatedReply(s, 0, n, c)]
          \/ outbox' = [outbox EXCEPT ![s] = @ \cup {}]
      BY <1>1, <1>3 DEF HandlePrePrepareRPC
    <2>3. \A job \in RepeatedReply(s, 0, n, c) : job.phase = "REPLY_TO_CLIENT"
      BY DEF RepeatedReply
    <2>4. \A t \in Server : \A job \in outbox'[t] :
            job \in outbox[t] \/ job.phase \notin {"PRE_PREPARE", "PREPARE"}
      BY <2>2, <2>3 DEF OrderInv, TypeOK, NetType
    <2> QED BY <1>2, <2>1, <2>4, OrderQuiet
  <1>4. CASE ValidPrePrepare(s, m.args) /\ addLogEntry(s, 0, n)
    <2>1. /\ serverLog' = [serverLog EXCEPT ![s][n] = e]
          /\ AdvanceSequenceNumber(s)
          /\ outbox' = [outbox EXCEPT ![s] = @ \cup {prepare}]
      BY <1>1, <1>4 DEF HandlePrePrepareRPC
    <2>2. ~Logged(s, n)
      <3>1. Logged(s, n) => serverLog[s][n].view = 0
        BY <1>1 DEF OrderInv, LogsFollow
      <3> QED BY <1>4, <3>1 DEF addLogEntry, Logged
    <2>3. s # leader(0)
      BY <1>1, <2>2 DEF Holds
    <2>4. serverLog'[s][n] = e
      BY <1>1, <2>1 DEF OrderInv, TypeOK, LogType
    <2>5. \A t \in Server, k \in Slot :
            ~(t = s /\ k = n) => serverLog'[t][k] = serverLog[t][k]
      BY <1>1, <2>1 DEF OrderInv, TypeOK, LogType
    <2>6. e # NoEntry /\ e.view = 0 /\ e.message = c /\ e.prepareArgs = {vote}
          /\ vote.SenderIndex = s
      <3>1. vote \in VoteArg /\ vote.SenderIndex = s
        BY <1>1, VoteType DEF Vote, OrderInv, TypeOK
      <3>2. e \in Entry
        <4> HIDE DEF vote
        <4> QED BY <1>1, <3>1 DEF logEntry, Entry
      <3> QED BY <3>1, <3>2, AbsentAssumption DEF logEntry
    <2>7. Keeps
      BY <2>2, <2>5 DEF Keeps, Logged
    <2>8. LogsFollow'
      <3>1. serverLog'[leader(0)][n] # NoEntry
            /\ serverLog'[leader(0)][n].message = c
        BY <1>1, <2>7, LeaderIsServer DEF Keeps, LeaderStays, Holds
      <3>2. serverLog' = [serverLog EXCEPT ![s][n] = e]
        BY <2>1
      <3>3. e.view = 0 /\ e.message = serverLog'[leader(0)][n].message
        BY <2>6, <3>1
      <3>4. \A p \in e.prepareArgs : Recorded(p.SenderIndex, n)'
        BY <2>4, <2>6 DEF Recorded, Logged
      <3> HIDE DEF e
      <3> QED BY <1>1, <2>7, <3>1, <3>2, <3>3, <3>4, LogsGrow, SendersAreServers
              DEF OrderInv
    <2>9. LeaderCounts'
      <3>1. sequenceNumber'[leader(0)] = sequenceNumber[leader(0)]
        BY <2>1, <2>3, LeaderIsServer DEF AdvanceSequenceNumber, OrderInv, TypeOK, LogType
      <3> QED BY <2>3, <2>5, <3>1, LeaderIsServer DEF OrderInv, LeaderCounts, Logged
    <2>10. RequestsFollow'
      <3>1. ASSUME NEW job, job = prepare
            PROVE  Announced(job)' /\ Vouched(job)'
        <4>1. /\ job.phase = "PREPARE" /\ job.args.arg.SenderIndex = s
              /\ job.args.arg.SequenceNumber = n
          BY <3>1 DEF makeArguments, Vote
        <4> QED BY <2>4, <2>6, <4>1 DEF Announced, Vouched, Recorded, Logged
      <3>2. \A t \in Server : \A job \in outbox'[t] : job \in outbox[t] \/ job = prepare
        <4> HIDE DEF prepare
        <4> QED BY <2>1 DEF OrderInv, TypeOK, NetType
      <3> QED BY <1>2, <2>7, <3>1, <3>2, RequestsStay DEF OrderInv
    <2> QED BY <1>2, <2>8, <2>9, <2>10 DEF OrderInv, OneView
  <1> QED BY <1>3, <1>4

LEMMA OrderPrepare ==
  ASSUME OrderInv, TypeOK', LeaderStays, NEW s \in Server, NEW m \in msgs,
         HandlePrepareRPC(s, m)
  PROVE  OrderInv'
  <1> DEFINE a == m.args.arg
             n == a.SequenceNumber
             entry == serverLog[s][n]
             prepares == RecordPrepare(entry, a)
             e == [entry EXCEPT !.prepareArgs = prepares,
                                !.commitArgs = IF EntersCommitPhase(prepares)
                                               THEN @ \cup {s} ELSE @]
  <1>1. a \in VoteArg /\ n \in Slot /\ a.SenderIndex \in Server
        /\ Recorded(a.SenderIndex, n)
    <2>1. m.phase = "PREPARE" /\ a \in VoteArg
      BY MessageFields DEF HandlePrepareRPC, Handles, OrderInv, TypeOK
    <2>2. Vouched(m)
      BY DEF OrderInv, RequestsFollow
    <2> QED BY <2>1, <2>2 DEF Vouched, VoteArg
  <1>2. msgs' \subseteq msgs /\ UNCHANGED <<view, sequenceNumber>>
    BY DEF HandlePrepareRPC, Handles
  <1>3. \A t \in Server : \A job \in outbox'[t] :
          job \in outbox[t] \/ job.phase = "COMMIT"
    BY DEF HandlePrepareRPC, OrderInv, TypeOK, NetType
  <1>4. CASE ~ValidPrepare(s, m.args)
    <2>1. serverLog' = serverLog
      BY <1>4 DEF HandlePrepareRPC
    <2> QED BY <1>2, <1>3, <2>1, OrderQuiet
  <1>5. CASE ValidPrepare(s, m.args)
    <2>1. serverLog' = [serverLog EXCEPT ![s][n] = e]
      BY <1>5 DEF HandlePrepareRPC
    <2>2. Logged(s, n) /\ entry \in Entry
      BY <1>1, <1>5 DEF ValidPrepare, Logged, OrderInv, TypeOK, LogType
    <2>3. e \in Entry /\ e.view = entry.view /\ e.message = entry.message
          /\ e.prepareArgs = entry.prepareArgs \cup {a}
      <3>1. prepares = entry.prepareArgs \cup {a} /\ prepares \subseteq VoteArg
        BY <1>1, <2>2 DEF Entry, RecordPrepare
      <3>2. entry.commitArgs \cup {s} \subseteq Server
        BY <2>2 DEF Entry
      <3> HIDE DEF entry, prepares
      <3> QED BY <2>2, <3>1, <3>2 DEF Entry
    <2>4. serverLog'[s][n] = e
      BY <1>1, <2>1 DEF OrderInv, TypeOK, LogType
    <2>5. \A t \in Server, k \in Slot :
            ~(t = s /\ k = n) => serverLog'[t][k] = serverLog[t][k]
      BY <1>1, <2>1 DEF OrderInv, TypeOK, LogType
    <2> HIDE DEF e
    <2>6. e # NoEntry
      BY <2>3, AbsentAssumption
    <2>7. Keeps
      <3>1. ASSUME NEW t \in Server, NEW k \in Slot, Logged(t, k)
            PROVE  /\ serverLog'[t][k] # NoEntry
                   /\ serverLog'[t][k].message = serverLog[t][k].message
        <4>1. CASE t = s /\ k = n
          BY <2>3, <2>4, <2>6, <4>1
        <4>2. CASE ~(t = s /\ k = n)
          BY <2>5, <3>1, <4>2 DEF Logged
        <4> QED BY <4>1, <4>2
      <3> QED BY <3>1 DEF Keeps
    <2>8. LogsFollow'
      <3>1. entry.view = 0 /\ Holds(leader(0), n, entry.message)
            /\ \A p \in entry.prepareArgs : Recorded(p.SenderIndex, n)
        BY <1>1, <2>2 DEF OrderInv, LogsFollow
      <3>2. \A p \in entry.prepareArgs : p.SenderIndex \in Server
        BY <2>2 DEF Entry, VoteArg
      <3>3. \A p \in e.prepareArgs : Recorded(p.SenderIndex, n)'
        BY <1>1, <2>3, <2>7, <3>1, <3>2 DEF Keeps, LeaderStays, Recorded, Logged
      <3>4. serverLog'[leader(0)][n] # NoEntry
            /\ serverLog'[leader(0)][n].message = e.message
        BY <1>1, <2>3, <2>7, <3>1, LeaderIsServer DEF Keeps, LeaderStays, Holds
      <3> QED BY <1>1, <2>1, <2>3, <2>7, <3>1, <3>3, <3>4, LogsGrow, SendersAreServers
              DEF OrderInv
    <2>9. LeaderCounts'
      BY <1>1, <1>2, <2>2, <2>5, LeaderIsServer DEF OrderInv, LeaderCounts, Logged
    <2>10. RequestsFollow'
      <3>1. \A t \in Server : \A job \in outbox'[t] :
              job \in outbox[t] \/ (Announced(job)' /\ Vouched(job)')
        BY <1>3 DEF Announced, Vouched
      <3> QED BY <1>2, <2>7, <3>1, RequestsStay DEF OrderInv
    <2> QED BY <1>2, <2>8, <2>9, <2>10 DEF OrderInv, OneView
  <1> QED BY <1>4, <1>5

\* The handlers that touch no log: a commit, and the two halves of a checkpoint.
LEMMA OrderCommit ==
  ASSUME OrderInv, TypeOK', LeaderStays, NEW s \in Server, NEW m \in msgs, HandleCommitRPC(s, m)
  PROVE  OrderInv'
  <1>1. UNCHANGED <<view, serverLog, sequenceNumber>> /\ msgs' \subseteq msgs
    BY DEF HandleCommitRPC, Handles
  <1>2. \A t \in Server : \A job \in outbox'[t] :
          job \in outbox[t] \/ job.phase \notin {"PRE_PREPARE", "PREPARE"}
    <2>1. CASE outbox' = outbox
      BY <2>1
    <2>2. CASE outbox' # outbox
      <3> DEFINE n == m.args.arg.SequenceNumber
                 A == {[phase |-> "REPLY_TO_CLIENT",
                        args |-> Reply(s, n, serverLog[s][n].message, serverLog[s][n].message)]}
                 B == IF TakesCheckPoint(n) THEN {makeCheckpoint(s, n)} ELSE {}
      <3>1. outbox' = [outbox EXCEPT ![s] = @ \cup (A \cup B)]
        BY <2>2 DEF HandleCommitRPC
      <3>2. \A job \in A : job.phase = "REPLY_TO_CLIENT"
        OBVIOUS
      <3>3. \A job \in B : job.phase = "CHECK_POINT"
        BY DEF makeCheckpoint
      <3> HIDE DEF A, B
      <3> QED BY <3>1, <3>2, <3>3 DEF OrderInv, TypeOK, NetType
    <2> QED BY <2>1, <2>2
  <1> QED BY <1>1, <1>2, OrderQuiet

LEMMA OrderCheckPoint ==
  ASSUME OrderInv, TypeOK', LeaderStays, NEW s \in Server,
         \/ HandleCommitRPC_Save(s)
         \/ \E m \in msgs : HandleCheckPointRPC_Check(s, m)
         \/ \E a \in checking[s] : HandleCheckPointRPC_Record(s, a)
  PROVE  OrderInv'
  <1>1. CASE Exit(s)
    BY <1>1, OrderExit
  <1>2. CASE ~Exit(s)
    <2>1. UNCHANGED <<view, serverLog, sequenceNumber, outbox>> /\ msgs' \subseteq msgs
      BY <1>2 DEF HandleCommitRPC_Save, HandleCheckPointRPC_Check,
                  HandleCheckPointRPC_Record, logVars, netVars
    <2> QED BY <2>1, OrderQuiet
  <1> QED BY <1>1, <1>2

LEMMA OrderInit == Init => OrderInv
  <1> SUFFICES ASSUME Init PROVE OrderInv
    OBVIOUS
  <1>1. \A s \in Server, n \in Slot : ~Logged(s, n)
    BY DEF Init, Logged
  <1>2. RequestsFollow
    BY DEF Init, RequestsFollow
  <1> QED BY <1>1, <1>2, TypeInit, LeaderIsServer
          DEF OrderInv, OneView, LeaderCounts, LogsFollow, Init

\* What a new process of another server than the leader forgets, the leader keeps.
LEMMA OrderMake ==
  ASSUME OrderInv, TypeOK', LeaderStays, NEW s \in Server, Make(s)
  PROVE  OrderInv'
  <1>1. CASE Exit(s)
    BY <1>1, OrderExit
  <1>2. CASE ~Exit(s)
    <2>1. remade' = remade \cup {s} /\ s # leader(0)
      BY DEF Make, LeaderStays
    <2>2. /\ view' = [view EXCEPT ![s] = 0]
          /\ serverLog' = [serverLog EXCEPT ![s] = [n \in Slot |-> NoEntry]]
          /\ sequenceNumber' = [sequenceNumber EXCEPT ![s] = disk[s].sequenceNumber]
          /\ UNCHANGED <<msgs, outbox>>
      BY <1>2 DEF Make, readPersist, netVars
    <2>3. \A t \in Server : t # s =>
            /\ serverLog'[t] = serverLog[t] /\ sequenceNumber'[t] = sequenceNumber[t]
      BY <2>2 DEF OrderInv, TypeOK, LogType
    <2>4. \A n \in Slot : ~Logged(s, n)'
      BY <2>2 DEF OrderInv, TypeOK, LogType, Logged
    <2>5. Keeps
      BY <2>1, <2>3 DEF Keeps, Logged
    <2>6. RequestsFollow'
      BY <2>2, <2>5, RequestsStay DEF OrderInv
    <2>7. OneView' /\ LeaderCounts'
      BY <2>1, <2>2, <2>3, LeaderIsServer
      DEF OrderInv, TypeOK, LogType, OneView, LeaderCounts, Logged
    <2>8. ASSUME NEW t \in Server, NEW n \in Slot, Logged(t, n)'
          PROVE  /\ serverLog'[t][n].view = 0
                 /\ Holds(leader(0), n, serverLog[t][n].message)'
                 /\ \A p \in serverLog'[t][n].prepareArgs : Recorded(p.SenderIndex, n)'
      <3>1. t # s /\ serverLog'[t] = serverLog[t] /\ Logged(t, n)
        BY <2>3, <2>4, <2>8 DEF Logged
      <3>2. /\ serverLog[t][n].view = 0
            /\ Holds(leader(0), n, serverLog[t][n].message)
            /\ \A p \in serverLog[t][n].prepareArgs :
                 Recorded(p.SenderIndex, n) /\ p.SenderIndex \in Server
        BY <3>1, SendersAreServers DEF OrderInv, LogsFollow
      <3>3. Holds(leader(0), n, serverLog[t][n].message)'
        BY <2>1, <2>3, <3>1, <3>2, LeaderIsServer DEF Holds, Logged
      <3>4. ASSUME NEW r \in Server, Recorded(r, n)
            PROVE  Recorded(r, n)'
        BY <2>1, <2>3, <3>4 DEF Recorded, Logged
      <3> QED BY <3>1, <3>2, <3>3, <3>4
    <2> QED BY <2>6, <2>7, <2>8 DEF OrderInv, LogsFollow
  <1> QED BY <1>1, <1>2

\* Every step keeps the order, as long as Make does not run again on the leader.
LEMMA OrderStep ==
  ASSUME OrderInv, leader(0) \notin remade', [Next]_vars
  PROVE  OrderInv'
  <1>1. TypeOK' /\ LeaderStays
    BY TypeStep, MakesCount DEF OrderInv, LeaderStays
  <1>2. CASE UNCHANGED vars
    <2>1. UNCHANGED <<view, serverLog, sequenceNumber, msgs, outbox>>
      BY <1>2 DEF vars, netVars, logVars
    <2> QED BY <1>1, <2>1, OrderQuiet
  <1>3. ASSUME NEW s \in Server, NEW c \in Command, Start(s, c)
        PROVE  OrderInv'
    BY <1>1, <1>3, OrderStart DEF Start
  <1>4. ASSUME NEW s \in Server, NEW job \in outbox[s],
               sendRPCs(s, job) \/ replyToClient(s, job)
        PROVE  OrderInv'
    BY <1>1, <1>4, OrderSend
  <1>5. ASSUME NEW s \in Server, NEW m \in msgs, ReceiveForwardedCommand(s, m)
        PROVE  OrderInv'
    <2>1. m.args.arg \in Command
      BY <1>5, MessageFields DEF ReceiveForwardedCommand, OrderInv, TypeOK
    <2>2. StartBody(s, m.args.arg) /\ msgs' \subseteq msgs
      BY <1>5 DEF ReceiveForwardedCommand
    <2> QED BY <1>1, <2>1, <2>2, OrderStart
  <1>6. ASSUME NEW s \in Server, NEW m \in msgs,
               HandlePrePrepareRPC(s, m) \/ HandlePrepareRPC(s, m) \/ HandleCommitRPC(s, m)
        PROVE  OrderInv'
    BY <1>1, <1>6, OrderPrePrepare, OrderPrepare, OrderCommit
  <1>7. ASSUME NEW s \in Server, NEW m \in msgs, EnterHandler(s, m)
        PROVE  OrderInv'
    <2>1. UNCHANGED <<view, serverLog, sequenceNumber, msgs, outbox>>
      BY <1>7 DEF EnterHandler, logVars
    <2> QED BY <1>1, <2>1, OrderQuiet
  <1>8. ASSUME NEW s \in Server,
               \/ HandleCommitRPC_Save(s)
               \/ \E m \in msgs : HandleCheckPointRPC_Check(s, m)
               \/ \E a \in checking[s] : HandleCheckPointRPC_Record(s, a)
        PROVE  OrderInv'
    BY <1>1, <1>8, OrderCheckPoint
  <1>9. ASSUME NEW s \in Server, Crash(s) \/ \E m \in msgs : HandleCommitRPC_Fatal(s, m)
        PROVE  OrderInv'
    BY <1>1, <1>9, OrderExit DEF Crash, HandleCommitRPC_Fatal
  <1>10. ASSUME NEW s \in Server, Make(s)
         PROVE  OrderInv'
    BY <1>1, <1>10, OrderMake
  <1> QED BY <1>2, <1>3, <1>4, <1>5, <1>6, <1>7, <1>8, <1>9, <1>10
          DEF Next, Goroutine, Handler, GatedHandler

\* OrderInv holds as long as Make does not run again on the leader, whatever other
\* servers stop or are started again.
THEOREM OrderCorrect == Spec => [](leader(0) \notin remade => OrderInv)
  <1> DEFINE Inv == leader(0) \notin remade => OrderInv
  <1>1. Init => Inv
    BY OrderInit
  <1>2. Inv /\ [Next]_vars => Inv'
    BY OrderStep, MakesCount
  <1> QED BY <1>1, <1>2, PTL DEF Spec

LEMMA OrderAgrees == OrderInv => SlotAgreement
  BY LeaderIsServer DEF OrderInv, LogsFollow, SlotAgreement, Holds

\* Two servers that log a slot in the same view log the same command there (the
\* leader's), for any number of servers and commands, any digest, and any crashes and
\* restarts of other servers than the leader, in new processes or in running ones.
THEOREM AgreementUnlessLeaderRestarts == Spec => []AgreementWhileLeaderStays
  <1>1. (leader(0) \notin remade => OrderInv) => AgreementWhileLeaderStays
    BY OrderAgrees DEF AgreementWhileLeaderStays
  <1> QED BY <1>1, OrderCorrect, PTL

LEMMA OrderBacksPrepares == OrderInv => PrepareBacked
  <1> SUFFICES ASSUME OrderInv, NEW s \in Server, NEW n \in Slot, Logged(s, n),
                      NEW p \in serverLog[s][n].prepareArgs, p.SenderIndex \notin remade
               PROVE  /\ p.SenderIndex \in Server
                      /\ Holds(p.SenderIndex, n, serverLog[s][n].message)
    BY SendersAreServers DEF PrepareBacked, Backers, OrderInv
  <1>1. p.SenderIndex \in Server /\ Logged(p.SenderIndex, n)
    BY SendersAreServers DEF OrderInv, LogsFollow, Recorded
  <1>2. /\ Holds(leader(0), n, serverLog[s][n].message)
        /\ Holds(leader(0), n, serverLog[p.SenderIndex][n].message)
    BY <1>1 DEF OrderInv, LogsFollow
  <1> QED BY <1>1, <1>2 DEF Holds

\* A prepare counted for a slot comes from a server that holds the slot's command or
\* has been started again since, so what a server has prepared is what 2f + 1 servers
\* have logged, under the same condition.
THEOREM PreparesUnlessLeaderRestarts == Spec => []PrepareBacked
  <1>1. (leader(0) \notin remade => OrderInv) => PrepareBacked
    BY OrderBacksPrepares DEF PrepareBacked
  <1> QED BY <1>1, OrderCorrect, PTL

\* Make has not run again anywhere.
Untouched == makes = 0 /\ remade = {}

LEMMA UntouchedAlways ==
  ASSUME MaxMake = 0
  PROVE  Spec => []Untouched
  <1>1. Init => Untouched
    BY DEF Init, Untouched
  <1>2. Untouched /\ [Next]_vars => Untouched'
    BY MakesCount DEF Untouched
  <1> QED BY <1>1, <1>2, PTL DEF Spec

\* Where Make does not run again at all, the leader's order is there without exception.
LEMMA OrderWithoutRestart ==
  ASSUME MaxMake = 0
  PROVE  Spec => [](OrderInv /\ Untouched)
  <1>1. Untouched /\ (leader(0) \notin remade => OrderInv) => OrderInv /\ Untouched
    BY DEF Untouched
  <1> QED BY <1>1, OrderCorrect, UntouchedAlways, PTL

\* Two servers that log a slot in the same view log the same command there, as long as
\* Make does not run again.
THEOREM AgreementWithoutRestart ==
  ASSUME MaxMake = 0
  PROVE  Spec => []SlotAgreement
  BY OrderWithoutRestart, OrderAgrees, PTL

-----------------------------------------------------------------------------
(* The counters on disk.                                                    *)

Durable(s) ==
  /\ ~serverLock[s] => disk[s].lastCheckPointSeqNumber = lastCheckPointSeqNumber[s]
  /\ disk[s].sequenceNumber <= sequenceNumber[s]
  /\ leader(view[s]) # s => disk[s].sequenceNumber = sequenceNumber[s]

LEMMA CountersStep == TypeOK /\ DurableCounters /\ [Next]_vars => DurableCounters'
  <1> SUFFICES ASSUME TypeOK, DurableCounters, [Next]_vars
               PROVE  DurableCounters'
    OBVIOUS
  <1>0. \A s \in Server :
          /\ sequenceNumber[s] \in Nat /\ disk[s].sequenceNumber \in Nat
          /\ Durable(s)
    BY DEF TypeOK, EnvType, LogType, Saved, DurableCounters, Durable
  <1>1. CASE UNCHANGED <<disk, sequenceNumber, view, lastCheckPointSeqNumber, serverLock>>
    BY <1>1 DEF DurableCounters
  <1>2. ASSUME NEW s \in Server,
               \A t \in Server \ {s} :
                 /\ disk'[t] = disk[t]
                 /\ sequenceNumber'[t] = sequenceNumber[t]
                 /\ view'[t] = view[t]
                 /\ lastCheckPointSeqNumber'[t] = lastCheckPointSeqNumber[t]
                 /\ serverLock'[t] = serverLock[t],
               Durable(s)'
        PROVE  DurableCounters'
    BY <1>2 DEF DurableCounters, Durable
  \* A handler that saves both counters as they are after it.
  <1>3. ASSUME NEW s \in Server, NEW seq, NEW last, persist(s, seq, last),
               view' = view, \A t \in Server \ {s} : serverLock'[t] = serverLock[t],
               sequenceNumber' = [sequenceNumber EXCEPT ![s] = seq],
               lastCheckPointSeqNumber' = [lastCheckPointSeqNumber EXCEPT ![s] = last],
               seq \in Nat
        PROVE  DurableCounters'
    <2>1. disk'[s] = [saved |-> TRUE, sequenceNumber |-> seq,
                      lastCheckPointSeqNumber |-> last]
          /\ \A t \in Server \ {s} : disk'[t] = disk[t]
      BY <1>3 DEF persist, SavePBFTState, TypeOK, EnvType
    <2>2. sequenceNumber'[s] = seq /\ lastCheckPointSeqNumber'[s] = last
      BY <1>3 DEF TypeOK, LogType, CkptType
    <2>3. Durable(s)'
      BY <1>3, <2>1, <2>2 DEF Durable
    <2> QED BY <1>2, <1>3, <2>1, <2>3
  <1>4. ASSUME NEW s \in Server, NEW c \in Command, StartBody(s, c)
        PROVE  DurableCounters'
    <2>1. UNCHANGED <<disk, view, lastCheckPointSeqNumber, serverLock>>
      BY <1>4 DEF StartBody, ckptVars
    <2>2. CASE sequenceNumber' = sequenceNumber
      BY <1>1, <2>1, <2>2
    <2>3. CASE sequenceNumber' # sequenceNumber
      <3>1. leader(view[s]) = s
            /\ sequenceNumber' = [sequenceNumber EXCEPT ![s] = @ + 1]
        BY <1>4, <2>3
        DEF StartBody, StartForward, StartDrop, StartPrePrepare, AdvanceSequenceNumber
      <3>2. sequenceNumber'[s] = sequenceNumber[s] + 1
            /\ \A t \in Server \ {s} : sequenceNumber'[t] = sequenceNumber[t]
        BY <3>1 DEF TypeOK, LogType
      <3>3. Durable(s)'
        BY <1>0, <2>1, <3>1, <3>2 DEF Durable
      <3> QED BY <1>2, <2>1, <3>2, <3>3
    <2> QED BY <2>2, <2>3
  <1>5. ASSUME NEW s \in Server, NEW m \in msgs, HandlePrePrepareRPC(s, m)
        PROVE  DurableCounters'
    <2>1. UNCHANGED <<view, lastCheckPointSeqNumber, serverLock>>
      BY <1>5 DEF HandlePrePrepareRPC, ckptVars, envVars
    <2>2. \/ UNCHANGED <<disk, sequenceNumber>>
          \/ /\ AdvanceSequenceNumber(s)
             /\ persist(s, sequenceNumber[s] + 1, lastCheckPointSeqNumber[s])
      BY <1>5 DEF HandlePrePrepareRPC
    <2>3. CASE UNCHANGED <<disk, sequenceNumber>>
      BY <1>1, <2>1, <2>3
    <2>4. CASE /\ AdvanceSequenceNumber(s)
               /\ persist(s, sequenceNumber[s] + 1, lastCheckPointSeqNumber[s])
      <3>1. sequenceNumber' = [sequenceNumber EXCEPT ![s] = sequenceNumber[s] + 1]
        BY <2>4 DEF AdvanceSequenceNumber
      <3>2. lastCheckPointSeqNumber' =
              [lastCheckPointSeqNumber EXCEPT ![s] = lastCheckPointSeqNumber[s]]
        BY <2>1 DEF TypeOK, CkptType
      <3>3. sequenceNumber[s] + 1 \in Nat
        BY <1>0
      <3> QED BY <1>3, <2>1, <2>4, <3>1, <3>2, <3>3, Zenon
    <2> QED BY <2>2, <2>3, <2>4
  <1>6. ASSUME NEW s \in Server, NEW m \in msgs, HandlePrepareRPC(s, m)
        PROVE  DurableCounters'
    <2>1. UNCHANGED <<view, sequenceNumber, lastCheckPointSeqNumber, serverLock>>
      BY <1>6 DEF HandlePrepareRPC, ckptVars, envVars
    <2>2. CASE UNCHANGED disk
      BY <1>1, <2>1, <2>2
    <2>3. CASE persist(s, sequenceNumber[s], lastCheckPointSeqNumber[s])
      <3>1. /\ sequenceNumber' = [sequenceNumber EXCEPT ![s] = sequenceNumber[s]]
            /\ lastCheckPointSeqNumber' =
                 [lastCheckPointSeqNumber EXCEPT ![s] = lastCheckPointSeqNumber[s]]
        BY <2>1 DEF TypeOK, LogType, CkptType
      <3> QED BY <1>0, <1>3, <2>1, <2>3, <3>1, Zenon
    <2> QED BY <1>6, <2>2, <2>3 DEF HandlePrepareRPC
  \* A commit that is taken is not saved yet, and the lock is held until it is.
  <1>12. ASSUME NEW s \in Server, NEW m \in msgs, HandleCommitRPC(s, m)
         PROVE  DurableCounters'
    <2>1. UNCHANGED <<disk, view, sequenceNumber>>
      BY <1>12 DEF HandleCommitRPC
    <2>2. CASE UNCHANGED <<lastCheckPointSeqNumber, serverLock>>
      BY <1>1, <2>1, <2>2
    <2>3. CASE ~UNCHANGED <<lastCheckPointSeqNumber, serverLock>>
      <3>1. PICK last : lastCheckPointSeqNumber' = [lastCheckPointSeqNumber EXCEPT ![s] = last]
        BY <1>12, <2>3 DEF HandleCommitRPC
      <3>2. serverLock' = [serverLock EXCEPT ![s] = TRUE]
        BY <1>12, <2>3 DEF HandleCommitRPC
      <3>3. /\ serverLock'[s]
            /\ \A u \in Server \ {s} :
                 /\ lastCheckPointSeqNumber'[u] = lastCheckPointSeqNumber[u]
                 /\ serverLock'[u] = serverLock[u]
        BY <3>1, <3>2 DEF TypeOK, CkptType, EnvType
      <3>4. Durable(s)'
        BY <1>0, <2>1, <3>3 DEF Durable
      <3> QED BY <1>2, <2>1, <3>3, <3>4
    <2> QED BY <2>2, <2>3
  <1>13. ASSUME NEW s \in Server, HandleCommitRPC_Save(s)
         PROVE  DurableCounters'
    <2>1. UNCHANGED <<view, sequenceNumber, lastCheckPointSeqNumber>>
      BY <1>13 DEF HandleCommitRPC_Save, logVars, ckptVars
    <2>2. /\ sequenceNumber' = [sequenceNumber EXCEPT ![s] = sequenceNumber[s]]
          /\ lastCheckPointSeqNumber' =
               [lastCheckPointSeqNumber EXCEPT ![s] = lastCheckPointSeqNumber[s]]
      BY <2>1 DEF TypeOK, LogType, CkptType
    <2>3. /\ persist(s, sequenceNumber[s], lastCheckPointSeqNumber[s])
          /\ \A u \in Server \ {s} : serverLock'[u] = serverLock[u]
      BY <1>13 DEF HandleCommitRPC_Save, TypeOK, EnvType
    <2> QED BY <1>0, <1>3, <2>1, <2>2, <2>3, Zenon
  <1>7. ASSUME NEW s \in Server, Make(s)
        PROVE  DurableCounters'
    <2>1. CASE Exit(s)
      <3>2. UNCHANGED <<disk, sequenceNumber, view, lastCheckPointSeqNumber>>
        BY <2>1 DEF Exit, logVars
      <3>3. running'[s] = FALSE
        BY <2>1 DEF Exit, TypeOK, EnvType
      <3>4. serverLock' = serverLock
        BY <1>7, <3>3 DEF Make, TypeOK, EnvType
      <3> QED BY <1>1, <3>2, <3>4
    <2>2. CASE ~Exit(s)
      <3>1. /\ sequenceNumber' = [sequenceNumber EXCEPT ![s] = disk[s].sequenceNumber]
            /\ lastCheckPointSeqNumber' = [lastCheckPointSeqNumber EXCEPT
                 ![s] = disk[s].lastCheckPointSeqNumber]
            /\ view' = [view EXCEPT ![s] = 0]
            /\ serverLock' = [serverLock EXCEPT ![s] = FALSE]
            /\ disk' = disk
        BY <1>7, <2>2 DEF Make, readPersist
      <3>2. /\ sequenceNumber'[s] = disk[s].sequenceNumber
            /\ lastCheckPointSeqNumber'[s] = disk[s].lastCheckPointSeqNumber
            /\ \A t \in Server \ {s} :
                 /\ sequenceNumber'[t] = sequenceNumber[t]
                 /\ view'[t] = view[t]
                 /\ lastCheckPointSeqNumber'[t] = lastCheckPointSeqNumber[t]
                 /\ serverLock'[t] = serverLock[t]
        BY <3>1 DEF TypeOK, EnvType, LogType, CkptType
      <3>3. Durable(s)'
        BY <1>0, <3>1, <3>2 DEF Durable
      <3> QED BY <1>2, <3>1, <3>2, <3>3
    <2> QED BY <2>1, <2>2
  <1>8. CASE UNCHANGED vars
    BY <1>1, <1>8 DEF vars, envVars, logVars, ckptVars
  <1>9. ASSUME NEW s \in Server,
               \/ Goroutine(s) \/ Crash(s)
               \/ \E m \in msgs :
                    \/ EnterHandler(s, m)
                    \/ HandleCommitRPC_Fatal(s, m)
                    \/ HandleCheckPointRPC_Check(s, m)
               \/ \E a \in checking[s] : HandleCheckPointRPC_Record(s, a)
        PROVE  DurableCounters'
    <2>1. UNCHANGED <<disk, sequenceNumber, view, lastCheckPointSeqNumber, serverLock>>
      BY <1>9 DEF Goroutine, sendRPCs, replyToClient, Crash, Exit, EnterHandler,
                  HandleCommitRPC_Fatal, HandleCheckPointRPC_Check,
                  HandleCheckPointRPC_Record, envVars, logVars, ckptVars
    <2> QED BY <1>1, <2>1
  <1>10. ASSUME NEW s \in Server, NEW m \in msgs, ReceiveForwardedCommand(s, m)
         PROVE  DurableCounters'
    <2>1. m.args.arg \in Command
      BY <1>10, MessageFields DEF ReceiveForwardedCommand, TypeOK
    <2> QED BY <1>4, <1>10, <2>1 DEF ReceiveForwardedCommand
  <1>11. ASSUME NEW s \in Server, NEW c \in Command, Start(s, c)
         PROVE  DurableCounters'
    BY <1>4, <1>11 DEF Start
  <1> QED BY <1>5, <1>6, <1>7, <1>8, <1>9, <1>10, <1>11, <1>12, <1>13
          DEF Next, Handler, GatedHandler

\* What a server needs back after a crash is on its disk: its sequence number, unless it
\* leads, and, unless the crash comes between the reply and the save of HandleCommitRPC,
\* the number of its last checkpoint, for any number of crashes and restarts.
THEOREM CountersCorrect == Spec => []DurableCounters
  <1>1. Init => DurableCounters
    BY DEF Init, DurableCounters
  <1> QED BY <1>1, CountersStep, TypeCorrect, PTL DEF Spec

-----------------------------------------------------------------------------
(* What is in a log stays there.                                            *)

Stays(s, n) ==
  /\ serverLog'[s][n] # NoEntry
  /\ serverLog'[s][n].message = serverLog[s][n].message
  /\ serverLog[s][n].prepareArgs \subseteq serverLog'[s][n].prepareArgs

\* Adding an entry changes no other slot, and no slot that has one of this view.
LEMMA AddedElsewhere ==
  ASSUME TypeOK, NEW s \in Server, NEW n \in Slot, NEW e, NEW t \in Server,
         NEW k \in Slot, serverLog' = [serverLog EXCEPT ![s][n] = e],
         addLogEntry(s, view[s], n), Logged(t, k), serverLog[t][k].view = view[t]
  PROVE  Stays(t, k)
  <1>1. ~(t = s /\ k = n)
    BY DEF addLogEntry, Logged
  <1>2. serverLog'[t][k] = serverLog[t][k]
    BY <1>1 DEF TypeOK, LogType
  <1> QED BY <1>2 DEF Stays, Logged

LEMMA StaysStep ==
  ASSUME TypeOK, Next, NEW t \in Server, NEW k \in Slot,
         makes' = makes \/ t \notin remade',
         Logged(t, k), serverLog[t][k].view = view[t]
  PROVE  Stays(t, k)
  <1>1. CASE UNCHANGED serverLog
    BY <1>1 DEF Stays, Logged
  <1>2. ASSUME NEW s \in Server, NEW c \in Command, StartBody(s, c)
        PROVE  Stays(t, k)
    <2>1. CASE UNCHANGED serverLog
      BY <1>1, <2>1
    <2>2. CASE ~UNCHANGED serverLog
      <3>1. /\ sequenceNumber[s] \in Slot
            /\ addLogEntry(s, view[s], sequenceNumber[s])
            /\ serverLog' = [serverLog EXCEPT ![s][sequenceNumber[s]] =
                               logEntry(view[s], c, Digest[c])]
        BY <1>2, <2>2 DEF StartBody, StartForward, StartDrop, StartPrePrepare
      <3> QED BY <3>1, AddedElsewhere
    <2> QED BY <2>1, <2>2
  <1>3. ASSUME NEW s \in Server, NEW m \in msgs, HandlePrePrepareRPC(s, m)
        PROVE  Stays(t, k)
    <2> DEFINE a == m.args.arg
               e == [logEntry(a.View, a.Message, a.Digest) EXCEPT !.prepareArgs =
                       {Vote(a.View, a.SequenceNumber, a.Digest, s, 0)}]
    <2>1. CASE ValidPrePrepare(s, m.args) /\ addLogEntry(s, a.View, a.SequenceNumber)
      <3>1. a.View = view[s] /\ a.SequenceNumber \in Slot
        BY <1>3, <2>1, MessageFields
        DEF ValidPrePrepare, HandlePrePrepareRPC, Handles, TypeOK, PrePrepareArg
      <3>2. serverLog' = [serverLog EXCEPT ![s][a.SequenceNumber] = e]
        BY <1>3, <2>1 DEF HandlePrePrepareRPC
      <3> HIDE DEF a, e
      <3>3. addLogEntry(s, view[s], a.SequenceNumber)
        BY <2>1, <3>1
      <3> QED BY <3>1, <3>2, <3>3, AddedElsewhere
    <2>2. CASE ~(ValidPrePrepare(s, m.args) /\ addLogEntry(s, a.View, a.SequenceNumber))
      BY <1>1, <1>3, <2>2 DEF HandlePrePrepareRPC
    <2> QED BY <2>1, <2>2
  <1>4. ASSUME NEW s \in Server, NEW m \in msgs, HandlePrepareRPC(s, m)
        PROVE  Stays(t, k)
    <2> DEFINE a == m.args.arg
               n == a.SequenceNumber
               entry == serverLog[s][n]
               prepares == RecordPrepare(entry, a)
               e == [entry EXCEPT !.prepareArgs = prepares,
                                  !.commitArgs = IF EntersCommitPhase(prepares)
                                                 THEN @ \cup {s} ELSE @]
    <2>1. CASE ~ValidPrepare(s, m.args)
      BY <1>1, <1>4, <2>1 DEF HandlePrepareRPC
    <2>2. CASE ValidPrepare(s, m.args) /\ ~(t = s /\ k = n)
      <3>1. serverLog' = [serverLog EXCEPT ![s][n] = e]
        BY <1>4, <2>2 DEF HandlePrepareRPC
      <3> HIDE DEF e
      <3>2. serverLog'[t][k] = serverLog[t][k]
        BY <2>2, <3>1 DEF TypeOK, LogType
      <3> QED BY <3>2 DEF Stays, Logged
    <2>3. CASE ValidPrepare(s, m.args) /\ t = s /\ k = n
      <3>1. serverLog' = [serverLog EXCEPT ![s][n] = e]
        BY <1>4, <2>3 DEF HandlePrepareRPC
      <3>2. a \in VoteArg
        BY <1>4, MessageFields DEF HandlePrepareRPC, Handles, TypeOK
      <3>3. entry \in Entry
        BY <2>3 DEF TypeOK, LogType, Logged
      <3>4. prepares = entry.prepareArgs \cup {a} /\ prepares \subseteq VoteArg
        BY <3>2, <3>3 DEF RecordPrepare, Entry
      <3>5. entry.commitArgs \cup {s} \subseteq Server
        BY <3>3 DEF Entry
      <3>6. e \in Entry /\ e.message = entry.message /\ e.prepareArgs = prepares
        <4> HIDE DEF entry, prepares
        <4> QED BY <3>3, <3>4, <3>5 DEF Entry
      <3>7. serverLog'[t][k] = e
        <4> HIDE DEF e
        <4> QED BY <2>3, <3>1 DEF TypeOK, LogType
      <3>8. entry = serverLog[t][k]
        BY <2>3
      <3> HIDE DEF e, prepares, entry
      <3> QED BY <3>4, <3>6, <3>7, <3>8, AbsentAssumption DEF Stays
    <2> QED BY <2>1, <2>2, <2>3
  <1>5. ASSUME NEW s \in Server,
               \/ Goroutine(s) \/ Crash(s) \/ HandleCommitRPC_Save(s)
               \/ \E m \in msgs :
                    \/ EnterHandler(s, m)
                    \/ HandleCommitRPC(s, m) \/ HandleCommitRPC_Fatal(s, m)
                    \/ HandleCheckPointRPC_Check(s, m)
               \/ \E a \in checking[s] : HandleCheckPointRPC_Record(s, a)
        PROVE  Stays(t, k)
    <2>1. UNCHANGED serverLog
      BY <1>5 DEF Goroutine, sendRPCs, replyToClient, Crash, Exit, EnterHandler,
                  HandleCommitRPC, HandleCommitRPC_Fatal, HandleCommitRPC_Save,
                  HandleCheckPointRPC_Check, HandleCheckPointRPC_Record, logVars
    <2> QED BY <1>1, <2>1
  <1>6. ASSUME NEW s \in Server, NEW m \in msgs, ReceiveForwardedCommand(s, m)
        PROVE  Stays(t, k)
    <2>1. m.args.arg \in Command
      BY <1>6, MessageFields DEF ReceiveForwardedCommand, TypeOK
    <2> QED BY <1>2, <1>6, <2>1 DEF ReceiveForwardedCommand
  <1>7. ASSUME NEW s \in Server, NEW c \in Command, Start(s, c)
        PROVE  Stays(t, k)
    BY <1>2, <1>7 DEF Start
  <1>8. ASSUME NEW s \in Server, Make(s)
        PROVE  Stays(t, k)
    <2>1. CASE Exit(s)
      BY <1>1, <2>1 DEF Exit, logVars
    <2>2. CASE ~Exit(s)
      <3>1. makes' # makes /\ s # t
        BY <1>8 DEF Make, TypeOK, EnvType
      <3>2. serverLog' = [serverLog EXCEPT ![s] = [n \in Slot |-> NoEntry]]
        BY <1>8, <2>2 DEF Make, readPersist
      <3>3. serverLog'[t][k] = serverLog[t][k]
        BY <3>1, <3>2 DEF TypeOK, LogType
      <3> QED BY <3>3 DEF Stays, Logged
    <2> QED BY <2>1, <2>2
  <1> QED BY <1>3, <1>4, <1>5, <1>6, <1>7, <1>8 DEF Next, Handler, GatedHandler

\* No step but Make on this very server replaces what it has logged for the view it is
\* in, or forgets a prepare it has counted, for any number of crashes and restarts.
THEOREM SlotsStable == Spec => SlotStable
  <1>1. TypeOK /\ [Next]_vars =>
          [\A s \in Server, n \in Slot :
             /\ Logged(s, n) /\ serverLog[s][n].view = view[s]
             /\ makes' = makes \/ s \notin remade'
             =>
               /\ serverLog'[s][n] # NoEntry
               /\ serverLog'[s][n].message = serverLog[s][n].message
               /\ serverLog[s][n].prepareArgs \subseteq serverLog'[s][n].prepareArgs]_vars
    BY StaysStep DEF Stays
  <1> QED BY <1>1, TypeCorrect, PTL DEF Spec, SlotStable
=============================================================================
