------------------------------- MODULE PBFT -------------------------------
(***************************************************************************)
(* The PBFT servers of pbft.go, rpcHandler.go and privateHelper.go in the  *)
(* normal case: a command is started at the leader, pre-prepared, prepared *)
(* and committed; checkpoints are taken and confirmed; state is persisted, *)
(* a process may stop, and Make may run again.  One action is one handler  *)
(* run under serverLock, or one of the goroutines a handler starts; where  *)
(* others can see the middle of a run, it is cut there.                    *)
(*                                                                         *)
(* runningState, which moves pbft.state, has no caller, so nothing ever    *)
(* receives from the server's channels, and isChangingView is false here.  *)
(* Module ViewChange adds the state and what reads and changes it, and     *)
(* module RunningState the loop.                                           *)
(***************************************************************************)
EXTENDS Integers, FiniteSets

CONSTANTS
  N,                  \* len(pbft.peers); constants.go fixes numServers = 4
  Client,             \* client ids
  Command,            \* the commands clients issue: [ClientID, Timestamp]
  Contacted,          \* the servers clients call (client.go calls server 0)
  Slot,               \* sequence numbers considered (the bound on Start)
  NoEntry,            \* serverLog has no entry at a sequence number
  NoCheckPoint,       \* checkPoints has no entry at a sequence number
  Digest,             \* Hash of a Command (module Hash: constantly 0)
  StateDigest,        \* Hash of storedState, which makeCheckpoint sends
  InfoDigest,         \* Hash of the CheckPointInfo it is compared with
  ChanCap,            \* capacity of the channels Make creates (10)
  CheckPointInterval, \* CHECK_POINT_INTERVAL (100)
  SigCarried,         \* does makeArguments put the signature it computes into
                      \* the message (TRUE), or the literal 0, 0 (FALSE)
  CommitType,         \* dynamic type of a COMMIT message ("CommitArg")
  MaxCrash,           \* bound: processes that stop for a reason of their own
  MaxMake             \* bound: times Make runs after the start

Server == 0 .. (N - 1)

ASSUME ServersAssumption == N \in Nat \ {0}
ASSUME CommandAssumption ==
  /\ Command \subseteq [ClientID : Client, Timestamp : Nat \ {0}]
  /\ Slot \subseteq Nat /\ Contacted \subseteq Server
ASSUME DigestAssumption ==
  Digest \in [Command -> Nat] /\ StateDigest \in Nat /\ InfoDigest \in Nat
ASSUME BoundAssumption ==
  /\ ChanCap \in Nat /\ CheckPointInterval \in Nat \ {0}
  /\ MaxCrash \in Nat /\ MaxMake \in Nat
ASSUME ReadingAssumption ==
  SigCarried \in BOOLEAN /\ CommitType \in {"CommitArg", "PrepareCommandArg"}

-----------------------------------------------------------------------------
(* The types of datatypes.go: what RPCs carry, and what a server keeps.  Peers *)
(* are reached by their index; the timestamps other than a command's are left  *)
(* out.                                                                        *)

\* Requests and replies with the same content may be under way together.  What
\* started each tells them apart: the Make its server came from, and which prepare or
\* commit it was at (history, not sent).
Copy == Nat \X Nat

\* The pair 0, 0 makeArguments returns is nobody's signature.
NoSig == -1

PrePrepareArg ==
  [View : Nat, SequenceNumber : Slot, Digest : Nat, Message : Command]
VoteArg ==
  [View : Nat, SequenceNumber : Slot, Digest : Nat, SenderIndex : Server, copy : Copy]
CheckPointArg ==
  [SequenceNumber : Slot, Digest : Nat, SenderIndex : Server, copy : Copy]
ReplyArg ==
  [ServerID : Server, CurrentView : Nat, SequenceNumber : Slot, Message : Command,
   asked : Command, copy : Copy]

Signed(type, A) == [type : {type}, arg : A, sig : Server \cup {NoSig}]

Request ==
  [phase : {"FORWARD_COMMAND"}, args : Signed("Command", Command)] \cup
  [phase : {"PRE_PREPARE"}, args : Signed("PrePrepareCommandArg", PrePrepareArg)] \cup
  [phase : {"PREPARE"}, args : Signed("PrepareCommandArg", VoteArg)] \cup
  [phase : {"COMMIT"}, args : Signed(CommitType, VoteArg)] \cup
  [phase : {"CHECK_POINT"}, args : Signed("CheckPointArgs", CheckPointArg)]

Job == Request \cup [phase : {"REPLY_TO_CLIENT"}, args : ReplyArg]

Entry ==
  [message : Command, commandDigest : Nat, view : Nat,
   prepareArgs : SUBSET VoteArg, commitArgs : SUBSET Server]

CheckPointInfo == [ConfirmedServers : SUBSET Server, IsStable : BOOLEAN]

Saved == [saved : BOOLEAN, sequenceNumber : Nat, lastCheckPointSeqNumber : Nat]

ASSUME AbsentAssumption ==
  NoEntry \notin Entry \cup Command /\ NoCheckPoint \notin CheckPointInfo

-----------------------------------------------------------------------------
VARIABLES
  \* the Go process and what surrounds it
  running,       \* is the server's process alive
  failed,        \* history: servers whose process stopped by itself
  makes,         \* how often Make has run again
  remade,        \* history: servers on which it has
  submitted,     \* commands the clients have issued
  serverLock,    \* does HandleCommitRPC hold it between its `go` and persist()
  disk,          \* what persist() leaves in my.db that can be read back
  \* messages and goroutines
  msgs,          \* RPC requests in flight
  waiting,       \* those of them whose handler waits for serverLock
  outbox,        \* goroutines started with `go` that have not sent yet
  replies,       \* replies the client has received
  \* fields of PBFT, per server
  view, sequenceNumber, serverLog, clientRegisters,
  lastCheckPointSeqNumber, checkPoints,
  checking,      \* HandleCheckPointRPC goroutines past the unlocked checks
  commandRecieved, newValidCommad, commandExecuted   \* channel fill levels

envVars  == <<failed, makes, remade, submitted, serverLock>>
netVars  == <<msgs, waiting, outbox, replies>>
logVars  == <<view, sequenceNumber, serverLog, clientRegisters>>
ckptVars == <<lastCheckPointSeqNumber, checkPoints, checking>>
chanVars == <<commandRecieved, newValidCommad, commandExecuted>>
vars == <<running, disk, envVars, netVars, logVars, ckptVars, chanVars>>

-----------------------------------------------------------------------------
(* Quorums, leaders and signatures.                                         *)

leader(v) == v % N
numFailableServers == (N - 1) \div 3
calculateMajority == 2 * numFailableServers + 1

\* The hash under every signature is the same number (module Hash), so what a
\* signature tells is whose key made it.
makeArguments(s, type, arg) ==
  [type |-> type, arg |-> arg, sig |-> IF SigCarried THEN s ELSE NoSig]
verifySignatures(args, peer) == args.sig = peer

\* A server's goroutines of before Make ran on it go on beside those of after.
Nth(s, k) == <<IF s \in remade THEN makes ELSE 0, k>>

\* PrepareCommandArg and CommitArg have the same fields.
\* Mutant: servers are numbered from 1.
Vote_fromOne(v, n, d, s, k) ==
  [View |-> v, SequenceNumber |-> n, Digest |-> d, SenderIndex |-> s + 1,
   copy |-> Nth(s, k)]
Vote(v, n, d, s, k) ==
  [View |-> v, SequenceNumber |-> n, Digest |-> d, SenderIndex |-> s,
   copy |-> Nth(s, k)]

\* A reply, with the slot and command it answers (not sent) as history, and the
\* command whose start or pre-prepare asked for it.
Reply(s, n, c, asked) ==
  [ServerID |-> s, CurrentView |-> view[s], SequenceNumber |-> n, Message |-> c,
   asked |-> asked, copy |-> Nth(s, commandExecuted[s])]

-----------------------------------------------------------------------------
(* The log.                                                                 *)

\* preprepare is never assigned, and clientReplySent is only ever set on a
\* copy of the entry, so neither is a field here.
logEntry(v, c, d) ==
  [message |-> c, commandDigest |-> d, view |-> v,
   prepareArgs |-> {}, commitArgs |-> {}]

Processed(s, n) ==
  /\ serverLog[s][n] # NoEntry
  /\ Cardinality(serverLog[s][n].commitArgs) >= calculateMajority

\* addLogEntry returns true, and adds the entry and counts it.
addLogEntry(s, v, n) ==
  /\ view[s] = v
  /\ serverLog[s][n] # NoEntry =>
       ~Processed(s, n) /\ serverLog[s][n].view # v

\* Mutant: the entry is added and not counted.
AdvanceSequenceNumber_missing(s) == UNCHANGED sequenceNumber
AdvanceSequenceNumber(s) ==
  sequenceNumber' = [sequenceNumber EXCEPT ![s] = @ + 1]

\* The reply addLogEntry starts for an entry that is processed already.
RepeatedReply(s, v, n, asked) ==
  IF view[s] = v /\ Processed(s, n)
  THEN {[phase |-> "REPLY_TO_CLIENT",
         args |-> Reply(s, n, serverLog[s][n].message, asked)]}
  ELSE {}

SavePBFTState(s, data) == disk' = [disk EXCEPT ![s] = data]

\* The state a persist() call saves.  gob refuses logEntry, which has no
\* exported field; so the integers before it are all that is read back.
\* Mutant: the state is saved before addLogEntry counts the entry.
persist_early(s, seq, last) ==
  SavePBFTState(s, [saved |-> TRUE, sequenceNumber |-> sequenceNumber[s],
                    lastCheckPointSeqNumber |-> last])
persist(s, seq, last) ==
  SavePBFTState(s, [saved |-> TRUE, sequenceNumber |-> seq,
                    lastCheckPointSeqNumber |-> last])

\* What a new process reads back: zero where nothing is saved, and never the log
\* or the checkpoints.
readPersist(s) ==
  /\ sequenceNumber' = [sequenceNumber EXCEPT ![s] = disk[s].sequenceNumber]
  /\ lastCheckPointSeqNumber' = [lastCheckPointSeqNumber EXCEPT
       ![s] = disk[s].lastCheckPointSeqNumber]
  /\ serverLog' = [serverLog EXCEPT ![s] = [n \in Slot |-> NoEntry]]
  /\ checkPoints' = [checkPoints EXCEPT ![s] = [n \in Slot |-> NoCheckPoint]]

\* ReadPBFTState returns bytes of a mapping that is closed when it returns, so
\* reading what was saved may fault.
ReadMayFault(s) == disk[s].saved

\* The process ends: log.Fatal, a panic, or a crash.  Its goroutines and the
\* requests on their way to it are gone; its memory no longer matters.
Exit(s) ==
  /\ running' = [running EXCEPT ![s] = FALSE]
  /\ outbox' = [outbox EXCEPT ![s] = {}]
  /\ checking' = [checking EXCEPT ![s] = {}]
  /\ msgs' = {m \in msgs : m.to # s}
  /\ waiting' = {m \in waiting : m.to # s}
  /\ UNCHANGED <<disk, replies, logVars, chanVars,
                 lastCheckPointSeqNumber, checkPoints>>

-----------------------------------------------------------------------------
Init ==
  /\ running = [s \in Server |-> TRUE]
  /\ failed = {} /\ makes = 0 /\ remade = {} /\ submitted = {}
  /\ serverLock = [s \in Server |-> FALSE]
  /\ disk = [s \in Server |-> [saved |-> FALSE, sequenceNumber |-> 0,
                               lastCheckPointSeqNumber |-> 0]]
  /\ msgs = {} /\ waiting = {} /\ replies = {}
  /\ outbox = [s \in Server |-> {}]
  /\ view = [s \in Server |-> 0]
  /\ sequenceNumber = [s \in Server |-> 0]
  /\ serverLog = [s \in Server |-> [n \in Slot |-> NoEntry]]
  /\ clientRegisters = [s \in Server |-> [c \in Client |-> 0]]
  /\ lastCheckPointSeqNumber = [s \in Server |-> 0]
  /\ checkPoints = [s \in Server |-> [n \in Slot |-> NoCheckPoint]]
  /\ checking = [s \in Server |-> {}]
  /\ commandRecieved = [s \in Server |-> 0]
  /\ newValidCommad = [s \in Server |-> 0]
  /\ commandExecuted = [s \in Server |-> 0]

-----------------------------------------------------------------------------
(* Starting a command.                                                      *)

\* The body of Start, for a client's call and for a forwarded one alike.
StartForward(s, c) ==
  /\ leader(view[s]) # s
  /\ outbox' = [outbox EXCEPT ![s] = @ \cup
       {[phase |-> "FORWARD_COMMAND", args |-> makeArguments(s, "Command", c)]}]
  /\ UNCHANGED <<sequenceNumber, serverLog>>

StartDrop(s, c) ==
  /\ leader(view[s]) = s
  /\ c.Timestamp < clientRegisters[s][c.ClientID]
  /\ UNCHANGED <<outbox, sequenceNumber, serverLog>>

StartPrePrepare(s, c) ==
  LET v == view[s]
      n == sequenceNumber[s]
      arg == [View |-> v, SequenceNumber |-> n, Digest |-> Digest[c],
              Message |-> c]
  IN /\ leader(v) = s
     /\ c.Timestamp >= clientRegisters[s][c.ClientID]
     /\ n \in Slot
     /\ outbox' = [outbox EXCEPT ![s] = @ \cup
          {[phase |-> "PRE_PREPARE",
            args |-> makeArguments(s, "PrePrepareCommandArg", arg)]}
          \cup RepeatedReply(s, v, n, c)]
     /\ IF addLogEntry(s, v, n)
        THEN /\ serverLog' = [serverLog EXCEPT ![s][n] = logEntry(v, c, Digest[c])]
             /\ AdvanceSequenceNumber(s)
        ELSE UNCHANGED <<serverLog, sequenceNumber>>

StartBody(s, c) ==
  /\ ~serverLock[s]
  /\ StartForward(s, c) \/ StartDrop(s, c) \/ StartPrePrepare(s, c)
  /\ UNCHANGED <<running, disk, replies, view, clientRegisters, ckptVars,
                 chanVars, failed, makes, remade, serverLock>>

\* A client issues each command once: callCommand stamps every call anew.
Start(s, c) ==
  /\ running[s]
  /\ c \notin submitted
  /\ submitted' = submitted \cup {c}
  /\ StartBody(s, c)
  /\ UNCHANGED <<msgs, waiting>>

ReceiveForwardedCommand(s, m) ==
  /\ running[s] /\ m \in msgs /\ m.to = s /\ m.phase = "FORWARD_COMMAND"
  /\ msgs' = msgs \ {m}
  /\ StartBody(s, m.args.arg)
  /\ UNCHANGED <<submitted, waiting>>

-----------------------------------------------------------------------------
(* The goroutines that send.                                                *)

\* sendRPCs dials every peer, itself included, before it sends anything, and
\* ends the process when one of them cannot be dialled.
Dialled(s, job) ==
  IF job.phase = "FORWARD_COMMAND" THEN {leader(view[s])} ELSE Server

\* Mutants: the loop ends one server early; a command goes to the next leader.
Destinations_short(s, job) ==
  IF job.phase = "FORWARD_COMMAND" THEN {leader(view[s])} ELSE 0 .. (N - 2) \ {s}
Destinations_newLeader(s, job) ==
  IF job.phase = "FORWARD_COMMAND" THEN {leader(view[s] + 1)} ELSE Server \ {s}
Destinations(s, job) ==
  IF job.phase = "FORWARD_COMMAND" THEN {leader(view[s])} ELSE Server \ {s}

sendRPCs(s, job) ==
  /\ running[s] /\ job \in outbox[s] /\ job.phase # "REPLY_TO_CLIENT"
  /\ ~serverLock[s]
  /\ UNCHANGED envVars
  /\ \/ /\ \A d \in Dialled(s, job) : running[d]
        /\ outbox' = [outbox EXCEPT ![s] = @ \ {job}]
        /\ msgs' = msgs \cup {[to |-> d, phase |-> job.phase, args |-> job.args] :
                                d \in Destinations(s, job)}
        /\ UNCHANGED <<running, disk, waiting, replies, logVars, ckptVars, chanVars>>
     \/ /\ \E d \in Dialled(s, job) : ~running[d]
        /\ Exit(s)

\* replyToClient takes no lock, and ends the process when the client cannot be
\* dialled; the client may be gone at any time.
replyToClient(s, job) ==
  /\ running[s] /\ job \in outbox[s] /\ job.phase = "REPLY_TO_CLIENT"
  /\ UNCHANGED envVars
  /\ \/ /\ outbox' = [outbox EXCEPT ![s] = @ \ {job}]
        /\ replies' = replies \cup {job.args}
        /\ UNCHANGED <<running, disk, msgs, waiting, logVars, ckptVars, chanVars>>
     \/ Exit(s)

-----------------------------------------------------------------------------
(* The handlers of the three phases.  Each first pushes to commandRecieved,  *)
(* which nobody empties: once it is full the handler blocks there for ever.  *)
(* Then it waits for serverLock.                                             *)

\* The push.  Only Make looks at the channel before the handler has the lock, so a
\* handler is two steps while Make may still run, and otherwise one.
EnterHandler(s, m) ==
  /\ running[s] /\ m \in msgs \ waiting /\ m.to = s
  /\ m.phase \in {"PRE_PREPARE", "PREPARE", "COMMIT"}
  /\ makes < MaxMake
  /\ commandRecieved[s] < ChanCap
  /\ commandRecieved' = [commandRecieved EXCEPT ![s] = @ + 1]
  /\ waiting' = waiting \cup {m}
  /\ UNCHANGED <<running, disk, envVars, msgs, outbox, replies, logVars, ckptVars,
                 newValidCommad, commandExecuted>>

Handles(s, m, phase) ==
  /\ running[s] /\ m \in msgs /\ m.to = s /\ m.phase = phase
  /\ ~serverLock[s]
  /\ msgs' = msgs \ {m} /\ waiting' = waiting \ {m}

\* Mutant: nothing is pushed.
CountReceived_none(s, m) == UNCHANGED commandRecieved
CountReceived(s, m) ==
  IF m \in waiting
  THEN UNCHANGED commandRecieved
  ELSE /\ commandRecieved[s] < ChanCap
       /\ commandRecieved' = [commandRecieved EXCEPT ![s] = @ + 1]

\* The checks of HandlePrePrepareRPC before addLogEntry.
ValidPrePrepare(s, args) ==
  /\ Digest[args.arg.Message] = args.arg.Digest
  /\ args.arg.View = view[s]
  /\ verifySignatures(args, leader(view[s]))

\* The entry is added with the server's own prepare in it, the prepare goes
\* out, and the state is saved.
HandlePrePrepareRPC(s, m) ==
  LET v == m.args.arg.View
      n == m.args.arg.SequenceNumber
      vote == Vote(v, n, m.args.arg.Digest, s, 0)
      entry == logEntry(v, m.args.arg.Message, m.args.arg.Digest)
  IN /\ Handles(s, m, "PRE_PREPARE")
     /\ CountReceived(s, m)
     /\ IF ValidPrePrepare(s, m.args) /\ addLogEntry(s, v, n)
        THEN /\ serverLog' = [serverLog EXCEPT
                  ![s][n] = [entry EXCEPT !.prepareArgs = {vote}]]
             /\ AdvanceSequenceNumber(s)
             /\ newValidCommad' = [newValidCommad EXCEPT ![s] = @ + 1]
             /\ outbox' = [outbox EXCEPT ![s] = @ \cup
                  {[phase |-> "PREPARE",
                    args |-> makeArguments(s, "PrepareCommandArg", vote)]}]
             /\ persist(s, sequenceNumber[s] + 1, lastCheckPointSeqNumber[s])
        ELSE /\ outbox' = [outbox EXCEPT ![s] = @ \cup
                  IF ValidPrePrepare(s, m.args)
                  THEN RepeatedReply(s, v, n, m.args.arg.Message) ELSE {}]
             /\ UNCHANGED <<serverLog, sequenceNumber, newValidCommad, disk>>
     /\ UNCHANGED <<running, envVars, replies, view, clientRegisters, ckptVars,
                    commandExecuted>>

\* The checks of HandlePrepareRPC: the slot is pre-prepared, view and digest
\* match, and this sender has not been counted.
ValidPrepare(s, args) ==
  LET entry == serverLog[s][args.arg.SequenceNumber]
  IN /\ verifySignatures(args, args.arg.SenderIndex)
     /\ entry # NoEntry
     /\ args.arg.View = view[s]
     /\ args.arg.Digest = entry.commandDigest
     /\ \A p \in entry.prepareArgs : p.SenderIndex # args.arg.SenderIndex

\* Mutant: a new map replaces the one the entry has.
RecordPrepare_fresh(entry, p) == {p}
RecordPrepare(entry, p) == entry.prepareArgs \cup {p}

\* The test before the commit phase: return if more than a majority have
\* prepared, otherwise commit, anew for each prepare counted so far.
EntersCommitPhase(prepares) == Cardinality(prepares) <= calculateMajority

HandlePrepareRPC(s, m) ==
  LET n == m.args.arg.SequenceNumber
      entry == serverLog[s][n]
      prepares == RecordPrepare(entry, m.args.arg)
      vote == Vote(view[s], n, m.args.arg.Digest, s, m.args.arg.SenderIndex)
  IN /\ Handles(s, m, "PREPARE")
     /\ CountReceived(s, m)
     /\ IF ValidPrepare(s, m.args)
        THEN /\ serverLog' = [serverLog EXCEPT ![s][n] =
                  [entry EXCEPT !.prepareArgs = prepares,
                                !.commitArgs = IF EntersCommitPhase(prepares)
                                               THEN @ \cup {s} ELSE @]]
             /\ outbox' = [outbox EXCEPT ![s] = @ \cup
                  IF EntersCommitPhase(prepares)
                  THEN {[phase |-> "COMMIT",
                         args |-> makeArguments(s, CommitType, vote)]}
                  ELSE {}]
             /\ persist(s, sequenceNumber[s], lastCheckPointSeqNumber[s])
        ELSE UNCHANGED <<serverLog, outbox, disk>>
     /\ UNCHANGED <<running, envVars, replies, view, sequenceNumber,
                    clientRegisters, ckptVars, newValidCommad, commandExecuted>>

\* The checks of HandleCommitRPC, which records no commit of another server.
\* Mutant: the entry need not be prepared.
ValidCommit_unprepared(s, args) ==
  LET entry == serverLog[s][args.arg.SequenceNumber]
  IN /\ verifySignatures(args, args.arg.SenderIndex)
     /\ args.arg.View = view[s]
     /\ entry # NoEntry
     /\ args.arg.SenderIndex \notin entry.commitArgs
ValidCommit(s, args) ==
  LET entry == serverLog[s][args.arg.SequenceNumber]
  IN /\ verifySignatures(args, args.arg.SenderIndex)
     /\ args.arg.View = view[s]
     /\ entry # NoEntry
     /\ Cardinality(entry.prepareArgs) >= calculateMajority
     /\ args.arg.SenderIndex \notin entry.commitArgs

\* The handler asserts the type of a prepare and ends the process otherwise.
\* Mutant: it asserts what the sender made.
AssertsCommit_made(args) == args.type = CommitType
AssertsCommit(args) == args.type = "PrepareCommandArg"

HandleCommitRPC_Fatal(s, m) ==
  /\ running[s] /\ m \in msgs /\ m.to = s /\ m.phase = "COMMIT"
  /\ m \in waiting \/ commandRecieved[s] < ChanCap
  /\ ~AssertsCommit(m.args)
  /\ Exit(s)
  /\ UNCHANGED envVars

\* The checkpoint test is a quotient, so it holds for the first interval of
\* sequence numbers and for none after it.
TakesCheckPoint(n) == n \div CheckPointInterval = 0

makeCheckpoint(s, n) ==
  [phase |-> "CHECK_POINT",
   args |-> makeArguments(s, "CheckPointArgs",
     [SequenceNumber |-> n, Digest |-> StateDigest, SenderIndex |-> s,
      copy |-> Nth(s, commandExecuted[s])])]

\* Mutant: the timestamp is not compared.
LaterTimestamp_latest(registered, timestamp) == timestamp
LaterTimestamp(registered, timestamp) ==
  IF timestamp > registered THEN timestamp ELSE registered

\* The reply is sent on one valid commit; a checkpoint replaces any checkpoint
\* the server has for the slot.  The goroutine that replies needs no lock, so it may
\* be done before the handler saves the state and unlocks.
HandleCommitRPC(s, m) ==
  LET n == m.args.arg.SequenceNumber
      c == serverLog[s][n].message
      last == IF TakesCheckPoint(n) THEN n ELSE lastCheckPointSeqNumber[s]
  IN /\ Handles(s, m, "COMMIT")
     /\ AssertsCommit(m.args)
     /\ CountReceived(s, m)
     /\ IF ValidCommit(s, m.args)
        THEN /\ outbox' = [outbox EXCEPT ![s] = @ \cup
                  {[phase |-> "REPLY_TO_CLIENT", args |-> Reply(s, n, c, c)]} \cup
                  IF TakesCheckPoint(n) THEN {makeCheckpoint(s, n)} ELSE {}]
             /\ checkPoints' = [checkPoints EXCEPT ![s][n] =
                  IF TakesCheckPoint(n)
                  THEN [ConfirmedServers |-> {}, IsStable |-> FALSE] ELSE @]
             /\ lastCheckPointSeqNumber' =
                  [lastCheckPointSeqNumber EXCEPT ![s] = last]
             /\ clientRegisters' = [clientRegisters EXCEPT ![s][c.ClientID] =
                  LaterTimestamp(@, c.Timestamp)]
             /\ commandExecuted' = [commandExecuted EXCEPT ![s] = @ + 1]
             /\ serverLock' = [serverLock EXCEPT ![s] = TRUE]
        ELSE UNCHANGED <<outbox, checkPoints, lastCheckPointSeqNumber,
                         clientRegisters, commandExecuted, serverLock>>
     /\ UNCHANGED <<running, disk, failed, makes, remade, submitted, replies, view,
                    sequenceNumber, serverLog, checking, newValidCommad>>

\* Mutant: the handler returns without saving.
HandleCommitRPC_Save_none(s) ==
  /\ running[s] /\ serverLock[s]
  /\ serverLock' = [serverLock EXCEPT ![s] = FALSE]
  /\ UNCHANGED <<running, disk, failed, makes, remade, submitted, netVars, logVars,
                 ckptVars, chanVars>>
HandleCommitRPC_Save(s) ==
  /\ running[s] /\ serverLock[s]
  /\ persist(s, sequenceNumber[s], lastCheckPointSeqNumber[s])
  /\ serverLock' = [serverLock EXCEPT ![s] = FALSE]
  /\ UNCHANGED <<running, failed, makes, remade, submitted, netVars, logVars, ckptVars,
                 chanVars>>

-----------------------------------------------------------------------------
(* Checkpoints.  HandleCheckPointRPC looks the checkpoint up before it takes  *)
(* the lock and writes to it after, so it is two steps.                       *)

KnownCheckPoint(s, args) ==
  /\ verifySignatures(args, args.arg.SenderIndex)
  /\ checkPoints[s][args.arg.SequenceNumber] # NoCheckPoint
  /\ args.arg.Digest = InfoDigest

\* removeStallCheckpoints: what the server keeps once a checkpoint is stable.
\* Mutant: off by one.
Retained_above(s, n) == n > lastCheckPointSeqNumber[s]
Retained(s, n) == n >= lastCheckPointSeqNumber[s]

\* Mutant: f confirmations are enough.
StableQuorum_f(confirmed) == Cardinality(confirmed) >= numFailableServers
StableQuorum(confirmed) == Cardinality(confirmed) >= 2 * numFailableServers

BecomesStable(s, a) ==
  LET info == checkPoints[s][a.SequenceNumber]
  IN ~info.IsStable /\ StableQuorum(info.ConfirmedServers \cup {a.SenderIndex})

\* Another handler may be writing to checkPoints.  (Handlers also write to the maps
\* of confirmations, but the digest of a checkpoint never looks into one.)
WrittenMeanwhile(s) ==
  /\ ~serverLock[s]
  /\ \/ \E a \in checking[s] :
          checkPoints[s][a.SequenceNumber] # NoCheckPoint /\ BecomesStable(s, a)
     \/ \E m \in msgs :
          /\ m.to = s /\ m.phase = "COMMIT" /\ AssertsCommit(m.args)
          /\ m \in waiting \/ commandRecieved[s] < ChanCap
          /\ ValidCommit(s, m.args) /\ TakesCheckPoint(m.args.arg.SequenceNumber)

\* Up to the lock.  Every check that fails is a log.Fatal, and the Go runtime may
\* end the process when it sees a map read here and written elsewhere.
HandleCheckPointRPC_Check(s, m) ==
  /\ running[s] /\ m \in msgs /\ m.to = s /\ m.phase = "CHECK_POINT"
  /\ UNCHANGED envVars
  /\ \/ /\ KnownCheckPoint(s, m.args)
        /\ msgs' = msgs \ {m}
        /\ checking' = [checking EXCEPT ![s] = @ \cup {m.args.arg}]
        /\ UNCHANGED <<running, disk, waiting, outbox, replies, logVars, chanVars,
                       lastCheckPointSeqNumber, checkPoints>>
     \/ /\ ~KnownCheckPoint(s, m.args) \/ WrittenMeanwhile(s)
        /\ Exit(s)

\* Under the lock.  A checkpoint removed since the check has no map to write
\* to, and the write panics.
HandleCheckPointRPC_Record(s, a) ==
  LET n == a.SequenceNumber
      info == checkPoints[s][n]
      confirmed == info.ConfirmedServers \cup {a.SenderIndex}
      stable == BecomesStable(s, a)
      noted == [ConfirmedServers |-> confirmed,
                IsStable |-> info.IsStable \/ stable]
  IN /\ running[s] /\ a \in checking[s] /\ ~serverLock[s]
     /\ UNCHANGED envVars
     /\ IF info = NoCheckPoint
        THEN Exit(s)
        ELSE /\ checking' = [checking EXCEPT ![s] = @ \ {a}]
             /\ checkPoints' = [checkPoints EXCEPT ![s] =
                  [k \in Slot |->
                     IF stable /\ ~Retained(s, k) THEN NoCheckPoint
                     ELSE IF k = n THEN noted ELSE @[k]]]
             /\ UNCHANGED <<running, disk, netVars, logVars, chanVars,
                            lastCheckPointSeqNumber>>

-----------------------------------------------------------------------------
(* Failures and restarts.                                                   *)

\* A process stops for a reason outside this code.
Crash(s) ==
  /\ running[s]
  /\ Cardinality(failed) < MaxCrash
  /\ failed' = failed \cup {s}
  /\ Exit(s)
  /\ UNCHANGED <<makes, remade, submitted, serverLock>>

\* Make runs again: in a new process, or in the one that is running (whose
\* goroutines go on).  Everything is reset and the disk is read.
Make(s) ==
  /\ makes < MaxMake
  /\ running[s] => ~serverLock[s]
  /\ makes' = makes + 1 /\ remade' = remade \cup {s}
  /\ UNCHANGED <<failed, submitted>>
  /\ \/ ReadMayFault(s) /\ Exit(s) /\ UNCHANGED serverLock
     \/ /\ running' = [running EXCEPT ![s] = TRUE]
        /\ serverLock' = [serverLock EXCEPT ![s] = FALSE]
        /\ readPersist(s)
        /\ view' = [view EXCEPT ![s] = 0]
        /\ clientRegisters' = [clientRegisters EXCEPT ![s] = [c \in Client |-> 0]]
        /\ commandRecieved' = [commandRecieved EXCEPT ![s] = 0]
        /\ newValidCommad' = [newValidCommad EXCEPT ![s] = 0]
        /\ commandExecuted' = [commandExecuted EXCEPT ![s] = 0]
        /\ UNCHANGED <<disk, netVars, checking>>

-----------------------------------------------------------------------------
Goroutine(s) ==
  \E job \in outbox[s] : sendRPCs(s, job) \/ replyToClient(s, job)

\* The handlers that call isChangingView first.
GatedHandler(s, m) ==
  \/ EnterHandler(s, m)
  \/ HandlePrePrepareRPC(s, m)
  \/ HandlePrepareRPC(s, m)
  \/ HandleCommitRPC(s, m)
  \/ HandleCommitRPC_Fatal(s, m)
  \/ HandleCheckPointRPC_Check(s, m)

Handler(s) ==
  \/ \E m \in msgs : ReceiveForwardedCommand(s, m) \/ GatedHandler(s, m)
  \/ HandleCommitRPC_Save(s)
  \/ \E a \in checking[s] : HandleCheckPointRPC_Record(s, a)

Next ==
  \E s \in Server :
    \/ \E c \in Command : s \in Contacted /\ Start(s, c)
    \/ Goroutine(s)
    \/ Handler(s)
    \/ Crash(s)
    \/ Make(s)

Spec == Init /\ [][Next]_vars

\* The Go scheduler runs every runnable goroutine, and a request sent over TCP
\* to a live process arrives.
Fairness ==
  \A s \in Server :
    WF_vars(Goroutine(s)) /\ WF_vars(Handler(s))

FairSpec == Spec /\ Fairness
=============================================================================
