---------------------------- MODULE DeliveryProofs ----------------------------
(***************************************************************************)
(* The servers of module PBFT lose no command and no pre-prepare on its    *)
(* way, as long as nobody stops or starts again.                           *)
(***************************************************************************)
EXTENDS QuorumProofs

-----------------------------------------------------------------------------
(* What a step does to the goroutines and the requests there are.           *)

\* Who has stopped or started again stays so.
LEMMA InterruptedStays ==
  ASSUME TypeOK, [Next]_vars, NEW t \in Server, Interrupted(t)
  PROVE  Interrupted(t)'
  <1>1. remade \subseteq remade'
    BY RemadeGrows
  <1>2. ASSUME NEW s \in Server, Exit(s), ~running[t]
        PROVE  ~running'[t]
    BY <1>2 DEF Exit, TypeOK, EnvType
  <1>3. ASSUME NEW s \in Server, Make(s), ~Exit(s), ~running[t]
        PROVE  ~running'[t] \/ t \in remade'
    BY <1>3 DEF Make, TypeOK, EnvType
  <1>4. ASSUME NEW s \in Server, ~Exit(s),
               \/ (\E c \in Command : Start(s, c)) \/ Goroutine(s) \/ Handler(s)
               \/ Crash(s) \/ HandleCommitRPC_Save(s)
        PROVE  running' = running
    BY <1>4 DEF Start, StartBody, Goroutine, sendRPCs, replyToClient, Handler,
                GatedHandler, ReceiveForwardedCommand, EnterHandler,
                HandlePrePrepareRPC, HandlePrepareRPC, HandleCommitRPC,
                HandleCommitRPC_Fatal, HandleCheckPointRPC_Check,
                HandleCheckPointRPC_Record, Crash, HandleCommitRPC_Save
  <1>5. CASE UNCHANGED vars
    BY <1>5 DEF vars, envVars, Interrupted
  <1>6. ~running[t] => ~running'[t] \/ t \in remade'
    BY <1>2, <1>3, <1>4, <1>5 DEF Next, vars
  <1> QED BY <1>1, <1>6 DEF Interrupted

\* The process of s has ended.
LEMMA ExitStops ==
  ASSUME TypeOK, NEW s \in Server, Exit(s)
  PROVE  Interrupted(s)'
  BY DEF Exit, TypeOK, EnvType, Interrupted

\* Adding jobs takes none away.
LEMMA JobsKept ==
  ASSUME TypeOK, NEW s \in Server, NEW jobs,
         outbox' = [outbox EXCEPT ![s] = @ \cup jobs]
  PROVE  \A t \in Server : outbox[t] \subseteq outbox'[t]
  BY DEF TypeOK, NetType

\* The step that sends a job to its destinations.
Sends(t, job) ==
  msgs' = msgs \cup {[to |-> d, phase |-> job.phase, args |-> job.args] :
                       d \in Destinations(t, job)}

\* A job that is not a reply leaves the outbox when it is sent, or with its process.
LEMMA JobsGo ==
  ASSUME TypeOK, [Next]_vars, NEW t \in Server, NEW job \in outbox[t],
         job.phase # "REPLY_TO_CLIENT"
  PROVE  job \in outbox'[t] \/ Interrupted(t)' \/ Sends(t, job)
  <1>1. ASSUME NEW s \in Server, Exit(s)
        PROVE  job \in outbox'[t] \/ Interrupted(t)'
    <2>1. CASE t = s
      BY <1>1, <2>1, ExitStops
    <2>2. CASE t # s
      BY <1>1, <2>2 DEF Exit, TypeOK, NetType
    <2> QED BY <2>1, <2>2
  <1>2. ASSUME NEW s \in Server, NEW jobs,
               outbox' = [outbox EXCEPT ![s] = @ \cup jobs]
        PROVE  job \in outbox'[t]
    BY <1>2, JobsKept
  <1>3. ASSUME NEW s \in Server, NEW q \in outbox[s], ~Exit(s),
               sendRPCs(s, q) \/ replyToClient(s, q)
        PROVE  job \in outbox'[t] \/ Sends(t, job)
    <2>1. outbox' = [outbox EXCEPT ![s] = @ \ {q}]
      BY <1>3 DEF sendRPCs, replyToClient
    <2>2. CASE ~(t = s /\ job = q)
      BY <2>1, <2>2 DEF TypeOK, NetType
    <2>3. CASE t = s /\ job = q
      BY <1>3, <2>3 DEF sendRPCs, replyToClient, Sends
    <2> QED BY <2>2, <2>3
  <1>4. ASSUME NEW s \in Server, NEW c, StartBody(s, c)
        PROVE  job \in outbox'[t]
    <2>1. outbox' = outbox \/ \E jobs : outbox' = [outbox EXCEPT ![s] = @ \cup jobs]
      BY <1>4 DEF StartBody, StartForward, StartDrop, StartPrePrepare
    <2> QED BY <1>2, <2>1
  <1>5. ASSUME NEW s \in Server, NEW m \in msgs,
               HandlePrePrepareRPC(s, m) \/ HandlePrepareRPC(s, m) \/ HandleCommitRPC(s, m)
        PROVE  job \in outbox'[t]
    <2>1. HandlePrePrepareRPC(s, m) =>
            \E jobs : outbox' = [outbox EXCEPT ![s] = @ \cup jobs]
      BY Zenon DEF HandlePrePrepareRPC
    <2>2. HandlePrepareRPC(s, m) =>
            outbox' = outbox \/ \E jobs : outbox' = [outbox EXCEPT ![s] = @ \cup jobs]
      BY Zenon DEF HandlePrepareRPC
    <2>3. HandleCommitRPC(s, m) =>
            outbox' = outbox \/ \E jobs : outbox' = [outbox EXCEPT ![s] = @ \cup jobs]
      <3> DEFINE n == m.args.arg.SequenceNumber
                 J == {CommitReply(s, n, serverLog[s][n].message)} \cup
                      IF TakesCheckPoint(n) THEN {makeCheckpoint(s, n)} ELSE {}
      <3>1. HandleCommitRPC(s, m) =>
              outbox' = outbox \/ outbox' = [outbox EXCEPT ![s] = @ \cup J]
        BY DEF HandleCommitRPC, CommitReply
      <3> QED BY <3>1
    <2> QED BY <1>2, <1>5, <2>1, <2>2, <2>3
  <1>6. ASSUME NEW s \in Server, ~Exit(s),
               \/ \E m \in msgs :
                    \/ EnterHandler(s, m) \/ HandleCommitRPC_Fatal(s, m)
                    \/ HandleCheckPointRPC_Check(s, m)
               \/ \E a \in checking[s] : HandleCheckPointRPC_Record(s, a)
               \/ Crash(s) \/ HandleCommitRPC_Save(s) \/ Make(s)
        PROVE  outbox' = outbox
    BY <1>6 DEF EnterHandler, HandleCommitRPC_Fatal, HandleCheckPointRPC_Check,
                HandleCheckPointRPC_Record, Crash, HandleCommitRPC_Save, Make, netVars
  <1>7. CASE UNCHANGED vars
    BY <1>7 DEF vars, netVars
  <1> QED BY <1>1, <1>3, <1>4, <1>5, <1>6, <1>7
          DEF Next, Start, ReceiveForwardedCommand, Goroutine, Handler, GatedHandler

\* A forwarded command and a pre-prepare stay on their way until they are handled, or
\* the server they go to stops.
LEMMA MessagesGo ==
  ASSUME TypeOK, [Next]_vars, NEW m \in msgs,
         m.phase \in {"FORWARD_COMMAND", "PRE_PREPARE"}
  PROVE  \/ m \in msgs' \/ Interrupted(m.to)'
         \/ m.phase = "FORWARD_COMMAND" /\ ReceiveForwardedCommand(m.to, m)
         \/ m.phase = "PRE_PREPARE" /\ HandlePrePrepareRPC(m.to, m)
  <1>1. m.to \in Server
    BY DEF TypeOK, NetType
  <1>2. ASSUME NEW s \in Server, Exit(s)
        PROVE  m \in msgs' \/ Interrupted(m.to)'
    BY <1>2, ExitStops DEF Exit
  <1>3. ASSUME NEW s \in Server, ~Exit(s),
               \/ (\E c \in Command : Start(s, c)) \/ Goroutine(s) \/ Crash(s)
               \/ HandleCommitRPC_Save(s) \/ Make(s)
               \/ \E q \in msgs : EnterHandler(s, q) \/ HandleCommitRPC_Fatal(s, q)
               \/ \E a \in checking[s] : HandleCheckPointRPC_Record(s, a)
        PROVE  m \in msgs'
    BY <1>3 DEF Start, Goroutine, sendRPCs, replyToClient, Crash,
                HandleCommitRPC_Save, Make, EnterHandler,
                HandleCommitRPC_Fatal, HandleCheckPointRPC_Record, netVars
  <1>4. ASSUME NEW s \in Server, NEW q \in msgs, ~Exit(s),
               \/ HandlePrepareRPC(s, q) \/ HandleCommitRPC(s, q)
               \/ HandleCheckPointRPC_Check(s, q)
        PROVE  m \in msgs'
    BY <1>4 DEF HandlePrepareRPC, HandleCommitRPC, HandleCheckPointRPC_Check, Handles
  <1>5. ASSUME NEW s \in Server, NEW q \in msgs, ReceiveForwardedCommand(s, q)
        PROVE  m \in msgs' \/ (m = q /\ s = m.to /\ m.phase = "FORWARD_COMMAND")
    BY <1>5 DEF ReceiveForwardedCommand
  <1>6. ASSUME NEW s \in Server, NEW q \in msgs, HandlePrePrepareRPC(s, q)
        PROVE  m \in msgs' \/ (m = q /\ s = m.to /\ m.phase = "PRE_PREPARE")
    BY <1>6 DEF HandlePrePrepareRPC, Handles
  <1>7. CASE UNCHANGED vars
    BY <1>7 DEF vars, netVars
  <1> QED BY <1>2, <1>3, <1>4, <1>5, <1>6, <1>7 DEF Next, Handler, GatedHandler

-----------------------------------------------------------------------------
(* Nothing is refused.                                                      *)

\* No receiver has a reason to refuse a pre-prepare of the leader.
AllGenuine ==
  /\ \A m \in msgs : m.phase = "PRE_PREPARE" => Genuine(leader(0), m)
  /\ \A s \in Server : \A job \in outbox[s] :
       job.phase = "PRE_PREPARE" => Genuine(leader(0), job)

LEMMA GenuineStep ==
  ASSUME AgreedInv, [Next]_vars, AllGenuine
  PROVE  AllGenuine'
  <1>1. TypeOK /\ \A t \in Server : view[t] = 0
    BY DEF AgreedInv, OrderInv, OneView
  <1>2. ASSUME NEW m \in msgs', m.phase = "PRE_PREPARE"
        PROVE  Genuine(leader(0), m)
    <2>1. CASE m \in msgs
      BY <1>2, <2>1 DEF AllGenuine
    <2>2. CASE m \notin msgs
      <3>1. PICK t \in Server : \E job \in outbox[t] :
                   job.phase = m.phase /\ job.args = m.args
        BY <1>1, <2>2, NewMessages
      <3> QED BY <1>2, <3>1 DEF AllGenuine, Genuine
    <2> QED BY <2>1, <2>2
  <1>3. ASSUME NEW t \in Server, NEW job \in outbox'[t], job.phase = "PRE_PREPARE"
        PROVE  Genuine(leader(0), job)
    <2>1. CASE job \in outbox[t]
      BY <1>3, <2>1 DEF AllGenuine
    <2>2. CASE JobOrigin(t, job)
      <3>1. \A n : /\ \A c : CommitReply(t, n, c).phase # "PRE_PREPARE"
                   /\ makeCheckpoint(t, n).phase # "PRE_PREPARE"
        BY DEF CommitReply, makeCheckpoint
      <3>2. leader(view[t]) = t /\ Genuine(t, job)
        BY <1>3, <2>2, <3>1 DEF JobOrigin
      <3> QED BY <1>1, <3>2
    <2> QED BY <1>1, <2>1, <2>2, NewJobs
  <1> QED BY <1>2, <1>3 DEF AllGenuine, Genuine, verifySignatures, leader

\* The server a pre-prepare reaches logs its slot, or has it logged already.
LEMMA PrePrepareLogs ==
  ASSUME AgreedInv, AllGenuine, SigCarried, NEW s \in Server, NEW m \in msgs,
         HandlePrePrepareRPC(s, m)
  PROVE  Logged(s, m.args.arg.SequenceNumber)'
  <1> DEFINE a == m.args.arg
             n == a.SequenceNumber
             e == [logEntry(a.View, a.Message, a.Digest) EXCEPT
                     !.prepareArgs = {Vote(a.View, n, a.Digest, s, 0)}]
  <1>1. /\ m.phase = "PRE_PREPARE" /\ a \in PrePrepareArg
        /\ n \in Slot /\ a.View = 0 /\ view[s] = 0
    <2>1. m.phase = "PRE_PREPARE" /\ a \in PrePrepareArg
      BY MessageFields DEF HandlePrePrepareRPC, Handles, AgreedInv, OrderInv, TypeOK
    <2>2. Announced(m)
      BY DEF AgreedInv, OrderInv, RequestsFollow
    <2> QED BY <2>1, <2>2 DEF Announced, PrePrepareArg, AgreedInv, OrderInv, OneView
  <1>2. ValidPrePrepare(s, m.args)
    BY <1>1 DEF AllGenuine, Genuine, ValidPrePrepare
  <1>3. CASE addLogEntry(s, a.View, n)
    <2>1. serverLog' = [serverLog EXCEPT ![s][n] = e]
      BY <1>2, <1>3 DEF HandlePrePrepareRPC
    <2>2. e # NoEntry
      <3>1. e \in Entry
        <4>1. Vote(a.View, n, a.Digest, s, 0) \in VoteArg
          BY <1>1, VoteType DEF PrePrepareArg, AgreedInv, OrderInv, TypeOK
        <4>2. logEntry(a.View, a.Message, a.Digest) \in Entry
          BY <1>1, EntryType DEF PrePrepareArg
        <4> QED BY <4>1, <4>2 DEF Entry
      <3> QED BY <3>1, AbsentAssumption
    <2> HIDE DEF e, n
    <2>3. serverLog'[s][n] = e
      BY <1>1, <2>1 DEF AgreedInv, OrderInv, TypeOK, LogType
    <2> QED BY <2>2, <2>3 DEF Logged, n
  <1>4. CASE ~addLogEntry(s, a.View, n)
    <2>1. serverLog' = serverLog
      BY <1>4 DEF HandlePrePrepareRPC
    <2>2. Logged(s, n)
      BY <1>1, <1>4 DEF addLogEntry, Logged
    <2> QED BY <2>1, <2>2 DEF Logged
  <1> QED BY <1>3, <1>4

\* What becomes of a command that has reached a server: it is forwarded, or the leader
\* has logged it or has executed a newer one of the same client.
Taken(c) ==
  \/ UnderWay(c)
  \/ \E n \in Slot : Holds(leader(0), n, c)
  \/ clientRegisters[leader(0)][c.ClientID] > c.Timestamp

LEMMA StartTakes ==
  ASSUME AgreedInv, TypeOK', NEW s \in Server, NEW c \in Command, StartBody(s, c)
  PROVE  /\ Taken(c)'
         /\ \A n \in Slot :
              Logged(leader(0), n)' =>
                Logged(leader(0), n) \/ \E job \in outbox'[leader(0)] : Announces(job, n)
  <1>1. TypeOK /\ view[s] = 0
    BY DEF AgreedInv, OrderInv, OneView
  <1>2. CASE StartForward(s, c)
    <2> DEFINE job == [phase |-> "FORWARD_COMMAND",
                       args |-> makeArguments(s, "Command", c)]
    <2>1. job \in outbox'[s]
      BY <1>1, <1>2 DEF StartForward, TypeOK, NetType
    <2>2. job.phase = "FORWARD_COMMAND" /\ job.args.arg = c
      BY DEF makeArguments
    <2>3. serverLog' = serverLog
      BY <1>2 DEF StartForward
    <2> HIDE DEF job
    <2>4. UnderWay(c)'
      BY <2>1, <2>2 DEF UnderWay
    <2> QED BY <2>3, <2>4 DEF Taken, Logged
  <1>3. CASE StartDrop(s, c)
    <2>1. s = leader(0) /\ c.Timestamp < clientRegisters[s][c.ClientID]
      BY <1>1, <1>3 DEF StartDrop
    <2>2. UNCHANGED <<serverLog, clientRegisters>>
      BY <1>3 DEF StartBody, StartDrop
    <2>3. c.Timestamp \in Nat /\ clientRegisters[s][c.ClientID] \in Nat
      BY <1>1, CommandAssumption DEF TypeOK, LogType
    <2>4. clientRegisters'[leader(0)][c.ClientID] > c.Timestamp
      BY <2>1, <2>2, <2>3
    <2> QED BY <2>2, <2>4 DEF Taken, Logged, leader
  <1>4. CASE StartPrePrepare(s, c)
    <2> DEFINE n == sequenceNumber[s]
               e == logEntry(0, c, Digest[c])
               arg == [View |-> 0, SequenceNumber |-> n, Digest |-> Digest[c],
                       Message |-> c]
               new == [phase |-> "PRE_PREPARE",
                       args |-> makeArguments(s, "PrePrepareCommandArg", arg)]
    <2>1. s = leader(0) /\ n \in Slot /\ n \in Nat
      BY <1>1, <1>4, CommandAssumption DEF StartPrePrepare
    <2>2. ~Logged(s, n)
      BY <2>1 DEF AgreedInv, OrderInv, LeaderCounts
    <2>3. addLogEntry(s, 0, n)
      BY <1>1, <2>2 DEF addLogEntry, Logged
    <2>4. /\ serverLog' = [serverLog EXCEPT ![s][n] = e]
          /\ outbox' = [outbox EXCEPT ![s] = @ \cup
                           ({new} \cup RepeatedReply(s, 0, n, c))]
      BY <1>1, <1>4, <2>3 DEF StartPrePrepare
    <2>5. e # NoEntry /\ e.message = c
      <3>1. Digest[c] \in Nat
        BY DigestAssumption
      <3> QED BY <3>1, EntryType DEF logEntry
    <2>6. new \in outbox'[s]
      <3> HIDE DEF new
      <3> QED BY <1>1, <2>4 DEF TypeOK, NetType
    <2>7. Announces(new, n)
      BY DEF Announces, makeArguments
    <2> HIDE DEF e, new
    <2>8. /\ serverLog'[s][n] = e
          /\ \A k \in Slot : k # n => serverLog'[s][k] = serverLog[s][k]
      BY <1>1, <2>1, <2>4 DEF TypeOK, LogType
    <2>9. \E k \in Slot : Holds(leader(0), k, c)'
      <3>1. serverLog'[leader(0)][n] # NoEntry /\ serverLog'[leader(0)][n].message = c
        BY <2>1, <2>5, <2>8
      <3>2. PICK k \in Slot : k = n
        BY <2>1
      <3> QED BY <3>1, <3>2 DEF Holds, Logged
    <2>10. \A k \in Slot : Logged(leader(0), k)' => Logged(leader(0), k) \/ k = n
      BY <2>1, <2>8 DEF Logged, leader
    <2>11. Taken(c)'
      BY <2>9 DEF Taken
    <2> QED BY <2>1, <2>6, <2>7, <2>10, <2>11
  <1> QED BY <1>2, <1>3, <1>4 DEF StartBody

-----------------------------------------------------------------------------
(* Nothing is lost.                                                         *)

\* A command is new when some server starts it.
LEMMA NewCommands ==
  ASSUME [Next]_vars
  PROVE  \A c \in submitted' :
           c \in submitted \/ \E s \in Server : c \in Command /\ StartBody(s, c)
  <1>1. ASSUME NEW s \in Server, NEW c \in Command, Start(s, c)
        PROVE  submitted' = submitted \cup {c} /\ StartBody(s, c)
    BY <1>1 DEF Start
  <1>2. ASSUME NEW s \in Server, Goroutine(s) \/ Handler(s) \/ Crash(s) \/ Make(s)
        PROVE  submitted' = submitted
    BY <1>2 DEF Goroutine, sendRPCs, replyToClient, Handler, GatedHandler,
                ReceiveForwardedCommand, EnterHandler, HandlePrePrepareRPC,
                HandlePrepareRPC, HandleCommitRPC, HandleCommitRPC_Fatal,
                HandleCheckPointRPC_Check, HandleCheckPointRPC_Record, Crash,
                HandleCommitRPC_Save, Make,
                envVars
  <1>3. CASE UNCHANGED vars
    BY <1>3 DEF vars, envVars
  <1> QED BY <1>1, <1>2, <1>3 DEF Next

\* A command that has reached a server stays taken.
LEMMA TakenStays ==
  ASSUME AgreedInv, TypeOK', [Next]_vars, leader(0) \notin remade',
         \A s \in Server : ~Interrupted(s)',
         NEW c \in Command, Taken(c)
  PROVE  Taken(c)'
  <1>1. TypeOK /\ leader(0) \in Server
    BY LeaderIsServer DEF AgreedInv, OrderInv
  <1>2. ASSUME NEW n \in Slot, Holds(leader(0), n, c)
        PROVE  Taken(c)'
    BY <1>1, <1>2, AllStay DEF Holds, Logged, Stays, Taken, leader
  <1>3. CASE clientRegisters[leader(0)][c.ClientID] > c.Timestamp
    <2>1. c.ClientID \in Client /\ c.Timestamp \in Nat
      BY CommandAssumption
    <2>2. /\ clientRegisters[leader(0)][c.ClientID] \in Nat
          /\ clientRegisters'[leader(0)][c.ClientID] \in Nat
          /\ clientRegisters'[leader(0)][c.ClientID]
               >= clientRegisters[leader(0)][c.ClientID]
      BY <1>1, <2>1, RegistersGrow DEF TypeOK, LogType
    <2>3. clientRegisters'[leader(0)][c.ClientID] > c.Timestamp
      BY <1>3, <2>1, <2>2
    <2> QED BY <2>3 DEF Taken, leader
  <1>4. ASSUME NEW t \in Server, NEW job \in outbox[t],
               job.phase = "FORWARD_COMMAND", job.args.arg = c
        PROVE  Taken(c)'
    <2>1. CASE job \in outbox'[t]
      BY <1>4, <2>1 DEF Taken, UnderWay
    <2>2. CASE Sends(t, job)
      <3> DEFINE m == [to |-> leader(view[t]), phase |-> job.phase, args |-> job.args]
      <3>1. m \in msgs'
        BY <1>4, <2>2 DEF Sends, Destinations
      <3>2. m.phase = "FORWARD_COMMAND" /\ m.args.arg = c
        BY <1>4
      <3> HIDE DEF m
      <3> QED BY <3>1, <3>2 DEF Taken, UnderWay
    <2> QED BY <1>1, <1>4, <2>1, <2>2, JobsGo
  <1>5. ASSUME NEW m \in msgs, m.phase = "FORWARD_COMMAND", m.args.arg = c
        PROVE  Taken(c)'
    <2>1. m.to \in Server
      BY <1>1 DEF TypeOK, NetType
    <2>2. CASE m \in msgs'
      BY <1>5, <2>2 DEF Taken, UnderWay
    <2>3. CASE ReceiveForwardedCommand(m.to, m)
      BY <1>5, <2>1, <2>3, StartTakes DEF ReceiveForwardedCommand
    <2> QED BY <1>1, <1>5, <2>1, <2>2, <2>3, MessagesGo
  <1> QED BY <1>2, <1>3, <1>4, <1>5 DEF Taken, UnderWay

\* The leader logs a command and starts its pre-prepare in one step.
LEMMA NewSlots ==
  ASSUME AgreedInv, TypeOK', [Next]_vars, leader(0) \notin remade',
         NEW n \in Slot, Logged(leader(0), n)'
  PROVE  \/ Logged(leader(0), n)
         \/ \E job \in outbox'[leader(0)] : Announces(job, n)
  <1>1. TypeOK /\ leader(0) \in Server
    BY LeaderIsServer DEF AgreedInv, OrderInv
  <1>2. ASSUME NEW s \in Server, NEW c \in Command, StartBody(s, c)
        PROVE  Logged(leader(0), n) \/ \E job \in outbox'[leader(0)] : Announces(job, n)
    BY <1>2, StartTakes
  <1>3. ASSUME NEW s \in Server, NEW m \in msgs, ReceiveForwardedCommand(s, m)
        PROVE  m.args.arg \in Command /\ StartBody(s, m.args.arg)
    BY <1>1, <1>3, MessageFields DEF ReceiveForwardedCommand, TypeOK
  <1>4. ASSUME serverLog'[leader(0)] = serverLog[leader(0)]
        PROVE  Logged(leader(0), n)
    BY <1>4 DEF Logged, leader
  <1>5. ASSUME NEW s \in Server, NEW m \in msgs, HandlePrePrepareRPC(s, m)
        PROVE  Logged(leader(0), n)
    <2>1. CASE UNCHANGED serverLog
      BY <1>4, <2>1
    <2>2. CASE \E e : serverLog' = [serverLog EXCEPT ![s][m.args.arg.SequenceNumber] = e]
      <3>1. m.args.arg.SequenceNumber \in Slot
            /\ Logged(leader(0), m.args.arg.SequenceNumber)
        <4>1. Announced(m) /\ m.phase = "PRE_PREPARE"
          BY <1>5 DEF AgreedInv, OrderInv, RequestsFollow, HandlePrePrepareRPC, Handles
        <4> QED BY <1>1, <4>1, MessageFields
                DEF Announced, Holds, TypeOK, PrePrepareArg
      <3>2. n # m.args.arg.SequenceNumber =>
              serverLog'[leader(0)][n] = serverLog[leader(0)][n]
        BY <1>1, <2>2, <3>1 DEF TypeOK, LogType
      <3> QED BY <3>1, <3>2 DEF Logged, leader
    <2> QED BY <1>5, <2>1, <2>2 DEF HandlePrePrepareRPC
  <1>6. ASSUME NEW s \in Server, NEW m \in msgs, HandlePrepareRPC(s, m)
        PROVE  Logged(leader(0), n)
    <2>1. CASE UNCHANGED serverLog
      BY <1>4, <2>1
    <2>2. CASE /\ ValidPrepare(s, m.args)
               /\ \E e : serverLog' = [serverLog EXCEPT
                                         ![s][m.args.arg.SequenceNumber] = e]
      <3>1. /\ m.args.arg.SequenceNumber \in Slot
            /\ Logged(s, m.args.arg.SequenceNumber)
        BY <1>1, <1>6, <2>2, MessageFields
        DEF ValidPrepare, Logged, HandlePrepareRPC, Handles, TypeOK, VoteArg
      <3>2. ~(s = leader(0) /\ n = m.args.arg.SequenceNumber) =>
              serverLog'[leader(0)][n] = serverLog[leader(0)][n]
        BY <1>1, <2>2, <3>1 DEF TypeOK, LogType
      <3> QED BY <3>1, <3>2 DEF Logged, leader
    <2> QED BY <1>6, <2>1, <2>2 DEF HandlePrepareRPC
  <1>7. ASSUME NEW s \in Server,
               \/ Goroutine(s) \/ Crash(s) \/ HandleCommitRPC_Save(s)
               \/ \E m \in msgs :
                    \/ EnterHandler(s, m)
                    \/ HandleCommitRPC(s, m) \/ HandleCommitRPC_Fatal(s, m)
                    \/ HandleCheckPointRPC_Check(s, m)
               \/ \E a \in checking[s] : HandleCheckPointRPC_Record(s, a)
        PROVE  serverLog' = serverLog
    BY <1>7 DEF Goroutine, sendRPCs, replyToClient, Crash,
                HandleCommitRPC_Save, Exit, EnterHandler,
                HandleCommitRPC, HandleCommitRPC_Fatal, HandleCheckPointRPC_Check,
                HandleCheckPointRPC_Record, logVars
  <1>8. ASSUME NEW s \in Server, Make(s)
        PROVE  serverLog'[leader(0)] = serverLog[leader(0)]
    <2>1. s # leader(0)
      BY <1>8 DEF Make
    <2> QED BY <1>1, <1>8, <2>1 DEF Make, readPersist, Exit, logVars, TypeOK, LogType
  <1>9. CASE UNCHANGED vars
    BY <1>4, <1>9 DEF vars, logVars
  <1> QED BY <1>2, <1>3, <1>4, <1>5, <1>6, <1>7, <1>8, <1>9
          DEF Next, Start, Handler, GatedHandler

\* What the leader has logged has reached a server, or is on its way there.
Reaches(s, n) ==
  \/ Logged(s, n)
  \/ \E job \in outbox[leader(0)] : Announces(job, n)
  \/ \E m \in msgs : m.to = s /\ Announces(m, n)

LEMMA ReachesStays ==
  ASSUME AgreedInv, AllGenuine, SigCarried, TypeOK', [Next]_vars, NEW s \in Server,
         ~Interrupted(leader(0))', ~Interrupted(s)', NEW n \in Slot,
         Logged(leader(0), n), Reaches(s, n)
  PROVE  Reaches(s, n)'
  <1>1. TypeOK /\ leader(0) \in Server
    BY LeaderIsServer DEF AgreedInv, OrderInv
  <1>2. \A t \in {s, leader(0)} : Logged(t, n) => Logged(t, n)'
    BY <1>1, AllStay DEF Interrupted, Stays, Logged
  <1>3. CASE Logged(s, n) \/ s = leader(0)
    BY <1>2, <1>3 DEF Reaches
  <1>4. ASSUME NEW job \in outbox[leader(0)], Announces(job, n), s # leader(0)
        PROVE  Reaches(s, n)'
    <2>1. CASE job \in outbox'[leader(0)]
      BY <1>4, <2>1 DEF Reaches, Announces, leader
    <2>2. CASE Sends(leader(0), job)
      <3> DEFINE m == [to |-> s, phase |-> job.phase, args |-> job.args]
      <3>1. m \in msgs'
        BY <1>4, <2>2 DEF Sends, Destinations, Announces
      <3>2. m.to = s /\ Announces(m, n)
        BY <1>4 DEF Announces
      <3> HIDE DEF m
      <3> QED BY <3>1, <3>2 DEF Reaches, Announces
    <2> QED BY <1>1, <1>4, <2>1, <2>2, JobsGo DEF Announces
  <1>5. ASSUME NEW m \in msgs, m.to = s, Announces(m, n)
        PROVE  Reaches(s, n)'
    <2>1. CASE m \in msgs'
      BY <1>5, <2>1 DEF Reaches, Announces
    <2>2. CASE HandlePrePrepareRPC(s, m)
      BY <1>5, <2>2, PrePrepareLogs DEF Reaches, Announces
    <2> QED BY <1>1, <1>5, <2>1, <2>2, MessagesGo DEF Announces
  <1> QED BY <1>3, <1>4, <1>5 DEF Reaches

LEMMA DeliveryStep ==
  ASSUME AgreedInv, AllGenuine, NothingLost, TypeOK', [Next]_vars, leader(0) \notin remade'
  PROVE  NothingLost'
  <1>1. TypeOK /\ leader(0) \in Server
    BY LeaderIsServer DEF AgreedInv, OrderInv
  <1>2. ASSUME NEW c \in submitted', \A s \in Server : ~Interrupted(s)'
        PROVE  Taken(c)'
    <2>1. \A s \in Server : ~Interrupted(s)
      BY <1>1, <1>2, InterruptedStays
    <2>2. CASE c \in submitted
      <3>1. Taken(c) /\ c \in Command
        BY <1>1, <2>1, <2>2 DEF NothingLost, Taken, TypeOK, EnvType
      <3> QED BY <1>2, <3>1, TakenStays
    <2>3. CASE \E s \in Server : c \in Command /\ StartBody(s, c)
      BY <2>3, StartTakes
    <2> QED BY <1>2, <2>2, <2>3, NewCommands
  <1>3. ASSUME SigCarried, ~Interrupted(leader(0))', NEW s \in Server, ~Interrupted(s)',
               NEW n \in Slot, Logged(leader(0), n)'
        PROVE  Reaches(s, n)'
    <2>1. CASE Logged(leader(0), n)
      <3>1. ~Interrupted(leader(0)) /\ ~Interrupted(s)
        BY <1>1, <1>3, InterruptedStays
      <3>2. Reaches(s, n)
        BY <1>3, <2>1, <3>1 DEF NothingLost, Reaches
      <3> QED BY <1>3, <2>1, <3>2, ReachesStays
    <2>2. CASE \E job \in outbox'[leader(0)] : Announces(job, n)
      BY <2>2 DEF Reaches, Announces, leader
    <2> QED BY <1>3, <2>1, <2>2, NewSlots
  <1>4. \A c \in submitted' : Taken(c)' \/ \E s \in Server : Interrupted(s)'
    BY <1>2
  <1>5. SigCarried /\ ~Interrupted(leader(0))' =>
          \A s \in Server, n \in Slot :
            Logged(leader(0), n)' => Reaches(s, n)' \/ Interrupted(s)'
    BY <1>3
  <1> QED BY <1>4, <1>5 DEF NothingLost, Taken, Reaches

\* Every request is sent once and none is answered, yet none is lost: for any number of
\* servers and commands and in any order of delivery, a command some server took is on
\* its way to the leader, logged by it or overtaken there, while nobody has stopped or
\* started again; and what the leader has logged is logged by each other server, or its
\* pre-prepare is still to be sent or on its way there and will not be refused, while
\* neither of the two has.
THEOREM NothingLostCorrect == Spec => []NothingLost
  <1> DEFINE Kept == leader(0) \notin remade => AllGenuine /\ NothingLost
             Agreed == leader(0) \notin remade => AgreedInv
  <1>1. Init => Kept
    <2>1. leader(0) \in Server
      BY LeaderIsServer
    <2>2. Init => AllGenuine
      BY DEF Init, AllGenuine
    <2>3. Init => \A n \in Slot : ~Logged(leader(0), n)
      BY <2>1 DEF Init, Logged
    <2> QED BY <2>2, <2>3 DEF Init, NothingLost
  <1>2. TypeOK' /\ Agreed /\ Kept /\ [Next]_vars => Kept'
    <2> SUFFICES ASSUME TypeOK', Agreed, Kept, [Next]_vars, leader(0) \notin remade'
                 PROVE  AllGenuine' /\ NothingLost'
      BY DEF leader
    <2>1. leader(0) \notin remade
      BY RemadeGrows
    <2> QED BY <2>1, GenuineStep, DeliveryStep
  <1>3. Kept => NothingLost
    <2>1. leader(0) \in remade => Interrupted(leader(0)) /\ leader(0) \in Server
      BY LeaderIsServer DEF Interrupted
    <2> QED BY <2>1 DEF NothingLost
  <1> QED BY <1>1, <1>2, <1>3, TypeCorrect, AgreedAlways, PTL DEF Spec
=============================================================================
